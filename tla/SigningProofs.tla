----------------------------- MODULE SigningProofs -----------------------------
(***************************************************************************)
(* Proofs about CoreSigning: what is signed is what was shown, whether the *)
(* core built it itself or somebody else drafted it under any profile, and *)
(* what a review calls bound is bound in every completion that the network *)
(* still takes.  The last part is about what coins add up to, and that     *)
(* signing changes none of it.                                             *)
(***************************************************************************)
EXTENDS CoreHosts, FiniteSetTheorems, SequenceTheorems, TLAPS
LOCAL INSTANCE SequencesExt

----------------------------------------------------------------------------
(* Lists.                                                                  *)

LEMMA ListsAreSequences ==
  ASSUME NEW S, NEW s \in Seq(S)
  PROVE  IsList(s) /\ Len(s) \in Nat /\ DOMAIN s = 1 .. Len(s)
<1>1. Len(s) \in Nat /\ DOMAIN s = 1 .. Len(s)
  OBVIOUS
<1>2. s \in [1 .. Len(s) -> Elements(s)]
  BY <1>1 DEF Elements
<1> QED
  BY <1>1, <1>2, SeqDef DEF IsList

LEMMA ListsHavePlaces ==
  ASSUME NEW s, IsList(s)
  PROVE  Len(s) \in Nat /\ DOMAIN s = 1 .. Len(s)
BY DEF IsList

LEMMA RemovalKeepsLists ==
  ASSUME NEW s, IsList(s), NEW k \in DOMAIN s
  PROVE  IsList(RemoveAt(s, k))
<1> DEFINE S == Elements(s)
<1>1. s \in Seq(S) /\ k \in 1 .. Len(s) /\ Len(s) \in Nat
  BY ListsHavePlaces DEF IsList
<1> HIDE DEF S
<1>2. SubSeq(s, 1, k - 1) \in Seq(S) /\ SubSeq(s, k + 1, Len(s)) \in Seq(S)
  BY <1>1
<1>3. RemoveAt(s, k) \in Seq(S)
  BY <1>2 DEF RemoveAt
<1> QED
  BY <1>3, ListsAreSequences

LEMMA ChangesKeepLists ==
  ASSUME NEW s, IsList(s), NEW t, DOMAIN t = DOMAIN s, t = [i \in DOMAIN t |-> t[i]]
  PROVE  IsList(t)
<1>1. Len(s) \in Nat /\ t \in [1 .. Len(s) -> Elements(t)]
  BY ListsHavePlaces DEF Elements
<1> QED
  BY <1>1, SeqDef DEF IsList

LEMMA AdditionsKeepLists ==
  ASSUME NEW s, IsList(s), NEW e
  PROVE  IsList(Append(s, e)) /\ IsList(<<e>> \o s)
         /\ Elements(Append(s, e)) \subseteq Elements(s) \cup {e}
         /\ Elements(<<e>> \o s) \subseteq Elements(s) \cup {e}
<1> DEFINE S == Elements(s) \cup {e}
<1>1. s \in Seq(S) /\ <<e>> \in Seq(S)
  <2>1. s \in Seq(Elements(s)) /\ Elements(s) \subseteq S
    BY DEF IsList
  <2> QED
    BY <2>1, SeqMonotonic
<1>2. e \in S
  OBVIOUS
<1> HIDE DEF S
<1>3. Append(s, e) \in Seq(S) /\ <<e>> \o s \in Seq(S)
  BY <1>1, <1>2
<1>4. IsList(Append(s, e)) /\ IsList(<<e>> \o s)
  BY <1>3, ListsAreSequences
<1>5. \A t \in Seq(S) : Elements(t) \subseteq S
  BY DEF Elements
<1>6. Elements(Append(s, e)) \subseteq S /\ Elements(<<e>> \o s) \subseteq S
  BY <1>3, <1>5
<1> QED
  BY <1>4, <1>6 DEF S

----------------------------------------------------------------------------
(* Edits and completions leave a transaction a transaction.                *)

\* Another list of outputs.
LEMMA OutputsMayChange ==
  ASSUME NEW tx, IsTransaction(tx), NEW o, IsList(o)
  PROVE  IsTransaction([tx EXCEPT !.outs = o])
BY DEF IsTransaction

LEMMA EditedOutputs ==
  ASSUME NEW outs, IsList(outs), NEW o \in OutEdits(outs)
  PROVE  IsList(o)
<1>1. ASSUME NEW s, IsList(s), NEW k, NEW x
      PROVE  IsList([s EXCEPT ![k] = x]) /\ DOMAIN [s EXCEPT ![k] = x] = DOMAIN s
  BY <1>1, ChangesKeepLists
<1>2. ASSUME NEW s, IsList(s), NEW k
      PROVE  /\ \A d : IsList(Nudged(s, k, d)) /\ DOMAIN Nudged(s, k, d) = DOMAIN s
             /\ \A x : IsList(Redirected(s, k, x))
  BY <1>1, <1>2 DEF Nudged, Redirected
<1>3. CASE o \in Shifts(outs)
  <2>1. \E a, b, d : o = Nudged(Nudged(outs, a, -d), b, d)
    BY <1>3, SMT DEF Shifts
  <2> QED
    BY <1>2, <2>1
<1>4. CASE \E k, d : o = Nudged(outs, k, d)
  BY <1>2, <1>4
<1>5. CASE \E k, x : o = Redirected(outs, k, x)
  BY <1>2, <1>5
<1>6. CASE \E k \in DOMAIN outs : o = RemoveAt(outs, k)
  BY <1>6, RemovalKeepsLists
<1> QED
  BY <1>3, <1>4, <1>5, <1>6, Zenon DEF OutEdits

LEMMA EditedTransactions ==
  ASSUME NEW tx, IsTransaction(tx), NEW t \in TxEdits(tx)
  PROVE  IsTransaction(t)
<1>1. CASE \E o \in OutEdits(tx.outs) : t = [tx EXCEPT !.outs = o]
  BY <1>1, EditedOutputs, OutputsMayChange DEF IsTransaction
<1>2. ASSUME NEW i \in DOMAIN tx.ins, NEW d, t = [tx EXCEPT !.ins = Nudged(@, i, d)]
      PROVE  IsTransaction(t)
  <2> DEFINE ins == Nudged(tx.ins, i, d)
  <2>1. DOMAIN ins = DOMAIN tx.ins /\ ins = [j \in DOMAIN ins |-> ins[j]]
    BY DEF Nudged
  <2>2. IsList(ins)
    BY <2>1, ChangesKeepLists DEF IsTransaction
  <2>3. \A j \in DOMAIN ins : DOMAIN ins[j] = DOMAIN tx.ins[j]
    BY <2>1 DEF Nudged
  <2> HIDE DEF ins
  <2>4. t = [tx EXCEPT !.ins = ins]
    BY <1>2 DEF ins
  <2> QED
    BY <2>1, <2>2, <2>3, <2>4 DEF IsTransaction
<1> QED
  BY <1>1, <1>2, SMT DEF TxEdits

LEMMA EditedDrafts ==
  ASSUME NEW r, IsDrafted(r), NEW e \in DraftEdits(r)
  PROVE  IsDrafted(e)
<1>1. ASSUME NEW t \in TxEdits(r.tx), e = Rehashed([r EXCEPT !.tx = t])
      PROVE  IsDrafted(e)
  <2>1. IsTransaction(t)
    BY EditedTransactions DEF IsDrafted
  <2>2. "tx" \in DOMAIN e /\ e.tx = t
    BY <1>1 DEF Rehashed, IsDrafted
  <2> QED
    BY <2>1, <2>2 DEF IsDrafted
<1>2. ASSUME NEW t, e = [r EXCEPT !.terms = t]
      PROVE  IsDrafted(e)
  BY <1>2 DEF IsDrafted
<1> QED
  BY <1>1, <1>2 DEF DraftEdits

LEMMA EditedRequests ==
  ASSUME NEW r, IsDrafted(r), NEW e \in RequestEdits(r)
  PROVE  IsDrafted(e)
<1>1. ASSUME NEW f, f # "tx", NEW x, e = [r EXCEPT ![f] = x]
      PROVE  IsDrafted(e)
  BY <1>1 DEF IsDrafted
<1>2. CASE e \in FieldEdits(r)
  <2>1. "tx" \notin Numbers \cup Parties \cup Lists
    BY DEF Numbers, Parties, Lists
  <2>2. CASE e \in {[r EXCEPT ![f] = @ + d] : f \in DOMAIN r \cap Numbers, d \in Nudges}
    <3>1. PICK f \in DOMAIN r \cap Numbers, d \in Nudges : e = [r EXCEPT ![f] = @ + d]
      BY <2>2, SMT
    <3> QED
      BY <1>1, <2>1, <3>1
  <2>3. CASE e \in {[r EXCEPT ![f] = Stranger] : f \in DOMAIN r \cap Parties}
    <3>1. PICK f \in DOMAIN r \cap Parties : e = [r EXCEPT ![f] = Stranger]
      BY <2>3
    <3> QED
      BY <1>1, <2>1, <3>1
  <2>4. CASE e \in {[r EXCEPT ![f] = Tail(@)] : f \in {g \in DOMAIN r \cap Lists : r[g] # <<>>}}
    <3>1. PICK f \in DOMAIN r \cap Lists : e = [r EXCEPT ![f] = Tail(@)]
      BY <2>4
    <3> QED
      BY <1>1, <2>1, <3>1
  <2>5. CASE e \in UNION {{[r EXCEPT ![f][i].amount = @ + d] : i \in DOMAIN r[f], d \in Nudges} :
                            f \in DOMAIN r \cap {"utxos", "coins"}}
    <3>1. PICK f \in DOMAIN r \cap {"utxos", "coins"} :
                 e \in {[r EXCEPT ![f][i].amount = @ + d] : i \in DOMAIN r[f], d \in Nudges}
      <4> DEFINE S(f) == {[r EXCEPT ![f][i].amount = @ + d] : i \in DOMAIN r[f], d \in Nudges}
      <4>1. e \in UNION {S(f) : f \in DOMAIN r \cap {"utxos", "coins"}}
        BY <2>5
      <4> HIDE DEF S
      <4>2. \E f \in DOMAIN r \cap {"utxos", "coins"} : e \in S(f)
        BY <4>1
      <4> QED
        BY <4>2 DEF S
    <3>2. PICK i \in DOMAIN r[f], d \in Nudges : e = [r EXCEPT ![f][i].amount = @ + d]
      BY <3>1, SMT
    <3>3. e.tx = r.tx /\ DOMAIN e = DOMAIN r
      BY <3>1, <3>2
    <3> QED
      BY <3>3 DEF IsDrafted
  <2> QED
    BY <1>2, <2>2, <2>3, <2>4, <2>5 DEF FieldEdits
<1>3. ASSUME NEW o, e = [r EXCEPT !.operation = o] PROVE IsDrafted(e)
  BY <1>3 DEF IsDrafted
<1>4. ASSUME NEW t, e = [r EXCEPT !.terms = t] PROVE IsDrafted(e)
  BY <1>4 DEF IsDrafted
<1>5. ASSUME NEW o \in OutEdits(r.tx.outs), e = [r EXCEPT !.tx.outs = o] PROVE IsDrafted(e)
  <2>1. IsTransaction([r.tx EXCEPT !.outs = o])
    BY EditedOutputs, OutputsMayChange DEF IsDrafted, IsTransaction
  <2>2. e.tx = [r.tx EXCEPT !.outs = o] /\ DOMAIN e = DOMAIN r
    BY <1>5 DEF IsDrafted
  <2> QED
    BY <2>1, <2>2 DEF IsDrafted
<1> QED
  BY <1>2, <1>3, <1>4, <1>5, Zenon DEF RequestEdits

\* What the core makes of a draft before it looks at it.
LEMMA ExpandedDrafts ==
  ASSUME NEW r, IsDrafted(r)
  PROVE  IsDrafted(Drafted(r))
<1>1. CASE r.profile = "kforge"
  <2> DEFINE e == Expand(r)
  <2>1. "tx" \in DOMAIN e /\ DOMAIN e.tx = DOMAIN r.tx /\ e.tx.outs = r.tx.outs
    BY DEF Expand, IsDrafted, IsTransaction
  <2>2. e.tx.ins = [i \in DOMAIN r.tx.ins |-> [r.tx.ins[i] EXCEPT !.witness = WitnessAt(r, i)]]
    BY DEF Expand, IsDrafted, IsTransaction
  <2>3. DOMAIN e.tx.ins = DOMAIN r.tx.ins /\ \A i \in DOMAIN r.tx.ins : DOMAIN e.tx.ins[i] = DOMAIN r.tx.ins[i]
    BY <2>2
  <2>4. IsList(e.tx.ins)
    BY <2>2, <2>3, ChangesKeepLists DEF IsDrafted, IsTransaction
  <2> HIDE DEF e
  <2>5. IsDrafted(e)
    BY <2>1, <2>3, <2>4 DEF IsDrafted, IsTransaction
  <2> QED
    BY <1>1, <2>5 DEF Drafted, e
<1>2. CASE r.profile # "kforge"
  BY <1>2 DEF Drafted
<1> QED
  BY <1>1, <1>2

LEMMA CompletedTransactions ==
  ASSUME NEW tx, IsTransaction(tx), NEW t \in Completions(tx)
  PROVE  IsTransaction(t)
<1> DEFINE e == ForeignIn(tx)
<1>1. IsList(tx.outs) /\ IsList(tx.ins) /\ "outpoint" \in DOMAIN e
  BY DEF IsTransaction, ForeignIn
<1> HIDE DEF e
<1>2. ASSUME NEW ins, IsList(ins), Elements(ins) \subseteq Elements(tx.ins) \cup {e}
      PROVE  IsTransaction([tx EXCEPT !.ins = ins])
  <2>1. \A in \in Elements(tx.ins) \cup {e} : "outpoint" \in DOMAIN in
    BY <1>1 DEF IsTransaction, Elements
  <2>2. \A i \in DOMAIN ins : "outpoint" \in DOMAIN ins[i]
    BY <1>2, <2>1 DEF Elements
  <2> QED
    BY <1>2, <2>2 DEF IsTransaction
<1>7. CASE t = [tx EXCEPT !.ins = Append(@, ForeignIn(tx))]
  BY <1>1, <1>2, <1>7, AdditionsKeepLists DEF e
<1>3. CASE t = [tx EXCEPT !.outs = Append(@, ForeignOut)]
  BY <1>1, <1>3, AdditionsKeepLists, OutputsMayChange
<1>4. CASE t = [tx EXCEPT !.ins = <<ForeignIn(tx)>> \o @, !.outs = <<ForeignOut>> \o @]
  <2> DEFINE u == [tx EXCEPT !.ins = <<e>> \o @]
  <2>1. IsTransaction(u)
    BY <1>1, <1>2, AdditionsKeepLists
  <2>2. IsList(<<ForeignOut>> \o tx.outs)
    BY <1>1, AdditionsKeepLists
  <2>3. t = [u EXCEPT !.outs = <<ForeignOut>> \o tx.outs]
    BY <1>4 DEF e
  <2> HIDE DEF u
  <2> QED
    BY <2>1, <2>2, <2>3, OutputsMayChange
<1>5. ASSUME NEW k \in DOMAIN tx.outs, t = [tx EXCEPT !.outs = RemoveAt(@, k)]
      PROVE  IsTransaction(t)
  BY <1>1, <1>5, RemovalKeepsLists, OutputsMayChange
<1>6. ASSUME NEW k \in DOMAIN tx.outs, t = [tx EXCEPT !.outs[k] = ForeignOut]
      PROVE  IsTransaction(t)
  BY <1>1, <1>6, ChangesKeepLists, OutputsMayChange
<1> QED
  BY <1>3, <1>4, <1>5, <1>6, <1>7 DEF Completions

----------------------------------------------------------------------------
(* What is signed is what is reviewed.                                     *)

\* The builder of drafts reviews the very transaction it builds, and only a
\* draft whose selection is in order.
LEMMA BuiltDrafts ==
  ASSUME NEW r, BuildPskt(r).ok
  PROVE  /\ BuildPskt(r).tx = Drafted(r).tx
         /\ BuildPskt(r).review.tx = Drafted(r).tx
         /\ BuildPskt(r).review.bound = {k \in DOMAIN Drafted(r).tx.outs : SignatureBound(Drafted(r), k)}
         /\ BuildPskt(r).review.finalFeeKnown = FinalFeeKnown(Drafted(r))
         /\ SelectionOk(Drafted(r))
<1> DEFINE d == Drafted(r)
<1>1. BuildPskt(r) = BuildDraft(r, d)
  BY DEF BuildPskt, Refused
<1> HIDE DEF d
<1>2. DraftRefusals(d) = {} /\ BuildPskt(r) = Built(d.tx, [DraftReview(d) EXCEPT !.warnings = ProfileWarnings(d)])
  BY <1>1 DEF BuildDraft, Refused
<1>3. SelectionOk(d)
  BY <1>2 DEF DraftRefusals
<1>4. BuildPskt(r).tx = d.tx /\ BuildPskt(r).review = [DraftReview(d) EXCEPT !.warnings = ProfileWarnings(d)]
  BY <1>2 DEF Built
<1> QED
  BY <1>3, <1>4 DEF d, DraftReview

\* Signing fills in witnesses and nothing else.
LEMMA SigningKeepsDrafts ==
  ASSUME NEW d, IsDrafted(d)
  PROVE  /\ IsTransaction(SignedDraft(d))
         /\ SignedDraft(d).version = d.tx.version /\ SignedDraft(d).payload = d.tx.payload
         /\ SignedDraft(d).outs = d.tx.outs
         /\ DOMAIN SignedDraft(d).ins = DOMAIN d.tx.ins
         /\ \A i \in DOMAIN d.tx.ins : SignedDraft(d).ins[i].outpoint = d.tx.ins[i].outpoint
<1> DEFINE filled(i) == IF i \in Selected(d)
                        THEN [d.tx.ins[i] EXCEPT !.witness = WitnessFor(d, i, Signature(d, d.tx, i))] ELSE d.tx.ins[i]
           ins == [i \in DOMAIN d.tx.ins |-> filled(i)]
<1>1. SignedDraft(d) = [d.tx EXCEPT !.ins = ins]
  BY DEF SignedDraft
<1>2. \A i \in DOMAIN d.tx.ins : filled(i).outpoint = d.tx.ins[i].outpoint /\ DOMAIN filled(i) = DOMAIN d.tx.ins[i]
  BY DEF IsDrafted, IsTransaction
<1> HIDE DEF filled
<1>3. DOMAIN ins = DOMAIN d.tx.ins /\ \A i \in DOMAIN ins : ins[i] = filled(i)
  OBVIOUS
<1>4. IsList(ins)
  BY ChangesKeepLists DEF IsDrafted, IsTransaction
<1> HIDE DEF ins
<1>5. IsTransaction(SignedDraft(d))
  BY <1>1, <1>2, <1>3, <1>4 DEF IsDrafted, IsTransaction
<1> QED
  BY <1>1, <1>2, <1>3, <1>5 DEF IsDrafted, IsTransaction

LEMMA ExecutedTheSame ==
  ASSUME NEW a, NEW b, a.version = b.version, a.payload = b.payload, a.outs = b.outs,
         DOMAIN a.ins = DOMAIN b.ins, \A i \in DOMAIN a.ins : a.ins[i].outpoint = b.ins[i].outpoint
  PROVE  Executed(a) = Executed(b)
BY DEF Executed

----------------------------------------------------------------------------
(* What the core builds itself.  Whatever the search for the fee did, its  *)
(* answer is the review of the transaction it ends with, and that review   *)
(* says all the network is told: the fields the review hashes leave no     *)
(* room for another transaction.                                           *)

LEMMA RefusalsAreNotOk ==
  /\ \A x : ~Refused(x).ok
  /\ \A x : ~Retry(x).ok
BY DEF Refused, Retry

LEMMA BuiltPayments ==
  ASSUME NEW r, BuildSend(r).ok
  PROVE  \E tx, amount, change :
           /\ BuildSend(r) = Built(tx, Review(r, tx, amount, change))
           /\ DOMAIN tx = {"version", "ins", "payload", "outs"} /\ tx.version = 0 /\ tx.payload = <<>>
<1> DEFINE Good(b) == \E tx, amount, change :
                        /\ b = Built(tx, Review(r, tx, amount, change))
                        /\ DOMAIN tx = {"version", "ins", "payload", "outs"} /\ tx.version = 0 /\ tx.payload = <<>>
<1>1. \A ins, amount, change :
        LET tx == MakeTransaction(ins, r, amount, change)
        IN  DOMAIN tx = {"version", "ins", "payload", "outs"} /\ tx.version = 0 /\ tx.payload = <<>>
  BY DEF MakeTransaction
<1>2. ASSUME NEW ins, NEW fee, PayFrom(r, ins, fee).ok
      PROVE  Good(PayFrom(r, ins, fee))
  <2> DEFINE a == Attempt(r, ins, Worth(TotalOf(ins) - r.amount - fee))
  <2>1. PayFrom(r, ins, fee) = JudgePayment(r, a, PaymentFee(r, a.tx))
    BY DEF PayFrom, PricePayment
  <2>2. a.tx = MakeTransaction(ins, r, r.amount, a.change)
    BY DEF Attempt
  <2> HIDE DEF a
  <2>3. PayFrom(r, ins, fee) = Built(a.tx, Review(r, a.tx, r.amount, a.change))
    BY <1>2, <2>1, RefusalsAreNotOk DEF JudgePayment
  <2> QED
    BY <1>1, <2>2, <2>3
<1>3. ASSUME NEW coins, NEW p, PaymentRound(r, coins, p).ok
      PROVE  Good(PaymentRound(r, coins, p))
  <2> HIDE DEF Good
  <2> QED
    BY <1>2, <1>3, RefusalsAreNotOk, Zenon DEF PaymentRound, PayWith
<1>4. ASSUME NEW coins, NEW fee, SendAllRound(r, coins, fee).ok
      PROVE  Good(SendAllRound(r, coins, fee))
  <2> DEFINE tx == MakeTransaction(coins, r, TotalOf(coins) - fee, 0)
  <2>1. SendAllRound(r, coins, fee) = JudgeSendAll(r, tx, fee, r.feeRate * Mass(tx.ins, tx.outs))
    BY DEF SendAllRound, PriceSendAll
  <2>2. DOMAIN tx = {"version", "ins", "payload", "outs"} /\ tx.version = 0 /\ tx.payload = <<>>
    BY <1>1
  <2> HIDE DEF tx
  <2>3. SendAllRound(r, coins, fee) = Built(tx, Review(r, tx, tx.outs[1].amount, 0))
    BY <1>4, <2>1, RefusalsAreNotOk DEF JudgeSendAll
  <2> QED
    BY <2>2, <2>3
<1> HIDE DEF Good
<1>5. ASSUME NEW coins, BuildPayment(r, coins).ok PROVE Good(BuildPayment(r, coins))
  BY <1>3, <1>5 DEF BuildPayment
<1>6. ASSUME NEW coins, BuildSendAll(r, coins).ok PROVE Good(BuildSendAll(r, coins))
  BY <1>4, <1>6, RefusalsAreNotOk DEF BuildSendAll
<1>7. Good(BuildSend(r))
  BY <1>5, <1>6, RefusalsAreNotOk, Zenon DEF BuildSend
<1> QED
  BY <1>7 DEF Good

LEMMA BuiltReveals ==
  ASSUME NEW r, NEW scheme, BuildReveal(r, scheme).ok
  PROVE  \E coin, returned :
           LET tx == RevealTx(r.operation, Draft(coin, <<>>), returned)
           IN  coin.outpoint = r.commit /\ BuildReveal(r, scheme) = Built(tx, RevealReview(r, scheme, tx))
<1> DEFINE coin == AnyOf(CommitCoins(r))
           Good(b) == \E returned : LET tx == RevealTx(r.operation, Draft(coin, <<>>), returned)
                                    IN  b = Built(tx, RevealReview(r, scheme, tx))
<1>1. CommitCoins(r) # {} /\ BuildReveal(r, scheme) = RevealOf(r, scheme, coin)
  BY RefusalsAreNotOk DEF BuildReveal
<1>2. coin.outpoint = r.commit
  BY <1>1 DEF AnyOf, CommitCoins
<1> HIDE DEF coin
<1>3. ASSUME NEW fee, RevealRound(r, scheme, coin, fee).ok
      PROVE  Good(RevealRound(r, scheme, coin, fee))
  <2> DEFINE tx == RevealTx(r.operation, Draft(coin, <<>>), coin.amount - fee)
  <2>1. RevealRound(r, scheme, coin, fee) = JudgeReveal(r, scheme, tx, fee, r.feeRate * Mass(tx.ins, tx.outs))
    BY DEF RevealRound, PriceReveal
  <2>2. RevealRound(r, scheme, coin, fee) = Built(tx, RevealReview(r, scheme, tx))
    <3> HIDE DEF tx
    <3> QED
      BY <1>3, <2>1, RefusalsAreNotOk DEF JudgeReveal
  <2> QED
    BY <2>2
<1> HIDE DEF Good
<1>4. Good(RevealOf(r, scheme, coin))
  BY <1>1, <1>3, RefusalsAreNotOk DEF RevealOf
<1> QED
  BY <1>1, <1>2, <1>4 DEF Good

LEMMA BuiltHiddenPayments ==
  ASSUME NEW r, BuildHidden(Secret, r).ok
  PROVE  \E amount, remainder :
           LET tx == HiddenTx(r, amount, remainder)
           IN  BuildHidden(Secret, r) = Built(tx, HiddenReview(r, tx, amount, remainder))
<1> DEFINE Good(b) == \E amount, remainder : LET tx == HiddenTx(r, amount, remainder)
                                             IN  b = Built(tx, HiddenReview(r, tx, amount, remainder))
<1>1. ASSUME NEW at, NEW amount, NEW remainder, SplitHidden(r, at, amount, remainder).ok
      PROVE  Good(SplitHidden(r, at, amount, remainder))
  <2> DEFINE tx == HiddenTx(r, amount, remainder)
  <2>1. SplitHidden(r, at, amount, remainder) = JudgeHidden(r, at, tx, Mass(tx.ins, tx.outs), amount, remainder)
    BY <1>1, RefusalsAreNotOk, Zenon DEF SplitHidden, PriceHidden
  <2>2. SplitHidden(r, at, amount, remainder) = Built(tx, HiddenReview(r, tx, amount, remainder))
    <3> HIDE DEF tx
    <3> QED
      BY <1>1, <2>1, RefusalsAreNotOk DEF JudgeHidden
  <2> QED
    BY <2>2
<1> HIDE DEF Good
<1>2. ASSUME NEW at, HiddenRound(r, at).ok PROVE Good(HiddenRound(r, at))
  BY <1>1, <1>2, RefusalsAreNotOk, Zenon DEF HiddenRound, SpendHidden
<1>3. Good(BuildHidden(Secret, r))
  BY <1>2, RefusalsAreNotOk DEF BuildHidden
<1> QED
  BY <1>3 DEF Good

\* The funding coin of a transfer is one of those tried: the least place of
\* the lowest rank, or there is none.
LEMMA BuiltTransfers ==
  ASSUME NEW r, BuildKcc20(r).ok
  PROVE  \E chosen, coin, locked, fee :
           LET tx == Kcc20Tx(r, chosen, coin, locked, fee)
           IN  BuildKcc20(r) = Built(tx, Kcc20Review(r, chosen, [tx |-> tx, locked |-> locked, fee |-> fee]))
<1> DEFINE Funds(chosen, f) == \E coin, locked, fee :
                                 f = <<[tx |-> Kcc20Tx(r, chosen, coin, locked, fee), locked |-> locked, fee |-> fee]>>
<1>1. ASSUME NEW chosen, NEW coin
      PROVE  FundWith(r, chosen, coin) = <<>> \/ Funds(chosen, FundWith(r, chosen, coin))
  <2>1. \A fee, locked : FundedBy(r, chosen, coin, fee, locked) = <<>> \/ Funds(chosen, FundedBy(r, chosen, coin, fee, locked))
    BY DEF FundedBy, NoCovenant
  <2> HIDE DEF Funds
  <2> QED
    BY <2>1, Zenon DEF FundWith, FundCells, FundAtFee, FundAt, NoCovenant
<1>2. ASSUME NEW chosen, NEW coins
      PROVE  BestFunded(r, chosen, coins) = <<>> \/ Funds(chosen, BestFunded(r, chosen, coins))
  <2> DEFINE funded == [k \in DOMAIN coins |-> FundWith(r, chosen, coins[k])]
             places == Preferred(funded)
  <2>1. places \subseteq DOMAIN coins
    BY DEF Preferred
  <2>2. BestFunded(r, chosen, coins) = FirstOf(funded, places)
    BY DEF BestFunded, BestOf
  <2>3. CASE places # {}
    <3> DEFINE k == CHOOSE k \in places : TRUE
    <3>1. k \in DOMAIN coins
      BY <2>1, <2>3
    <3>2. BestFunded(r, chosen, coins) = FundWith(r, chosen, coins[k])
      BY <2>2, <2>3, <3>1 DEF FirstOf
    <3> HIDE DEF k, Funds, funded, places
    <3> QED
      BY <1>1, <3>2
  <2> QED
    BY <2>2, <2>3 DEF FirstOf
<1> HIDE DEF Funds
<1>3. ASSUME NEW chosen, Kcc20Of(r, chosen).ok
      PROVE  \E coins : BestFunded(r, chosen, coins) # <<>>
                       /\ Kcc20Of(r, chosen) = Built(BestFunded(r, chosen, coins)[1].tx, Kcc20Review(r, chosen, BestFunded(r, chosen, coins)[1]))
  BY <1>3, RefusalsAreNotOk, Zenon DEF Kcc20Of, Kcc20Built
<1>4. PICK chosen : Kcc20Of(r, chosen).ok /\ BuildKcc20(r) = Kcc20Of(r, chosen)
  BY RefusalsAreNotOk, Zenon DEF BuildKcc20
<1>5. PICK f : Funds(chosen, f) /\ BuildKcc20(r) = Built(f[1].tx, Kcc20Review(r, chosen, f[1]))
  BY <1>2, <1>3, <1>4
<1>6. PICK coin, locked, fee : f = <<[tx |-> Kcc20Tx(r, chosen, coin, locked, fee), locked |-> locked, fee |-> fee]>>
  BY <1>5 DEF Funds
<1>7. f[1] = [tx |-> Kcc20Tx(r, chosen, coin, locked, fee), locked |-> locked, fee |-> fee]
  BY <1>6
<1>8. f[1].tx = Kcc20Tx(r, chosen, coin, locked, fee)
  BY <1>7
<1> QED
  BY <1>5, <1>7, <1>8

LEMMA BuiltSales ==
  ASSUME NEW r, BuildSale(r).ok
  PROVE  \E ins, outs, change, fee : BuildSale(r) = SaleBuilt(r, SaleTx(r, ins, outs, change), fee)
<1> DEFINE Good(b) == \E ins, outs, change, fee : b = SaleBuilt(r, SaleTx(r, ins, outs, change), fee)
<1>1. ASSUME NEW cells, NEW funds, NEW outs PROVE Good(SalePaidBy(r, cells, funds, outs))
  BY DEF SalePaidBy
<1> HIDE DEF Good
<1>2. ASSUME NEW coins, NEW cells, NEW outs, FundSale(r, coins, cells, outs).ok
      PROVE  Good(FundSale(r, coins, cells, outs))
  BY <1>1, <1>2, RefusalsAreNotOk DEF FundSale
<1>3. Good(BuildSale(r))
  BY <1>2, RefusalsAreNotOk, Zenon DEF BuildSale, SaleOf
<1> QED
  BY <1>3 DEF Good

\* A vault's transaction is the request's own, and the review names its id.
LEMMA BuiltPolicies ==
  ASSUME NEW r, BuildPolicy(r).ok
  PROVE  BuildPolicy(r).tx = r.tx /\ BuildPolicy(r).review.id = TransactionId(r.tx)
<1> DEFINE Good(b) == \E amount : b = Built(r.tx, VaultReview(r, amount))
<1>1. ASSUME BuildVaultCreate(r).ok PROVE Good(BuildVaultCreate(r))
  BY <1>1, RefusalsAreNotOk DEF BuildVaultCreate
<1>2. ASSUME BuildVaultHeartbeat(r).ok PROVE Good(BuildVaultHeartbeat(r))
  BY <1>2, RefusalsAreNotOk DEF BuildVaultHeartbeat
<1> HIDE DEF Good
<1>3. Good(BuildPolicy(r))
  BY <1>1, <1>2, RefusalsAreNotOk DEF BuildPolicy
<1> QED
  BY <1>3 DEF Good, Built, VaultReview

CoreMethods == BuildMethods \ {"prepareEvmTransaction"}

\* What the network is told, as the review alone says it.
ReviewSays(m, review) ==
  CASE m \in {"prepareTransaction", "prepareKaspacomCommit", "prepareTangemCommit"} ->
         [version |-> 0, payload |-> <<>>, outs |-> review.outs, ins |-> review.outpoints]
    [] m \in {"prepareReveal", "prepareKaspacomReveal", "prepareTangemReveal", "prepareHiddenKas"} ->
         [version |-> 0, payload |-> <<>>, outs |-> review.outs, ins |-> review.ins]
    [] m = "prepareKcc20Transfer" -> [version |-> 1, payload |-> <<>>, outs |-> review.outs, ins |-> review.ins]
    [] m = "preparePolicyTransaction" ->
         [version |-> review.id.version, payload |-> review.id.payload, outs |-> review.id.outs, ins |-> review.id.ins]
    [] OTHER -> Executed(review.tx)

\* The parts of a transaction that signing leaves alone.
HasParts(tx) == {"version", "payload", "ins", "outs"} \subseteq DOMAIN tx
BuiltAsReviewed(m, b) == HasParts(b.tx) /\ Executed(b.tx) = ReviewSays(m, b.review)

LEMMA ReviewsDetermine ==
  ASSUME NEW m \in CoreMethods, NEW r, m = "preparePolicyTransaction" => IsDrafted(r),
         PrepareAs(Secret, m, r).ok
  PROVE  BuiltAsReviewed(m, PrepareAs(Secret, m, r))
<1> DEFINE b == PrepareAs(Secret, m, r)
<1> USE DEF HasParts
<1>1. ASSUME NEW q, BuildSend(q).ok, m \in {"prepareTransaction", "prepareKaspacomCommit", "prepareTangemCommit"}
      PROVE  BuiltAsReviewed(m, BuildSend(q))
  <2>1. PICK tx, amount, change : /\ BuildSend(q) = Built(tx, Review(q, tx, amount, change))
                                  /\ DOMAIN tx = {"version", "ins", "payload", "outs"}
                                  /\ tx.version = 0 /\ tx.payload = <<>>
    BY <1>1, BuiltPayments
  <2>2. BuildSend(q).tx = tx /\ BuildSend(q).review = Review(q, tx, amount, change)
    BY <2>1 DEF Built
  <2>3. BuildSend(q).review.outs = tx.outs
        /\ BuildSend(q).review.outpoints = [i \in DOMAIN tx.ins |-> tx.ins[i].outpoint]
    BY <2>2 DEF Review
  <2> QED
    BY <1>1, <2>1, <2>2, <2>3 DEF BuiltAsReviewed, ReviewSays, Executed
<1>2. ASSUME NEW scheme, BuildReveal(r, scheme).ok,
             m \in {"prepareReveal", "prepareKaspacomReveal", "prepareTangemReveal"}
      PROVE  BuiltAsReviewed(m, BuildReveal(r, scheme))
  <2>1. PICK coin, returned :
          /\ coin.outpoint = r.commit
          /\ BuildReveal(r, scheme) = Built(RevealTx(r.operation, Draft(coin, <<>>), returned),
                                            RevealReview(r, scheme, RevealTx(r.operation, Draft(coin, <<>>), returned)))
    BY <1>2, BuiltReveals
  <2> DEFINE tx == RevealTx(r.operation, Draft(coin, <<>>), returned)
  <2>2. BuildReveal(r, scheme).tx = tx /\ BuildReveal(r, scheme).review = RevealReview(r, scheme, tx)
    BY <2>1 DEF Built
  <2>3. HasParts(tx) /\ tx.version = 0 /\ tx.payload = <<>> /\ tx.ins = <<Draft(coin, <<>>)>>
    BY DEF RevealTx
  <2>4. Draft(coin, <<>>).outpoint = r.commit
    BY <2>1 DEF Draft
  <2>5. [i \in DOMAIN tx.ins |-> tx.ins[i].outpoint] = <<r.commit>>
    BY <2>3, <2>4
  <2> HIDE DEF tx
  <2>6. BuildReveal(r, scheme).review.outs = tx.outs /\ BuildReveal(r, scheme).review.ins = <<r.commit>>
    BY <2>2 DEF RevealReview
  <2> QED
    BY <1>2, <2>2, <2>3, <2>5, <2>6 DEF BuiltAsReviewed, ReviewSays, Executed
<1>3. CASE m \in {"prepareTransaction", "prepareKaspacomCommit"}
  <2>1. b = BuildSend(r)
    BY <1>3 DEF PrepareAs
  <2> QED
    BY <1>1, <1>3, <2>1
<1>4. CASE m = "prepareTangemCommit"
  <2>1. b = BuildTangemCommit(r)
    BY <1>4 DEF PrepareAs
  <2>2. b = BuildSend(CommitPayment(r))
    BY <2>1, RefusalsAreNotOk DEF BuildTangemCommit
  <2> QED
    BY <1>1, <1>4, <2>2
<1>5. CASE m \in {"prepareReveal", "prepareKaspacomReveal"}
  <2>1. b = BuildReveal(r, "schnorr")
    BY <1>5 DEF PrepareAs
  <2> QED
    BY <1>2, <1>5, <2>1
<1>6. CASE m = "prepareTangemReveal"
  <2>1. b = BuildTangemReveal(r)
    BY <1>6 DEF PrepareAs
  <2>2. b = BuildReveal(r, "ecdsa")
    BY <2>1, RefusalsAreNotOk DEF BuildTangemReveal
  <2> QED
    BY <1>2, <1>6, <2>2
<1>7. CASE m = "prepareHiddenKas"
  <2>1. b = BuildHidden(Secret, r)
    BY <1>7 DEF PrepareAs
  <2>2. PICK amount, remainder :
          BuildHidden(Secret, r) = Built(HiddenTx(r, amount, remainder),
                                         HiddenReview(r, HiddenTx(r, amount, remainder), amount, remainder))
    BY <2>1, BuiltHiddenPayments
  <2> DEFINE tx == HiddenTx(r, amount, remainder)
  <2>3. HasParts(tx) /\ tx.version = 0 /\ tx.payload = <<>>
    BY DEF HiddenTx
  <2> HIDE DEF tx
  <2>4. b.tx = tx /\ b.review.outs = tx.outs /\ b.review.ins = [i \in DOMAIN tx.ins |-> tx.ins[i].outpoint]
    BY <2>1, <2>2 DEF Built, HiddenReview, tx
  <2> QED
    BY <1>7, <2>3, <2>4 DEF BuiltAsReviewed, ReviewSays, Executed
<1>8. CASE m = "prepareKcc20Transfer"
  <2>1. b = BuildKcc20(r)
    BY <1>8 DEF PrepareAs
  <2>2. PICK chosen, coin, locked, fee :
          LET tx == Kcc20Tx(r, chosen, coin, locked, fee)
          IN  BuildKcc20(r) = Built(tx, Kcc20Review(r, chosen, [tx |-> tx, locked |-> locked, fee |-> fee]))
    BY <2>1, BuiltTransfers
  <2> DEFINE tx == Kcc20Tx(r, chosen, coin, locked, fee)
  <2>3. HasParts(tx) /\ tx.version = 1 /\ tx.payload = <<>>
    BY DEF Kcc20Tx, TokenTx
  <2>4. b = Built(tx, Kcc20Review(r, chosen, [tx |-> tx, locked |-> locked, fee |-> fee]))
    BY <2>1, <2>2
  <2> HIDE DEF tx
  <2>5. b.tx = tx /\ b.review.outs = tx.outs /\ b.review.ins = [i \in DOMAIN tx.ins |-> tx.ins[i].outpoint]
    BY <2>4 DEF Built, Kcc20Review
  <2> QED
    BY <1>8, <2>3, <2>5 DEF BuiltAsReviewed, ReviewSays, Executed
<1>9. CASE m = "preparePolicyTransaction"
  <2>1. b = BuildPolicy(r)
    BY <1>9 DEF PrepareAs
  <2>2. b.tx = r.tx /\ b.review.id = TransactionId(r.tx)
    BY <2>1, BuiltPolicies
  <2>3. HasParts(r.tx)
    BY <1>9 DEF IsDrafted, IsTransaction
  <2> QED
    BY <1>9, <2>2, <2>3 DEF BuiltAsReviewed, ReviewSays, Executed, TransactionId
<1>10. CASE m = "prepareDotkMarket"
  <2>1. b = BuildSale(r)
    BY <1>10 DEF PrepareAs
  <2>2. PICK ins, outs, change, fee : BuildSale(r) = SaleBuilt(r, SaleTx(r, ins, outs, change), fee)
    BY <2>1, BuiltSales
  <2>3. HasParts(SaleTx(r, ins, outs, change))
    BY DEF SaleTx
  <2>4. b.tx = SaleTx(r, ins, outs, change) /\ b.review.tx = b.tx
    BY <2>1, <2>2 DEF SaleBuilt, Built
  <2> QED
    BY <1>10, <2>3, <2>4 DEF BuiltAsReviewed, ReviewSays
<1> QED
  BY <1>3, <1>4, <1>5, <1>6, <1>7, <1>8, <1>9, <1>10 DEF CoreMethods, BuildMethods

\* Signing fills in witnesses and nothing else, whichever method asks for it.
LEMMA WitnessesChangeNothing ==
  ASSUME NEW tx, HasParts(tx), NEW r, NEW m \in CoreMethods
  PROVE  Executed(SignedTx(Secret, m, r, tx)) = Executed(tx) /\ HasParts(SignedTx(Secret, m, r, tx))
<1> DEFINE Same(t) == Executed(t) = Executed(tx) /\ HasParts(t)
<1>1. ASSUME NEW ins, DOMAIN ins = DOMAIN tx.ins, \A i \in DOMAIN ins : ins[i].outpoint = tx.ins[i].outpoint
      PROVE  Same([tx EXCEPT !.ins = ins])
  BY <1>1, ExecutedTheSame DEF HasParts
<1> HIDE DEF Same
<1>2. Same(SignedPayment(r, tx))
  BY <1>1 DEF SignedPayment, WithWitness
<1>3. \A scheme : Same(SignedReveal(r, scheme, tx))
  BY <1>1 DEF SignedReveal, WithWitness
<1>4. Same(SignedKcc20(r, tx))
  BY <1>1 DEF SignedKcc20, WithWitness
<1>5. Same(SignedPolicy(r, tx))
  BY <1>1 DEF SignedPolicy, WithWitness
<1>6. Same(SignedSale(r, tx))
  BY <1>1 DEF SignedSale, WithWitness
<1>7. Same(HiddenSigned(tx))
  BY <1>1 DEF HiddenSigned, WithWitness
<1>8. Same(tx)
  BY DEF Same
<1>9. Same(SignedTx(Secret, m, r, tx))
  BY <1>2, <1>3, <1>4, <1>5, <1>6, <1>7, <1>8 DEF SignedTx, CoreMethods, BuildMethods
<1> QED
  BY <1>9 DEF Same

LEMMA FinishedChangesNothing ==
  ASSUME NEW r, NEW tx, HasParts(tx), NEW answers, Finished(r, tx, answers).ok
  PROVE  Executed(Finished(r, tx, answers).tx) = Executed(tx)
<1> DEFINE witness(i) == IF tx.ins[i].script[1] = "pk" THEN <<answers[i]>>
                         ELSE <<answers[i], Inscribed(r.operation, "ecdsa")>>
           ins == [i \in DOMAIN tx.ins |->
                    [outpoint |-> tx.ins[i].outpoint, amount |-> tx.ins[i].amount, script |-> tx.ins[i].script,
                     covenant |-> tx.ins[i].covenant, witness |-> witness(i)]]
<1>1. Finished(r, tx, answers) = Built([tx EXCEPT !.ins = ins], <<>>)
  BY RefusalsAreNotOk DEF Finished
<1>2. DOMAIN ins = DOMAIN tx.ins /\ \A i \in DOMAIN ins : ins[i].outpoint = tx.ins[i].outpoint
  OBVIOUS
<1> HIDE DEF ins
<1>3. Finished(r, tx, answers).tx = [tx EXCEPT !.ins = ins]
  BY <1>1 DEF Built
<1> QED
  BY <1>2, <1>3, ExecutedTheSame DEF HasParts

\* What is released was built from the request it came with, under the
\* review that was approved.
LEMMA ReleasedAsBuilt ==
  ASSUME NEW m \in CoreMethods, NEW r, m = "preparePolicyTransaction" => IsDrafted(r),
         NEW approved, SignAs(Secret, m, r, approved).ok
  PROVE  /\ PrepareAs(Secret, m, r).ok /\ PrepareAs(Secret, m, r).review = approved
         /\ Executed(SignAs(Secret, m, r, approved).tx) = Executed(PrepareAs(Secret, m, r).tx)
<1> DEFINE b == PrepareAs(Secret, m, r)
           tx == SignedTx(Secret, m, r, b.tx)
<1>1. OperationOf(m) # "signPskt"
  BY DEF OperationOf, CoreMethods, BuildMethods
<1>2. b.ok /\ b.review = approved /\ SignAs(Secret, m, r, approved) = Release(m, r, tx, b.review)
  <2> HIDE DEF tx
  <2>1. SignAs(Secret, m, r, approved) = SignBuilt(Secret, m, r, b, approved)
    BY RefusalsAreNotOk DEF SignAs, SignPrepared
  <2> HIDE DEF b
  <2> QED
    BY <1>1, <2>1, RefusalsAreNotOk DEF SignBuilt, tx
<1>3. HasParts(b.tx)
  BY <1>2, ReviewsDetermine DEF BuiltAsReviewed
<1> HIDE DEF b
<1>4. Executed(tx) = Executed(b.tx) /\ HasParts(tx)
  BY <1>3, WitnessesChangeNothing
<1> HIDE DEF tx
<1>5. \/ Release(m, r, tx, b.review) = Built(tx, b.review)
      \/ Release(m, r, tx, b.review) = Finished(r, tx, AnswerOfCard(r, tx))
  BY <1>2, RefusalsAreNotOk, Zenon DEF Release
<1>6. Executed(Release(m, r, tx, b.review).tx) = Executed(tx)
  BY <1>2, <1>4, <1>5, FinishedChangesNothing DEF Built
<1> QED
  BY <1>2, <1>4, <1>6 DEF b

----------------------------------------------------------------------------
(* What a signature binds is bound in every transaction it verifies for.   *)

LEMMA BoundOutputsVerify ==
  ASSUME NEW d, IsDrafted(d), SelectionOk(d), out.tx = SignedDraft(d),
         NEW tx, IsTransaction(tx), VerifiesAs(tx, d)
  PROVE  /\ \A k \in DOMAIN d.tx.outs : SignatureBound(d, k) => \E j \in DOMAIN tx.outs : tx.outs[j] = d.tx.outs[k]
         /\ FinalFeeKnown(d) => Executed(tx) = Executed(d.tx)
<1>1. out.tx.outs = d.tx.outs /\ IsTransaction(out.tx) /\ DOMAIN out.tx.ins = DOMAIN d.tx.ins
      /\ out.tx.version = d.tx.version /\ out.tx.payload = d.tx.payload
      /\ \A i \in DOMAIN d.tx.ins : out.tx.ins[i].outpoint = d.tx.ins[i].outpoint
  BY SigningKeepsDrafts
<1>2. ASSUME NEW i \in Selected(d)
      PROVE  \E j \in DOMAIN tx.ins : Commitment(tx, j, SighashOf(d, i)) = Commitment(out.tx, i, SighashOf(d, i))
  BY <1>2 DEF VerifiesAs
<1>3. ASSUME NEW i \in Selected(d), SighashOf(d, i).base = "ALL"
      PROVE  tx.outs = d.tx.outs
  BY <1>1, <1>2, <1>3 DEF Commitment
<1>8. \A a, b : <<a>> = <<b>> => a = b
  <2> TAKE a, b
  <2> HAVE <<a>> = <<b>>
  <2> <<a>>[1] = <<b>>[1]
    OBVIOUS
  <2> QED
    OBVIOUS
<1>9. \A a : <<>> # <<a>>
  <2> TAKE a
  <2> Len(<<>>) = 0 /\ Len(<<a>>) = 1
    OBVIOUS
  <2> QED
    OBVIOUS
<1>4. ASSUME NEW i \in Selected(d), SighashOf(d, i).base = "SINGLE"
      PROVE  \E j \in DOMAIN tx.outs : tx.outs[j] = d.tx.outs[i]
  <2>1. PICK j \in DOMAIN tx.ins : Commitment(tx, j, SighashOf(d, i)).outs = Commitment(out.tx, i, SighashOf(d, i)).outs
    BY <1>2
  <2>2. i \in DOMAIN d.tx.outs
    BY <1>4 DEF SelectionOk
  <2>3. i <= Len(d.tx.outs) /\ i \in Nat
    BY <2>2, ListsHavePlaces DEF IsDrafted, IsTransaction
  <2>4. Commitment(out.tx, i, SighashOf(d, i)).outs = <<d.tx.outs[i]>>
    BY <1>1, <1>4, <2>3 DEF Commitment
  <2>5. j \in Nat \ {0} /\ Len(tx.outs) \in Nat /\ DOMAIN tx.outs = 1 .. Len(tx.outs)
    BY ListsHavePlaces DEF IsTransaction
  <2>6. j <= Len(tx.outs) /\ tx.outs[j] = d.tx.outs[i]
    <3>1. CASE j <= Len(tx.outs)
      <4>1. Commitment(tx, j, SighashOf(d, i)).outs = <<tx.outs[j]>>
        BY <1>4, <3>1 DEF Commitment
      <4> QED
        BY <1>8, <2>1, <2>4, <3>1, <4>1
    <3>2. CASE ~(j <= Len(tx.outs))
      <4>1. Commitment(tx, j, SighashOf(d, i)).outs = <<>>
        BY <1>4, <3>2 DEF Commitment
      <4> QED
        BY <1>9, <2>1, <2>4, <4>1
    <3> QED
      BY <3>1, <3>2
  <2> QED
    BY <2>5, <2>6
<1>5. ASSUME NEW k \in DOMAIN d.tx.outs, SignatureBound(d, k)
      PROVE  \E j \in DOMAIN tx.outs : tx.outs[j] = d.tx.outs[k]
  <2>1. PICK i \in Selected(d) : \/ SighashOf(d, i).base = "ALL"
                                 \/ SighashOf(d, i).base = "SINGLE" /\ i = k
    BY <1>5, Zenon DEF SignatureBound
  <2> QED
    BY <1>3, <1>4, <2>1
<1>6. ASSUME FinalFeeKnown(d)
      PROVE  Executed(tx) = Executed(d.tx)
  <2>1. PICK i \in Selected(d) : SighashOf(d, i) = All
    BY <1>6 DEF FinalFeeKnown, AllSighashesAre, SelectionOk
  <2>2. PICK j \in DOMAIN tx.ins : Commitment(tx, j, All) = Commitment(out.tx, i, All)
    BY <1>2, <2>1
  <2>3. ~All.anyone /\ All.base = "ALL"
    BY DEF All, Sighash
  <2>4. tx.version = out.tx.version /\ tx.payload = out.tx.payload /\ tx.outs = out.tx.outs
    BY <2>2, <2>3 DEF Commitment
  <2>5. [k \in DOMAIN tx.ins |-> tx.ins[k].outpoint] = [k \in DOMAIN out.tx.ins |-> out.tx.ins[k].outpoint]
    BY <2>2, <2>3 DEF Commitment
  <2>6. Executed(tx) = Executed(out.tx)
    BY <2>4, <2>5 DEF Executed
  <2>7. Executed(out.tx) = Executed(d.tx)
    BY <1>1, ExecutedTheSame
  <2> QED
    BY <2>6, <2>7
<1> QED
  BY <1>5, <1>6

----------------------------------------------------------------------------
(* The inductive invariant.  A transaction that came with its request      *)
(* stays one through every edit; what is shown carries the draft it was    *)
(* built from, or says all of what the core built; what is released was    *)
(* built from the request that came with the signature, under the approved *)
(* review, and stays so completed that the wallet's signatures verify.     *)
MethodIsKnown == method \in DraftMethods \cup BuildMethods \cup {"preparePlan"}
DraftStands == method \in TransactionMethods => IsDrafted(req)
ShownIsReviewed == method \in DraftMethods /\ shown # <<>> => shown.review.tx = shown.tx
ReleasedAsShown ==
  method \in DraftMethods /\ out # <<>> =>
    /\ shown # <<>> /\ IsDrafted(out.req)
    /\ BuildPskt(out.req).ok /\ BuildPskt(out.req).review = shown.review
    /\ out.tx = SignedPskt(out.req) /\ IsTransaction(final) /\ Verifies(final)
BuiltIsShown == method \in CoreMethods /\ shown # <<>> => Executed(shown.tx) = ReviewSays(method, shown.review)
BuiltIsReleased ==
  method \in CoreMethods /\ out # <<>> => shown # <<>> /\ Executed(out.tx) = ReviewSays(method, shown.review)
IInv == MethodIsKnown /\ DraftStands /\ ShownIsReviewed /\ ReleasedAsShown /\ BuiltIsShown /\ BuiltIsReleased

LEMMA DraftsAreKnown ==
  ASSUME MethodIsKnown
  PROVE  /\ IsDraft <=> method \in DraftMethods
         /\ method \in CoreMethods => method \notin DraftMethods /\ ~IsPlan
         /\ ~IsPlan /\ method # "prepareEvmTransaction" => method \in DraftMethods \cup CoreMethods
BY DEF MethodIsKnown, IsDraft, IsPlan, OperationOf, DraftMethods, BuildMethods, CoreMethods

LEMMA SignedRequests ==
  ASSUME NEW r, NEW approved, method \in DraftMethods, SignAs(Secret, method, r, approved).ok
  PROVE  /\ BuildPskt(r).ok /\ BuildPskt(r).review = approved
         /\ SignAs(Secret, method, r, approved).tx = SignedPskt(r)
<1>1. PrepareAs(Secret, method, r) = BuildPskt(r) /\ OperationOf(method) = "signPskt"
  BY DEF PrepareAs, OperationOf, DraftMethods
<1>2. SignAs(Secret, method, r, approved) = SignApproved(r, BuildPskt(r), approved)
  BY <1>1 DEF SignAs, SignPrepared, SignBuilt, Refused
<1>3. BuildPskt(r).ok /\ BuildPskt(r).review = approved
      /\ SignAs(Secret, method, r, approved) = Validated(r, SignedPskt(r), BuildPskt(r).review)
  BY <1>2 DEF SignApproved, Refused
<1>4. SignAs(Secret, method, r, approved) = Built(SignedPskt(r), BuildPskt(r).review)
  <2>1. SignAs(Secret, method, r, approved) # Refused("script validation")
    <3>1. ~Refused("script validation").ok
      BY DEF Refused
    <3>2. \A a, b : a.ok /\ ~b.ok => a # b
      OBVIOUS
    <3> QED
      BY <3>1, <3>2
  <2> QED
    BY <1>3, <2>1, Zenon DEF Validated
<1> QED
  BY <1>3, <1>4 DEF Built

LEMMA Initially == Init => IInv
<1> SUFFICES ASSUME Init PROVE IInv
  OBVIOUS
<1> USE DEF TransactionMethods
<1>1. shown = <<>> /\ out = <<>>
  BY DEF Init, SigningInit, NoRequest
<1>2. ShownIsReviewed /\ ReleasedAsShown /\ BuiltIsShown /\ BuiltIsReleased
  BY <1>1 DEF ShownIsReviewed, ReleasedAsShown, BuiltIsShown, BuiltIsReleased
<1>3. CASE host = "windows" /\ NoRequest
  BY <1>2, <1>3 DEF NoRequest, IInv, MethodIsKnown, DraftStands, BuildMethods, DraftMethods
<1>4. CASE SigningInit
  <2>1. PICK k \in DOMAIN Samples : method = Samples[k].method /\ req = Samples[k].request
    BY <1>4 DEF SigningInit, Elements
  <2> QED
    BY <1>2, <2>1, SigningAssumption DEF IInv, MethodIsKnown, DraftStands
<1> QED
  BY <1>3, <1>4 DEF Init

LEMMA Stepwise == IInv /\ [Next]_vars => IInv'
<1> SUFFICES ASSUME IInv, [Next]_vars PROVE IInv'
  OBVIOUS
<1> USE DEF IInv
<1>1. /\ IsDraft <=> method \in DraftMethods
      /\ method \in CoreMethods => method \notin DraftMethods /\ ~IsPlan
  BY DraftsAreKnown
<1>2. ASSUME method' = method, req' = req PROVE MethodIsKnown' /\ DraftStands'
  BY <1>2 DEF MethodIsKnown, DraftStands
<1>3. ASSUME method' = method, shown' = shown PROVE ShownIsReviewed' /\ BuiltIsShown'
  BY <1>3 DEF ShownIsReviewed, BuiltIsShown
<1>4. ASSUME method' = method, shown' = shown, out' = out PROVE BuiltIsReleased'
  BY <1>4 DEF BuiltIsReleased
<1>5. ASSUME method' = method, shown' = shown, out' = out, final' = final PROVE ReleasedAsShown'
  BY <1>5 DEF ReleasedAsShown, Verifies, VerifiesAs
<1>6. ASSUME out' = <<>> PROVE ReleasedAsShown' /\ BuiltIsReleased'
  BY <1>6 DEF ReleasedAsShown, BuiltIsReleased
<1>7. CASE UNCHANGED signingVars
  BY <1>2, <1>3, <1>4, <1>5, <1>7 DEF signingVars
<1>8. CASE Edit
  <2>1. method' = method /\ shown' = shown /\ out' = <<>>
    BY <1>8 DEF Edit
  <2>2. ASSUME method \in TransactionMethods PROVE IsDrafted(req')
    <3>1. req' \in DraftEdits(req) \/ req' \in RequestEdits(req)
      BY <1>8 DEF Edit, Edits
    <3>2. IsDrafted(req)
      BY <2>2 DEF DraftStands
    <3> QED
      BY <3>1, <3>2, EditedDrafts, EditedRequests
  <2> QED
    BY <1>3, <1>6, <2>1, <2>2 DEF MethodIsKnown, DraftStands
<1>9. CASE Approve
  <2>1. PrepareAs(Secret, method, req).ok
        /\ shown' = [review |-> PrepareAs(Secret, method, req).review, tx |-> PrepareAs(Secret, method, req).tx]
        /\ UNCHANGED <<method, req, out>>
    BY <1>9 DEF Approve, Show
  <2>2. ASSUME method \in DraftMethods PROVE shown'.review.tx = shown'.tx
    <3>1. PrepareAs(Secret, method, req) = BuildPskt(req)
      BY <2>2 DEF PrepareAs, DraftMethods
    <3> QED
      BY <2>1, <3>1, BuiltDrafts
  <2>3. ASSUME method \in CoreMethods PROVE Executed(shown'.tx) = ReviewSays(method, shown'.review)
    <3>1. BuiltAsReviewed(method, PrepareAs(Secret, method, req))
      BY <2>1, <2>3, ReviewsDetermine DEF DraftStands, TransactionMethods
    <3> QED
      BY <2>1, <3>1 DEF BuiltAsReviewed
  <2>4. ShownIsReviewed' /\ BuiltIsShown'
    BY <2>1, <2>2, <2>3 DEF ShownIsReviewed, BuiltIsShown
  <2>5. method \in DraftMethods \cup CoreMethods => out = <<>>
    BY <1>9 DEF Approve, ReleasedAsShown, BuiltIsReleased
  <2>6. ReleasedAsShown' /\ BuiltIsReleased'
    BY <2>1, <2>5 DEF ReleasedAsShown, BuiltIsReleased
  <2> QED
    BY <1>2, <2>1, <2>4, <2>6
<1>10. CASE Sign
  <2>1. SignAs(Secret, method, req, shown.review).ok
        /\ out' = [req |-> req, tx |-> SignAs(Secret, method, req, shown.review).tx]
        /\ final' = SignAs(Secret, method, req, shown.review).tx /\ shown # <<>>
        /\ UNCHANGED <<method, req, shown>>
    BY <1>10 DEF Sign, Released
  <2>2. ASSUME method \in DraftMethods PROVE ReleasedAsShown'
    <3>1. BuildPskt(req).ok /\ BuildPskt(req).review = shown.review
          /\ out' = [req |-> req, tx |-> SignedPskt(req)] /\ final' = SignedPskt(req)
      BY <2>1, <2>2, SignedRequests
    <3>2. IsDrafted(req) /\ IsDrafted(Drafted(req)) /\ SelectionOk(Drafted(req))
      BY <2>2, <3>1, ExpandedDrafts, BuiltDrafts DEF DraftStands, TransactionMethods
    <3>3. IsTransaction(final') /\ DOMAIN final'.ins = DOMAIN Drafted(req).tx.ins
      BY <3>1, <3>2, SigningKeepsDrafts DEF SignedPskt
    <3>4. Selected(Drafted(req)) \subseteq DOMAIN final'.ins
      BY <3>2, <3>3 DEF SelectionOk
    <3>5. Verifies(final)'
      BY <3>1, <3>4 DEF Verifies, VerifiesAs
    <3> QED
      BY <2>1, <3>1, <3>2, <3>3, <3>5 DEF ReleasedAsShown
  <2>3. ASSUME method \in CoreMethods PROVE BuiltIsReleased'
    <3>1. method = "preparePolicyTransaction" => IsDrafted(req)
      BY DEF DraftStands, TransactionMethods
    <3>2. PrepareAs(Secret, method, req).ok /\ PrepareAs(Secret, method, req).review = shown.review
          /\ Executed(out'.tx) = Executed(PrepareAs(Secret, method, req).tx)
      BY <2>1, <2>3, <3>1, ReleasedAsBuilt
    <3>3. BuiltAsReviewed(method, PrepareAs(Secret, method, req))
      BY <2>3, <3>1, <3>2, ReviewsDetermine
    <3> QED
      BY <2>1, <3>2, <3>3 DEF BuiltIsReleased, BuiltAsReviewed
  <2>4. ReleasedAsShown' /\ BuiltIsReleased'
    BY <2>1, <2>2, <2>3 DEF ReleasedAsShown, BuiltIsReleased
  <2> QED
    BY <1>2, <1>3, <2>1, <2>4
<1>11. CASE Complete
  <2>1. method \in DraftMethods /\ out # <<>> /\ IsTransaction(final) /\ UNCHANGED <<method, req, shown, out>>
    BY <1>1, <1>11 DEF Complete, ReleasedAsShown
  <2>2. IsTransaction(final') /\ Verifies(final)'
    BY <1>11, <2>1, CompletedTransactions DEF Complete, Verifies, VerifiesAs
  <2>3. ReleasedAsShown'
    BY <2>1, <2>2 DEF ReleasedAsShown
  <2> QED
    BY <1>2, <1>3, <1>4, <2>1, <2>3
<1>12. CASE ApprovePlan \/ SignAllSteps \/ SendStep
  <2>1. method \notin DraftMethods \cup CoreMethods /\ UNCHANGED <<method, req>>
    BY <1>1, <1>12 DEF ApprovePlan, SignAllSteps, SendStep, IsPlan, DraftMethods
  <2> QED
    BY <1>2, <2>1 DEF ShownIsReviewed, ReleasedAsShown, BuiltIsShown, BuiltIsReleased
<1> QED
  BY <1>7, <1>8, <1>9, <1>10, <1>11, <1>12 DEF Next, vars, SigningNext

LEMMA Invariant == Spec => []IInv
BY Initially, Stepwise, PTL DEF Spec

----------------------------------------------------------------------------
(* The results.                                                            *)

\* A review of a draft keeps its word whoever drafted it, whatever the
\* profile says and however others complete what was signed: an output it
\* calls bound is in every transaction the signatures verify for, and where
\* it calls the fee final nothing can be added or taken away (pskt.rs,
\* signature_bound and fee_final of the review).
THEOREM BoundOutputsStand == Spec => []BoundOutputsSurvive
<1>1. IInv => BoundOutputsSurvive
  <2> SUFFICES ASSUME IInv, IsDraft, out # <<>>
               PROVE  /\ \A k \in shown.review.bound : \E j \in DOMAIN final.outs : final.outs[j] = shown.tx.outs[k]
                      /\ shown.review.finalFeeKnown => Executed(final) = Executed(shown.tx)
    BY DEF BoundOutputsSurvive
  <2> DEFINE r == out.req
             d == Drafted(r)
  <2>1. method \in DraftMethods
    BY DraftsAreKnown DEF IInv
  <2>2. IsDrafted(r) /\ BuildPskt(r).ok /\ BuildPskt(r).review = shown.review /\ out.tx = SignedDraft(d)
        /\ IsTransaction(final) /\ VerifiesAs(final, d) /\ shown.review.tx = shown.tx
    BY <2>1 DEF IInv, ReleasedAsShown, ShownIsReviewed, SignedPskt, Verifies
  <2>3. IsDrafted(d) /\ SelectionOk(d) /\ shown.tx = d.tx
        /\ shown.review.bound = {k \in DOMAIN d.tx.outs : SignatureBound(d, k)}
        /\ shown.review.finalFeeKnown = FinalFeeKnown(d)
    BY <2>2, ExpandedDrafts, BuiltDrafts
  <2> HIDE DEF r, d
  <2> QED
    BY <2>2, <2>3, BoundOutputsVerify
<1> QED
  BY <1>1, Invariant, PTL

\* A draft is signed as it was reviewed: whatever the layers above changed in
\* the request after its approval, what is released spends the inputs that
\* were shown into the outputs that were shown (sign_pskt, which builds the
\* draft again and compares the reviews).
THEOREM DraftsAreSignedAsReviewed == Spec => [](IsDraft => SignedAsReviewed)
<1>1. IInv => (IsDraft => SignedAsReviewed)
  <2> SUFFICES ASSUME IInv, IsDraft, out # <<>> PROVE Executed(out.tx) = Executed(shown.tx)
    BY DEF SignedAsReviewed
  <2>1. method \in DraftMethods
    BY DraftsAreKnown DEF IInv
  <2>2. IsDrafted(out.req) /\ BuildPskt(out.req).ok /\ shown.tx = BuildPskt(out.req).review.tx
        /\ out.tx = SignedDraft(Drafted(out.req))
    BY <2>1 DEF IInv, ReleasedAsShown, ShownIsReviewed, SignedPskt
  <2>3. IsDrafted(Drafted(out.req)) /\ shown.tx = Drafted(out.req).tx
    BY <2>2, ExpandedDrafts, BuiltDrafts
  <2> QED
    BY <2>2, <2>3, SigningKeepsDrafts, ExecutedTheSame
<1> QED
  BY <1>1, Invariant, PTL

\* Every Kaspa request is signed as it was reviewed, a draft's and those the
\* core builds itself: between the approval and the signature the layers
\* above may hand the core another request, and it releases what spends the
\* inputs that were shown into the outputs that were shown, or nothing
\* (core_sign, which builds again and compares; review_data and review_hash
\* of each builder, which leave nothing out that the network executes).
THEOREM EverythingIsSignedAsReviewed == Spec => []SignedAsReviewed
<1>1. Spec => [](IsDraft => SignedAsReviewed)
  BY DraftsAreSignedAsReviewed
<1>2. IInv /\ (IsDraft => SignedAsReviewed) => SignedAsReviewed
  <2> SUFFICES ASSUME IInv, IsDraft => SignedAsReviewed,
                      ~IsPlan, out # <<>>, method # "prepareEvmTransaction"
               PROVE  Executed(out.tx) = Executed(shown.tx)
    BY DEF SignedAsReviewed
  <2>1. method \in DraftMethods \cup CoreMethods /\ (IsDraft <=> method \in DraftMethods)
    BY DraftsAreKnown DEF IInv
  <2>2. CASE method \in DraftMethods
    BY <2>1, <2>2 DEF SignedAsReviewed
  <2>3. CASE method \in CoreMethods
    BY <2>3 DEF IInv, BuiltIsShown, BuiltIsReleased
  <2> QED
    BY <2>1, <2>2, <2>3
<1> QED
  BY <1>1, <1>2, Invariant, PTL

----------------------------------------------------------------------------
(* Sums.  Induction over the naturals comes from the pigeonhole principle  *)
(* of finite sets.                                                         *)

\* Otherwise the successor would map what of the set lies below a missing
\* number one to one into itself without zero.
LEMMA Induction ==
  ASSUME NEW S \in SUBSET Nat, 0 \in S, \A n \in S : n + 1 \in S
  PROVE  S = Nat
<1> SUFFICES ASSUME NEW n \in Nat, n \notin S PROVE FALSE
  OBVIOUS
<1> DEFINE A == {k \in 0 .. n : k \in S}
           f == [k \in A |-> k + 1]
<1>1. IsFiniteSet(A)
  <2>1. IsFiniteSet(0 .. n) /\ A \in SUBSET (0 .. n)
    BY FS_Interval
  <2> HIDE DEF A
  <2> QED
    BY <2>1, FS_Subset
<1>2. 0 \in A /\ f \in [A -> A \ {0}]
  <2>1. \A k \in A : k + 1 \in A \ {0}
    OBVIOUS
  <2> QED
    BY <2>1
<1>3. \A x, y \in A : f[x] = f[y] => x = y
  OBVIOUS
<1> HIDE DEF A, f
<1>4. IsFiniteSet(A \ {0}) /\ Cardinality(A \ {0}) < Cardinality(A)
  <2>1. Cardinality(A) \in Nat
    BY <1>1, FS_CardinalityType
  <2>2. IsFiniteSet(A \ {0}) /\ Cardinality(A \ {0}) = Cardinality(A) - 1
    BY <1>1, <1>2, FS_RemoveElement
  <2> QED
    BY <2>1, <2>2
<1>5. \E x, y \in A : x # y /\ f[x] = f[y]
  BY <1>1, <1>2, <1>4, FS_PigeonHole
<1> QED
  BY <1>3, <1>5

\* The partial sums of a list exist.
LEMMA SumsExist ==
  ASSUME NEW a, NEW n \in Nat
  PROVE  \E g : g = [k \in 0 .. n |-> IF k = 0 THEN 0 ELSE g[k - 1] + a[k]]
<1> DEFINE Adds(g, m) == g = [k \in 0 .. m |-> IF k = 0 THEN 0 ELSE g[k - 1] + a[k]]
           S == {m \in Nat : \E g : Adds(g, m)}
<1>1. 0 \in S
  <2> DEFINE g == [k \in 0 .. 0 |-> 0]
  <2>1. Adds(g, 0)
    OBVIOUS
  <2> QED
    BY <2>1
<1>2. ASSUME NEW m \in S PROVE m + 1 \in S
  <2>1. PICK g : Adds(g, m)
    OBVIOUS
  <2> DEFINE h == [k \in 0 .. m + 1 |-> IF k = m + 1 THEN g[m] + a[k] ELSE g[k]]
  <2>2. \A k \in 0 .. m + 1 : h[k] = IF k = 0 THEN 0 ELSE h[k - 1] + a[k]
    <3> TAKE k \in 0 .. m + 1
    <3>1. CASE k = m + 1
      BY <3>1
    <3>2. CASE k \in 1 .. m
      <4>1. h[k] = g[k] /\ h[k - 1] = g[k - 1]
        BY <3>2
      <4>2. g[k] = g[k - 1] + a[k]
        BY <2>1, <3>2
      <4> QED
        BY <3>2, <4>1, <4>2
    <3>3. CASE k = 0
      BY <2>1, <3>3
    <3> QED
      BY <3>1, <3>2, <3>3
  <2>3. Adds(h, m + 1) /\ m + 1 \in Nat
    BY <2>2
  <2> HIDE DEF h, Adds
  <2> QED
    BY <2>3
<1> HIDE DEF S
<1>3. S = Nat
  BY <1>1, <1>2, Induction DEF S
<1> QED
  BY <1>3 DEF S
\* The sum of a list is the last of its partial sums.
Accumulates(u, a) == u[0] = 0 /\ \A k \in 1 .. Len(a) : u[k] = u[k - 1] + a[k]

LEMMA SumsAccumulate ==
  ASSUME NEW a, Len(a) \in Nat
  PROVE  \E u : Accumulates(u, a) /\ SumOf(a) = u[Len(a)]
<1> DEFINE n == Len(a)
           Adds(g) == g = [k \in 0 .. n |-> IF k = 0 THEN 0 ELSE g[k - 1] + a[k]]
           u == CHOOSE g : Adds(g)
<1>1. SumOf(a) = u[n]
  BY DEF SumOf
<1>2. \E g : Adds(g)
  BY SumsExist
<1> HIDE DEF Adds
<1>3. Adds(u)
  BY <1>2
<1> HIDE DEF u
<1>4. \A k \in 0 .. n : u[k] = IF k = 0 THEN 0 ELSE u[k - 1] + a[k]
  BY <1>3 DEF Adds
<1>5. Accumulates(u, a)
  BY <1>4 DEF Accumulates
<1> QED
  BY <1>1, <1>5

\* The sum of integers is one; of zeros it is zero, and where one place
\* alone holds something else it is what that place holds.
LEMMA SumsOfIntegers ==
  ASSUME NEW a, Len(a) \in Nat, \A k \in 1 .. Len(a) : a[k] \in Int
  PROVE  /\ SumOf(a) \in Int
         /\ (\A k \in 1 .. Len(a) : a[k] = 0) => SumOf(a) = 0
         /\ \A j \in 1 .. Len(a) : (\A k \in 1 .. Len(a) : k # j => a[k] = 0) => SumOf(a) = a[j]
<1> DEFINE n == Len(a)
<1>1. PICK u : Accumulates(u, a) /\ SumOf(a) = u[n]
  BY SumsAccumulate
<1>2. u[0] = 0 /\ \A k \in 0 .. n - 1 : u[k + 1] = u[k] + a[k + 1] /\ a[k + 1] \in Int
  BY <1>1 DEF Accumulates
<1> HIDE DEF n
<1>n. n \in Nat /\ n = Len(a)
  BY DEF n
<1>3. SumOf(a) \in Int
  <2> DEFINE S == {m \in Nat : m <= n => u[m] \in Int}
  <2>1. 0 \in S /\ \A m \in S : m + 1 \in S
    BY <1>2, <1>n
  <2> HIDE DEF S
  <2>2. S = Nat
    BY <2>1, Induction DEF S
  <2> QED
    BY <1>1, <1>n, <2>2 DEF S
<1>4. ASSUME \A k \in 1 .. n : a[k] = 0
      PROVE  SumOf(a) = 0
  <2> DEFINE S == {m \in Nat : m <= n => u[m] = 0}
  <2>1. 0 \in S /\ \A m \in S : m + 1 \in S
    BY <1>2, <1>4, <1>n
  <2> HIDE DEF S
  <2>2. S = Nat
    BY <2>1, Induction DEF S
  <2> QED
    BY <1>1, <1>n, <2>2 DEF S
<1>5. ASSUME NEW j \in 1 .. n, \A k \in 1 .. n : k # j => a[k] = 0
      PROVE  SumOf(a) = a[j]
  <2> DEFINE S == {m \in Nat : m <= n => u[m] = IF m < j THEN 0 ELSE a[j]}
  <2>1. 0 \in S /\ \A m \in S : m + 1 \in S
    BY <1>2, <1>5, <1>n
  <2> HIDE DEF S
  <2>2. S = Nat
    BY <2>1, Induction DEF S
  <2> QED
    BY <1>1, <1>5, <1>n, <2>2 DEF S
<1> QED
  BY <1>3, <1>4, <1>5, <1>n

\* The sums of the lists a trade consists of.
LEMMA ShortSums ==
  ASSUME NEW a, Len(a) \in 1 .. 5, \A k \in 1 .. Len(a) : a[k] \in Int
  PROVE  /\ Len(a) = 1 => SumOf(a) = a[1]
         /\ Len(a) = 2 => SumOf(a) = a[1] + a[2]
         /\ Len(a) = 3 => SumOf(a) = a[1] + a[2] + a[3]
         /\ Len(a) = 4 => SumOf(a) = a[1] + a[2] + a[3] + a[4]
         /\ Len(a) = 5 => SumOf(a) = a[1] + a[2] + a[3] + a[4] + a[5]
<1>1. PICK u : Accumulates(u, a) /\ SumOf(a) = u[Len(a)]
  BY SumsAccumulate
<1>2. u[1] = a[1]
  BY <1>1 DEF Accumulates
<1>3. Len(a) >= 2 => u[2] = a[1] + a[2]
  BY <1>1, <1>2 DEF Accumulates
<1>4. Len(a) >= 3 => u[3] = a[1] + a[2] + a[3]
  BY <1>1, <1>3 DEF Accumulates
<1>5. Len(a) >= 4 => u[4] = a[1] + a[2] + a[3] + a[4]
  BY <1>1, <1>4 DEF Accumulates
<1>6. Len(a) >= 5 => u[5] = a[1] + a[2] + a[3] + a[4] + a[5]
  BY <1>1, <1>5 DEF Accumulates
<1>7. ASSUME NEW n \in 1 .. 5, Len(a) = n PROVE SumOf(a) = u[n]
  BY <1>1, <1>7
<1> QED
  BY <1>2, <1>3, <1>4, <1>5, <1>6, <1>7

----------------------------------------------------------------------------
(* The accounts of a list of coins.                                        *)

LEMMA AmountsAreNumbers ==
  ASSUME NEW list, IsList(list), Counted(list), NEW S
  PROVE  /\ AmountOf(list, S) \in Int /\ TotalOf(list) \in Int
         /\ S \cap DOMAIN list = {} => AmountOf(list, S) = 0
         /\ \A j \in DOMAIN list : S \cap DOMAIN list = {j} => AmountOf(list, S) = list[j].amount
<1>1. Len(list) \in Nat /\ DOMAIN list = 1 .. Len(list) /\ \A k \in DOMAIN list : list[k].amount \in Int
  <2>1. \A k \in DOMAIN list : list[k].amount \in Int
    BY Zenon DEF Counted
  <2> QED
    BY <2>1, ListsHavePlaces
<1> DEFINE a == [i \in DOMAIN list |-> IF i \in S THEN list[i].amount ELSE 0]
           t == [i \in DOMAIN list |-> list[i].amount]
<1>2. Len(a) = Len(list) /\ Len(t) = Len(list)
  BY <1>1
<1>3. \A k \in 1 .. Len(list) : a[k] \in Int /\ t[k] \in Int /\ a[k] = IF k \in S THEN list[k].amount ELSE 0
  BY <1>1
<1>4. AmountOf(list, S) = SumOf(a) /\ TotalOf(list) = SumOf(t)
  BY DEF AmountOf, TotalOf, Amounts
<1> HIDE DEF a, t
<1>5. SumOf(a) \in Int /\ SumOf(t) \in Int
  BY <1>1, <1>2, <1>3, SumsOfIntegers
<1>6. ASSUME S \cap DOMAIN list = {} PROVE SumOf(a) = 0
  <2>1. \A k \in 1 .. Len(a) : a[k] = 0
    BY <1>1, <1>2, <1>3, <1>6
  <2> QED
    BY <1>1, <1>2, <1>3, <2>1, SumsOfIntegers
<1>7. ASSUME NEW j \in DOMAIN list, S \cap DOMAIN list = {j} PROVE SumOf(a) = list[j].amount
  <2>1. j \in 1 .. Len(a) /\ a[j] = list[j].amount /\ \A k \in 1 .. Len(a) : k # j => a[k] = 0
    BY <1>1, <1>2, <1>3, <1>7
  <2> QED
    BY <1>1, <1>2, <1>3, <2>1, SumsOfIntegers
<1> QED
  BY <1>4, <1>5, <1>6, <1>7

LEMMA TokensAreNumbers ==
  ASSUME NEW list, IsList(list), Counted(list), NEW S, \A k \in S \cap DOMAIN list : Holds(list[k].script)
  PROVE  /\ TokensOf(list, S) \in Int
         /\ S \cap DOMAIN list = {} => TokensOf(list, S) = 0
         /\ \A j \in DOMAIN list : S \cap DOMAIN list = {j} => TokensOf(list, S) = NoteAmount(list[j].script)
<1>1. Len(list) \in Nat /\ DOMAIN list = 1 .. Len(list)
      /\ \A k \in S \cap DOMAIN list : NoteAmount(list[k].script) \in Int
  <2>1. \A k \in S \cap DOMAIN list : NoteAmount(list[k].script) \in Int
    BY Zenon DEF Counted
  <2> QED
    BY <2>1, ListsHavePlaces
<1> DEFINE a == [i \in DOMAIN list |-> IF i \in S THEN NoteAmount(list[i].script) ELSE 0]
<1>2. Len(a) = Len(list)
  BY <1>1
<1>3. \A k \in 1 .. Len(list) : a[k] \in Int /\ a[k] = IF k \in S THEN NoteAmount(list[k].script) ELSE 0
  BY <1>1
<1>4. TokensOf(list, S) = SumOf(a)
  BY DEF TokensOf
<1> HIDE DEF a
<1>5. SumOf(a) \in Int
  BY <1>1, <1>2, <1>3, SumsOfIntegers
<1>6. ASSUME S \cap DOMAIN list = {} PROVE SumOf(a) = 0
  <2>1. \A k \in 1 .. Len(a) : a[k] = 0
    BY <1>1, <1>2, <1>3, <1>6
  <2> QED
    BY <1>1, <1>2, <1>3, <2>1, SumsOfIntegers
<1>7. ASSUME NEW j \in DOMAIN list, S \cap DOMAIN list = {j} PROVE SumOf(a) = NoteAmount(list[j].script)
  <2>1. j \in 1 .. Len(a) /\ a[j] = NoteAmount(list[j].script) /\ \A k \in 1 .. Len(a) : k # j => a[k] = 0
    BY <1>1, <1>2, <1>3, <1>7
  <2> QED
    BY <1>1, <1>2, <1>3, <2>1, SumsOfIntegers
<1> QED
  BY <1>4, <1>5, <1>6, <1>7

\* Two lists whose coins say the same hold the same.
SameCoins(l, m) ==
  /\ DOMAIN l = DOMAIN m
  /\ \A i \in DOMAIN m : l[i].amount = m[i].amount /\ l[i].script = m[i].script /\ l[i].covenant = m[i].covenant

LEMMA SameAccounts ==
  ASSUME NEW l, NEW m, SameCoins(l, m)
  PROVE  /\ OwnKas(l) = OwnKas(m) /\ TotalOf(l) = TotalOf(m)
         /\ \A id, owner : OwnTokens(l, id, owner) = OwnTokens(m, id, owner)
<1>1. DOMAIN l = DOMAIN m /\ \A i \in DOMAIN m : l[i].amount = m[i].amount /\ l[i].script = m[i].script
                                                /\ l[i].covenant = m[i].covenant
  BY DEF SameCoins
<1>2. \A S : AmountOf(l, S) = AmountOf(m, S) /\ TokensOf(l, S) = TokensOf(m, S)
  <2> TAKE S
  <2>1. [i \in DOMAIN l |-> IF i \in S THEN l[i].amount ELSE 0] = [i \in DOMAIN m |-> IF i \in S THEN m[i].amount ELSE 0]
    BY <1>1
  <2>2. [i \in DOMAIN l |-> IF i \in S THEN NoteAmount(l[i].script) ELSE 0]
        = [i \in DOMAIN m |-> IF i \in S THEN NoteAmount(m[i].script) ELSE 0]
    BY <1>1
  <2> QED
    BY <2>1, <2>2, Zenon DEF AmountOf, TokensOf
<1>3. [i \in DOMAIN l |-> l[i].amount] = [i \in DOMAIN m |-> m[i].amount]
  BY <1>1
<1>4. {k \in DOMAIN l : Plain(l[k]) /\ l[k].script = <<"pk", Key>>} = {k \in DOMAIN m : Plain(m[k]) /\ m[k].script = <<"pk", Key>>}
  BY <1>1 DEF Plain
<1>5. \A id, owner : NotesOf(l, id, owner) = NotesOf(m, id, owner)
  BY <1>1 DEF NotesOf, Of
<1>6. OwnKas(l) = OwnKas(m)
  BY <1>2, <1>4 DEF OwnKas
<1>7. TotalOf(l) = TotalOf(m)
  BY <1>3, Zenon DEF TotalOf, Amounts
<1>8. \A id, owner : OwnTokens(l, id, owner) = OwnTokens(m, id, owner)
  BY <1>2, <1>5 DEF OwnTokens
<1> QED
  BY <1>6, <1>7, <1>8

\* Signing and what the core adds to a draft before it leave the coins alone.
LEMMA SignedCoins ==
  ASSUME NEW r, IsDrafted(r), Counted(r.tx.ins)
  PROVE  SameCoins(SignedPskt(r).ins, r.tx.ins) /\ SignedPskt(r).outs = r.tx.outs
<1>1. \A i \in DOMAIN r.tx.ins : {"amount", "script", "covenant"} \subseteq DOMAIN r.tx.ins[i]
  BY Zenon DEF Counted
<1>2. SameCoins(Drafted(r).tx.ins, r.tx.ins) /\ Drafted(r).tx.outs = r.tx.outs
      /\ \A i \in DOMAIN r.tx.ins : DOMAIN Drafted(r).tx.ins[i] = DOMAIN r.tx.ins[i]
  <2>1. CASE r.profile = "kforge"
    <3>1. Drafted(r) = Expand(r)
      BY <2>1 DEF Drafted
    <3>2. Expand(r).tx.outs = r.tx.outs
          /\ Expand(r).tx.ins = [i \in DOMAIN r.tx.ins |-> [r.tx.ins[i] EXCEPT !.witness = WitnessAt(r, i)]]
      BY DEF Expand, IsDrafted, IsTransaction
    <3> QED
      BY <1>1, <3>1, <3>2 DEF SameCoins
  <2>2. CASE r.profile # "kforge"
    BY <2>2 DEF Drafted, SameCoins
  <2> QED
    BY <2>1, <2>2
<1> DEFINE d == Drafted(r)
<1>3. IsDrafted(d)
  BY ExpandedDrafts
<1>4. SignedPskt(r) = SignedDraft(d)
  BY DEF SignedPskt
<1> HIDE DEF d
<1> DEFINE filled(i) == IF i \in Selected(d)
                        THEN [d.tx.ins[i] EXCEPT !.witness = WitnessFor(d, i, Signature(d, d.tx, i))] ELSE d.tx.ins[i]
           ins == [i \in DOMAIN d.tx.ins |-> filled(i)]
<1>5. SignedDraft(d) = [d.tx EXCEPT !.ins = ins]
  BY DEF SignedDraft
<1>6. SignedDraft(d).ins = ins /\ SignedDraft(d).outs = d.tx.outs
  <2> HIDE DEF ins
  <2> QED
    BY <1>3, <1>5 DEF IsDrafted, IsTransaction
<1>7. \A i \in DOMAIN d.tx.ins : {"amount", "script", "covenant"} \subseteq DOMAIN d.tx.ins[i]
  BY <1>1, <1>2 DEF d, SameCoins
<1>8. \A i \in DOMAIN d.tx.ins : filled(i).amount = d.tx.ins[i].amount /\ filled(i).script = d.tx.ins[i].script
                                /\ filled(i).covenant = d.tx.ins[i].covenant
  BY <1>7
<1>9. SameCoins(ins, d.tx.ins)
  <2> HIDE DEF filled
  <2> QED
    BY <1>8 DEF SameCoins
<1> QED
  BY <1>2, <1>4, <1>6, <1>9 DEF SameCoins, d
=============================================================================
