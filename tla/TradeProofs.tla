----------------------------- MODULE TradeProofs -----------------------------
(***************************************************************************)
(* Proofs about the trades whose terms the core computes again from the    *)
(* draft before it signs: Kasseal, KForge, Braid and the buy orders of     *)
(* KasForge.  Whatever the terms and whatever others add to the draft, the *)
(* wallet pays no more KAS and receives no fewer tokens than was agreed.   *)
(***************************************************************************)
EXTENDS SigningProofs
LOCAL INSTANCE SequencesExt

----------------------------------------------------------------------------
(* Edits keep the numbers of a draft numbers.                              *)

LEMMA CountedCoins ==
  ASSUME NEW list
  PROVE  Counted(list) <=> \A c \in Elements(list) :
                             /\ {"amount", "script", "covenant"} \subseteq DOMAIN c /\ c.amount \in Int
                             /\ Holds(c.script) => NoteAmount(c.script) \in Int
BY Zenon DEF Counted, Elements

LEMMA RemovalKeepsElements ==
  ASSUME NEW s, IsList(s), NEW k \in DOMAIN s
  PROVE  Elements(RemoveAt(s, k)) \subseteq Elements(s)
<1> DEFINE S == Elements(s)
<1>1. s \in Seq(S) /\ k \in 1 .. Len(s) /\ Len(s) \in Nat
  BY ListsHavePlaces DEF IsList
<1> HIDE DEF S
<1>2. SubSeq(s, 1, k - 1) \in Seq(S) /\ SubSeq(s, k + 1, Len(s)) \in Seq(S)
  BY <1>1
<1>3. RemoveAt(s, k) \in Seq(S)
  BY <1>2 DEF RemoveAt
<1>4. \A t \in Seq(S) : Elements(t) \subseteq S
  BY DEF Elements
<1> QED
  BY <1>3, <1>4 DEF S

LEMMA NudgesCount ==
  ASSUME NEW s, Counted(s), NEW k \in DOMAIN s, NEW d \in Int
  PROVE  Counted(Nudged(s, k, d)) /\ DOMAIN Nudged(s, k, d) = DOMAIN s
<1>1. \A i \in DOMAIN s : {"amount", "script", "covenant"} \subseteq DOMAIN s[i] /\ s[i].amount \in Int
                          /\ (Holds(s[i].script) => NoteAmount(s[i].script) \in Int)
  BY Zenon DEF Counted
<1> DEFINE t == Nudged(s, k, d)
<1>2. DOMAIN t = DOMAIN s /\ \A i \in DOMAIN s : DOMAIN t[i] = DOMAIN s[i] /\ t[i].script = s[i].script
                                                /\ t[i].amount = IF i = k THEN s[i].amount + d ELSE s[i].amount
  BY <1>1 DEF Nudged
<1> HIDE DEF t
<1>3. \A i \in DOMAIN t : {"amount", "script", "covenant"} \subseteq DOMAIN t[i] /\ t[i].amount \in Int
                          /\ (Holds(t[i].script) => NoteAmount(t[i].script) \in Int)
  BY <1>1, <1>2
<1>4. Counted(t)
  BY <1>3, Zenon DEF Counted
<1> QED
  BY <1>2, <1>4 DEF t

LEMMA RedirectionsCount ==
  ASSUME NEW s, Counted(s), NEW k \in DOMAIN s, NEW x, Holds(x) => NoteAmount(x) \in Int
  PROVE  Counted(Redirected(s, k, x))
<1>1. \A i \in DOMAIN s : {"amount", "script", "covenant"} \subseteq DOMAIN s[i] /\ s[i].amount \in Int
                          /\ (Holds(s[i].script) => NoteAmount(s[i].script) \in Int)
  BY Zenon DEF Counted
<1> DEFINE t == Redirected(s, k, x)
<1>2. DOMAIN t = DOMAIN s /\ \A i \in DOMAIN s : DOMAIN t[i] = DOMAIN s[i] /\ t[i].amount = s[i].amount
                                                /\ t[i].script = IF i = k THEN x ELSE s[i].script
  BY <1>1 DEF Redirected
<1> HIDE DEF t
<1>3. \A i \in DOMAIN t : {"amount", "script", "covenant"} \subseteq DOMAIN t[i] /\ t[i].amount \in Int
                          /\ (Holds(t[i].script) => NoteAmount(t[i].script) \in Int)
  BY <1>1, <1>2
<1>4. Counted(t)
  BY <1>3, Zenon DEF Counted
<1> QED
  BY <1>4 DEF t

\* An output becomes the stranger's, or a note of another owner or amount.
LEMMA StrangersScripts == ~Holds(PayTo(Stranger))
<1>1. PayTo(Stranger)[1] = "pk"
  BY NumbersAssumption DEF PayTo
<1> QED
  BY <1>1 DEF Holds, Program

LEMMA EditedNotes ==
  ASSUME NEW script, Holds(script) => NoteAmount(script) \in Int, NEW x \in NoteEdits(script)
  PROVE  NoteAmount(x) \in Int
<1>1. Holds(script) /\ NoteAmount(script) \in Int
  BY DEF NoteEdits, Holds
<1>2. \A owner, amount, policy : NoteAmount(PayToScriptHash(Note(owner, amount, policy))) = amount
  BY DEF NoteAmount, Program, PayToScriptHash, Note
<1>3. CASE \E owner, policy : x = PayToScriptHash(Note(owner, NoteAmount(script), policy))
  BY <1>1, <1>2, <1>3
<1>4. CASE \E owner, policy : \E d \in Nudges : x = PayToScriptHash(Note(owner, NoteAmount(script) + d, policy))
  <2>1. PICK d \in Nudges : NoteAmount(x) = NoteAmount(script) + d
    BY <1>2, <1>4
  <2> QED
    BY <1>1, <2>1, NumbersAssumption
<1>5. \/ \E owner, policy : x = PayToScriptHash(Note(owner, NoteAmount(script), policy))
      \/ \E owner, policy : \E d \in Nudges : x = PayToScriptHash(Note(owner, NoteAmount(script) + d, policy))
  BY Zenon DEF NoteEdits
<1> QED
  BY <1>3, <1>4, <1>5

LEMMA EditedOutputsCount ==
  ASSUME NEW outs, IsList(outs), Counted(outs), NEW o \in OutEdits(outs)
  PROVE  Counted(o)
<1>1. Nudges \subseteq Int
  BY NumbersAssumption
<1>2. CASE o \in Shifts(outs)
  <2>1. PICK a \in DOMAIN outs, b \in DOMAIN outs, d \in Nudges : o = Nudged(Nudged(outs, a, -d), b, d)
    BY <1>2, SMT DEF Shifts
  <2>2. d \in Int /\ -d \in Int
    BY <1>1, <2>1
  <2>3. Counted(Nudged(outs, a, -d)) /\ b \in DOMAIN Nudged(outs, a, -d)
    BY <2>1, <2>2, NudgesCount
  <2> QED
    BY <2>1, <2>2, <2>3, NudgesCount
<1>3. CASE \E k \in DOMAIN outs, d \in Nudges : o = Nudged(outs, k, d)
  BY <1>1, <1>3, NudgesCount
<1>4. CASE \E k \in DOMAIN outs : o = Redirected(outs, k, PayTo(Stranger))
  BY <1>4, StrangersScripts, RedirectionsCount
<1>5. CASE \E k \in DOMAIN outs : \E x \in NoteEdits(outs[k].script) : o = Redirected(outs, k, x)
  <2>1. PICK k \in DOMAIN outs : \E x \in NoteEdits(outs[k].script) : o = Redirected(outs, k, x)
    BY <1>5
  <2>2. Holds(outs[k].script) => NoteAmount(outs[k].script) \in Int
    BY <2>1, Zenon DEF Counted
  <2> QED
    BY <2>1, <2>2, EditedNotes, RedirectionsCount
<1>6. CASE \E k \in DOMAIN outs : o = RemoveAt(outs, k)
  BY <1>6, CountedCoins, RemovalKeepsElements
<1> QED
  BY <1>2, <1>3, <1>4, <1>5, <1>6, Zenon DEF OutEdits

LEMMA EditedTermsCount ==
  ASSUME NEW profile, NEW t, TermsStated(profile, t), NEW e \in FieldEdits(t)
  PROVE  TermsStated(profile, e)
<1> DEFINE Fields == {"venue", "note", "buy", "token", "market"}
<1>1. /\ DOMAIN t \cap Numbers \subseteq {f \in DOMAIN t : t[f] \in Int}
      /\ profile = "kforge" => /\ Fields \cup {"amount", "maximumDebit", "minimumOut"} \subseteq DOMAIN t
                               /\ t.venue \in Tallies /\ t.note \in NoteTallies /\ t.buy \in BOOLEAN
  BY DEF TermsStated
<1>2. Fields \cap (Numbers \cup Parties \cup Lists) = {} /\ Parties \cap Numbers = {} /\ Lists \cap Numbers = {}
      /\ {"utxos", "coins"} \subseteq Lists
  BY DEF Numbers, Parties, Lists
<1>3. ASSUME NEW f \in DOMAIN t, f \notin Fields, NEW x, f \in Numbers => x \in Int, e = [t EXCEPT ![f] = x]
      PROVE  TermsStated(profile, e)
  <2>1. DOMAIN e = DOMAIN t /\ \A g \in DOMAIN t : e[g] = IF g = f THEN x ELSE t[g]
    BY <1>3
  <2>2. \A g \in DOMAIN e \cap Numbers : e[g] \in Int
    BY <1>1, <1>3, <2>1
  <2>3. profile = "kforge" => /\ Fields \cup {"amount", "maximumDebit", "minimumOut"} \subseteq DOMAIN e
                              /\ e.venue \in Tallies /\ e.note \in NoteTallies /\ e.buy \in BOOLEAN
    BY <1>1, <1>3, <2>1
  <2> HIDE DEF Fields
  <2> QED
    BY <2>2, <2>3 DEF TermsStated, Fields
<1> HIDE DEF Fields
<1>4. CASE e \in {[t EXCEPT ![f] = @ + d] : f \in DOMAIN t \cap Numbers, d \in Nudges}
  <2>1. PICK f \in DOMAIN t \cap Numbers, d \in Nudges : e = [t EXCEPT ![f] = @ + d]
    BY <1>4, SMT
  <2>2. t[f] + d \in Int
    BY <1>1, NumbersAssumption
  <2> QED
    BY <1>2, <1>3, <2>1, <2>2
<1>5. CASE e \in {[t EXCEPT ![f] = Stranger] : f \in DOMAIN t \cap Parties}
  <2>1. PICK f \in DOMAIN t \cap Parties : e = [t EXCEPT ![f] = Stranger]
    BY <1>5
  <2> QED
    BY <1>2, <1>3, <2>1
<1>6. CASE e \in {[t EXCEPT ![f] = Tail(@)] : f \in {g \in DOMAIN t \cap Lists : t[g] # <<>>}}
  <2>1. PICK f \in DOMAIN t \cap Lists : e = [t EXCEPT ![f] = Tail(@)]
    BY <1>6
  <2> QED
    BY <1>2, <1>3, <2>1
<1>7. CASE e \in UNION {{[t EXCEPT ![f][i].amount = @ + d] : i \in DOMAIN t[f], d \in Nudges} :
                          f \in DOMAIN t \cap {"utxos", "coins"}}
  <2> DEFINE S(f) == {[t EXCEPT ![f][i].amount = @ + d] : i \in DOMAIN t[f], d \in Nudges}
  <2>1. e \in UNION {S(f) : f \in DOMAIN t \cap {"utxos", "coins"}}
    BY <1>7
  <2> HIDE DEF S
  <2>2. PICK f \in DOMAIN t \cap {"utxos", "coins"} : e \in S(f)
    BY <2>1
  <2>3. PICK i \in DOMAIN t[f], d \in Nudges : e = [t EXCEPT ![f][i].amount = @ + d]
    BY <2>2, SMT DEF S
  <2>4. e = [t EXCEPT ![f] = [t[f] EXCEPT ![i].amount = @ + d]]
    BY <2>3
  <2> QED
    BY <1>2, <1>3, <2>2, <2>4
<1> QED
  BY <1>4, <1>5, <1>6, <1>7 DEF FieldEdits

LEMMA EditedDraftsAreStated ==
  ASSUME NEW r, IsDrafted(r), Stated(r), NEW e \in DraftEdits(r)
  PROVE  Stated(e)
<1> DEFINE Parts == {"sender", "profile", "terms", "signInputs", "scripts"}
<1>1. /\ Parts \subseteq DOMAIN r /\ "script" \notin DOMAIN r.sender /\ IsList(r.signInputs)
      /\ Counted(r.tx.ins) /\ Counted(r.tx.outs) /\ TermsStated(r.profile, r.terms)
  BY DEF Stated
<1>2. ASSUME NEW t \in TxEdits(r.tx), e = Rehashed([r EXCEPT !.tx = t])
      PROVE  Stated(e)
  <2>1. Parts \subseteq DOMAIN e /\ e.tx = t /\ e.sender = r.sender /\ e.profile = r.profile /\ e.terms = r.terms
        /\ DOMAIN e.signInputs = DOMAIN r.signInputs /\ e.signInputs = [k \in DOMAIN e.signInputs |-> e.signInputs[k]]
    BY <1>1, <1>2 DEF Rehashed, IsDrafted
  <2>s. IsList(e.signInputs)
    BY <1>1, <2>1, ChangesKeepLists
  <2>2. CASE \E o \in OutEdits(r.tx.outs) : t = [r.tx EXCEPT !.outs = o]
    <3>1. PICK o \in OutEdits(r.tx.outs) : t = [r.tx EXCEPT !.outs = o]
      BY <2>2
    <3>2. t.ins = r.tx.ins /\ t.outs = o
      BY <3>1 DEF IsDrafted, IsTransaction
    <3>3. Counted(o)
      BY <1>1, EditedOutputsCount DEF IsDrafted, IsTransaction
    <3> QED
      BY <1>1, <2>1, <2>s, <3>2, <3>3 DEF Stated
  <2>3. ASSUME NEW i \in DOMAIN r.tx.ins, NEW d \in Nudges, t = [r.tx EXCEPT !.ins = Nudged(@, i, d)]
        PROVE  Stated(e)
    <3>1. t.ins = Nudged(r.tx.ins, i, d) /\ t.outs = r.tx.outs
      BY <2>3 DEF IsDrafted, IsTransaction
    <3>2. Counted(Nudged(r.tx.ins, i, d))
      BY <1>1, NudgesCount, NumbersAssumption
    <3> QED
      BY <1>1, <2>1, <2>s, <3>1, <3>2 DEF Stated
  <2> QED
    BY <2>2, <2>3, SMT DEF TxEdits
<1>3. ASSUME NEW t \in FieldEdits(r.terms), e = [r EXCEPT !.terms = t]
      PROVE  Stated(e)
  <2>1. Parts \subseteq DOMAIN e /\ e.tx = r.tx /\ e.sender = r.sender /\ e.profile = r.profile /\ e.terms = t
        /\ e.signInputs = r.signInputs
    BY <1>1, <1>3
  <2>2. TermsStated(r.profile, t)
    BY <1>1, EditedTermsCount
  <2> QED
    BY <1>1, <2>1, <2>2 DEF Stated
<1> QED
  BY <1>2, <1>3 DEF DraftEdits

----------------------------------------------------------------------------
(* The inductive invariant.  The numbers of a draft stay numbers; what is  *)
(* released was asked for by the wallet's own key; and where every input   *)
(* the wallet signs commits to the whole transaction, no completion the    *)
(* network takes is another one.                                           *)
AskedInNumbers == method \in DraftMethods => Stated(req)
ReleasedToOwner ==
  method \in DraftMethods /\ out # <<>> => Stated(out.req) /\ Controls(Secret, out.req.sender)
CompletedAsReleased ==
  method \in DraftMethods /\ out # <<>> /\ FinalFeeKnown(Drafted(out.req)) =>
    final.ins = out.tx.ins /\ final.outs = out.tx.outs
AgreedInv == AskedInNumbers /\ ReleasedToOwner /\ CompletedAsReleased

LEMMA CompletionsAddOrKeep ==
  ASSUME NEW tx, IsTransaction(tx), NEW t \in Completions(tx)
  PROVE  t.ins = tx.ins \/ Len(t.ins) = Len(tx.ins) + 1
<1> DEFINE e == ForeignIn(tx)
<1>1. tx.ins \in Seq(Elements(tx.ins)) /\ Len(tx.ins) \in Nat
  BY ListsHavePlaces DEF IsTransaction, IsList
<1>2. Len(Append(tx.ins, e)) = Len(tx.ins) + 1 /\ Len(<<e>> \o tx.ins) = Len(tx.ins) + 1
  <2> HIDE DEF e
  <2> DEFINE S == Elements(tx.ins) \cup {e}
  <2>1. Elements(tx.ins) \subseteq S
    OBVIOUS
  <2>2. tx.ins \in Seq(S) /\ e \in S
    BY <1>1, <2>1, SeqMonotonic
  <2> HIDE DEF S
  <2> QED
    BY <1>1, <2>2
<1> HIDE DEF e
<1>3. CASE t = [tx EXCEPT !.ins = Append(@, e)] \/ t = [tx EXCEPT !.outs = Append(@, ForeignOut)]
           \/ t = [tx EXCEPT !.ins = <<e>> \o @, !.outs = <<ForeignOut>> \o @]
  BY <1>2, <1>3 DEF IsTransaction
<1>4. CASE \/ \E k \in DOMAIN tx.outs : t = [tx EXCEPT !.outs = RemoveAt(@, k)]
           \/ \E k \in DOMAIN tx.outs : t = [tx EXCEPT !.outs[k] = ForeignOut]
  BY <1>4 DEF IsTransaction
<1> QED
  BY <1>3, <1>4, Zenon DEF Completions, e

LEMMA AgreedInitially == Init => AgreedInv
<1> SUFFICES ASSUME Init PROVE AgreedInv
  OBVIOUS
<1>1. out = <<>>
  BY DEF Init, SigningInit, NoRequest
<1>2. CASE NoRequest
  BY <1>1, <1>2 DEF NoRequest, AgreedInv, AskedInNumbers, ReleasedToOwner, CompletedAsReleased, DraftMethods
<1>3. CASE SigningInit
  <2>1. PICK k \in DOMAIN Samples : method = Samples[k].method /\ req = Samples[k].request
    BY <1>3 DEF SigningInit, Elements
  <2>2. AskedInNumbers
    BY <2>1, NumbersAssumption, Zenon DEF AskedInNumbers
  <2> QED
    BY <1>1, <2>2 DEF AgreedInv, ReleasedToOwner, CompletedAsReleased
<1> QED
  BY <1>2, <1>3 DEF Init

LEMMA SignersAreOwners ==
  ASSUME NEW r, NEW approved, method \in DraftMethods, SignAs(Secret, method, r, approved).ok
  PROVE  Controls(Secret, r.sender)
<1>1. ControlsRequest(Secret, method, r)
  BY RefusalsAreNotOk DEF SignAs, SignPrepared
<1> QED
  BY <1>1 DEF ControlsRequest, DraftMethods

LEMMA AgreedStepwise == IInv /\ AgreedInv /\ [Next]_vars => AgreedInv'
<1> SUFFICES ASSUME IInv, AgreedInv, [Next]_vars PROVE AgreedInv'
  OBVIOUS
<1> USE DEF IInv, AgreedInv
<1>1. /\ IsDraft <=> method \in DraftMethods
      /\ method \in CoreMethods => method \notin DraftMethods /\ ~IsPlan
  BY DraftsAreKnown
<1>2. ASSUME method' = method, req' = req PROVE AskedInNumbers'
  BY <1>2 DEF AskedInNumbers
<1>3. ASSUME method' = method, out' = out PROVE ReleasedToOwner'
  BY <1>3 DEF ReleasedToOwner
<1>4. ASSUME method' = method, out' = out, final' = final PROVE CompletedAsReleased'
  BY <1>4 DEF CompletedAsReleased
<1>5. CASE UNCHANGED signingVars
  BY <1>2, <1>3, <1>4, <1>5 DEF signingVars
<1>6. CASE Edit
  <2>1. method' = method /\ out' = out /\ final' = final
    BY <1>6 DEF Edit
  <2>2. ASSUME method \in DraftMethods PROVE Stated(req')
    <3>1. req' \in DraftEdits(req)
      BY <1>1, <1>6, <2>2 DEF Edit, Edits
    <3>2. IsDrafted(req) /\ Stated(req)
      BY <2>2 DEF DraftStands, TransactionMethods, AskedInNumbers
    <3> QED
      BY <3>1, <3>2, EditedDraftsAreStated
  <2> QED
    BY <1>3, <1>4, <2>1, <2>2 DEF AskedInNumbers
<1>7. CASE Approve \/ ApprovePlan
  BY <1>2, <1>3, <1>4, <1>7 DEF Approve, ApprovePlan
<1>8. CASE Sign
  <2>1. SignAs(Secret, method, req, shown.review).ok
        /\ out' = [req |-> req, tx |-> SignAs(Secret, method, req, shown.review).tx]
        /\ final' = SignAs(Secret, method, req, shown.review).tx
        /\ UNCHANGED <<method, req, shown>>
    BY <1>8 DEF Sign, Released
  <2>2. final' = out'.tx /\ out'.req = req
    BY <2>1
  <2>3. method \in DraftMethods => Stated(req) /\ Controls(Secret, req.sender)
    BY <2>1, SignersAreOwners DEF AskedInNumbers
  <2> QED
    BY <1>2, <2>1, <2>2, <2>3 DEF ReleasedToOwner, CompletedAsReleased
<1>9. CASE Complete
  <2>1. method \in DraftMethods /\ out # <<>> /\ UNCHANGED <<method, req, out>>
    BY <1>1, <1>9 DEF Complete
  <2> DEFINE d == Drafted(out.req)
  <2>2. IsDrafted(d) /\ SelectionOk(d) /\ out.tx = SignedDraft(d) /\ IsTransaction(final) /\ VerifiesAs(final, d)
    BY <2>1, ExpandedDrafts, BuiltDrafts DEF ReleasedAsShown, SignedPskt, Verifies
  <2>3. final' \in Completions(final) /\ VerifiesAs(final', d)
    BY <1>9 DEF Complete, Verifies
  <2>4. IsTransaction(final')
    BY <2>2, <2>3, CompletedTransactions
  <2> HIDE DEF d
  <2>5. ASSUME FinalFeeKnown(d) PROVE final'.ins = out.tx.ins /\ final'.outs = out.tx.outs
    <3>1. Executed(final) = Executed(d.tx) /\ Executed(final') = Executed(d.tx)
      BY <2>2, <2>3, <2>4, <2>5, BoundOutputsVerify
    <3>2. final'.outs = final.outs /\ DOMAIN final'.ins = DOMAIN final.ins
      BY <3>1 DEF Executed
    <3>3. Len(final'.ins) = Len(final.ins)
      BY <2>2, <2>4, <3>2, ListsHavePlaces DEF IsTransaction
    <3>4. Len(final.ins) \in Nat
      BY <2>2, ListsHavePlaces DEF IsTransaction
    <3>5. final'.ins = final.ins
      BY <2>2, <2>3, <3>3, <3>4, CompletionsAddOrKeep
    <3> QED
      BY <2>1, <2>5, <3>2, <3>5 DEF CompletedAsReleased, d
  <2>6. CompletedAsReleased'
    BY <2>1, <2>5 DEF CompletedAsReleased, d
  <2> QED
    BY <1>2, <1>3, <2>1, <2>6
<1>10. CASE SignAllSteps \/ SendStep
  <2>1. method \notin DraftMethods /\ method' = method
    BY <1>1, <1>10 DEF SignAllSteps, SendStep, IsPlan, DraftMethods
  <2> QED
    BY <2>1 DEF AskedInNumbers, ReleasedToOwner, CompletedAsReleased
<1> QED
  BY <1>5, <1>6, <1>7, <1>8, <1>9, <1>10 DEF Next, vars, SigningNext

LEMMA AgreedInvariant == Spec => [](IInv /\ AgreedInv)
BY Initially, Stepwise, AgreedInitially, AgreedStepwise, PTL DEF Spec

----------------------------------------------------------------------------
(* What is known of a released trade: the terms that were shown are those  *)
(* the core computed with, and the accounts of the completed transaction   *)
(* are those of the draft.                                                 *)
Asked(r) == IsDrafted(r) /\ Stated(r) /\ r.sender.key = Key

LEMMA ReviewedTerms ==
  ASSUME NEW r, IsDrafted(r), Stated(r), BuildPskt(r).ok
  PROVE  /\ ProfileOk(r)
         /\ BuildPskt(r).review.profile = r.profile /\ BuildPskt(r).review.terms = r.terms
<1> DEFINE d == Drafted(r)
<1>1. d.profile = r.profile /\ d.terms = r.terms
  <2>1. CASE r.profile = "kforge"
    BY <2>1 DEF Drafted, Expand, Stated
  <2>2. CASE r.profile # "kforge"
    BY <2>2 DEF Drafted
  <2> QED
    BY <2>1, <2>2
<1>2. BuildPskt(r) = BuildDraft(r, d)
  BY RefusalsAreNotOk DEF BuildPskt
<1> HIDE DEF d
<1>3. ProfileOk(r) /\ BuildPskt(r) = Built(d.tx, [DraftReview(d) EXCEPT !.warnings = ProfileWarnings(d)])
  BY <1>2, RefusalsAreNotOk DEF BuildDraft
<1>4. \A w : LET review == [DraftReview(d) EXCEPT !.warnings = w]
            IN  review.profile = d.profile /\ review.terms = d.terms
  BY DEF DraftReview
<1>5. BuildPskt(r).review = [DraftReview(d) EXCEPT !.warnings = ProfileWarnings(d)]
  BY <1>3 DEF Built
<1>6. BuildPskt(r).review.profile = d.profile /\ BuildPskt(r).review.terms = d.terms
  BY <1>4, <1>5, Zenon
<1> QED
  BY <1>1, <1>3, <1>6 DEF d

\* Two transactions that pay the wallet and everybody's notes the same.
SameAccount(u, tx) ==
  /\ PaidKas(u) = PaidKas(tx)
  /\ \A id : GotTokens(u, id) = GotTokens(tx, id)
  /\ \A id, owner : OwnTokens(u.outs, id, owner) = OwnTokens(tx.outs, id, owner)

LEMMA ReleasedTrades ==
  ASSUME IInv, AgreedInv, IsDraft, out # <<>>
  PROVE  /\ Asked(out.req) /\ ProfileOk(out.req)
         /\ shown.review.profile = out.req.profile /\ shown.review.terms = out.req.terms
         /\ FinalFeeKnown(Drafted(out.req)) => SameAccount(final, out.req.tx)
<1> DEFINE r == out.req
<1>1. method \in DraftMethods
  BY DraftsAreKnown DEF IInv
<1>2. IsDrafted(r) /\ Stated(r) /\ Controls(Secret, r.sender) /\ BuildPskt(r).ok /\ BuildPskt(r).review = shown.review
      /\ out.tx = SignedPskt(r) /\ (FinalFeeKnown(Drafted(r)) => final.ins = out.tx.ins /\ final.outs = out.tx.outs)
  BY <1>1 DEF IInv, ReleasedAsShown, AgreedInv, ReleasedToOwner, CompletedAsReleased
<1> HIDE DEF r
<1>3. Asked(r)
  BY <1>2 DEF Asked, Controls, Key
<1>4. ASSUME FinalFeeKnown(Drafted(r)) PROVE SameAccount(final, r.tx)
  <2>1. SameCoins(final.ins, r.tx.ins) /\ final.outs = r.tx.outs
    BY <1>2, <1>4, SignedCoins DEF Stated
  <2>2. OwnKas(final.ins) = OwnKas(r.tx.ins)
        /\ \A id, owner : OwnTokens(final.ins, id, owner) = OwnTokens(r.tx.ins, id, owner)
    BY <2>1, SameAccounts
  <2> QED
    BY <2>1, <2>2 DEF SameAccount, PaidKas, GotTokens
<1> QED
  BY <1>2, <1>3, <1>4, ReviewedTerms DEF r

\* The wallet's own coins in the words of the profiles.
LEMMA OwnCoins ==
  ASSUME NEW r, Asked(r)
  PROVE  /\ SenderScript(r) = <<"pk", Key>> /\ KeyOwner(r) = <<"key", Key>>
         /\ \A list : OwnKas(list) = AmountOf(list, OwnPlain(r, list))
         /\ Debit(r) = PaidKas(r.tx)
<1>1. SenderScript(r) = <<"pk", Key>> /\ KeyOwner(r) = <<"key", Key>>
  BY DEF Asked, Stated, SenderScript, PayTo, KeyOwner
<1>2. \A list : OwnKas(list) = AmountOf(list, OwnPlain(r, list))
  BY <1>1 DEF OwnKas, OwnPlain
<1> QED
  BY <1>1, <1>2 DEF Debit, PaidKas

\* A coin of a token is not plain, and no list holds one by a plain coin.
LEMMA NotesAreNotPlain ==
  ASSUME NEW r, Asked(r), NEW list, NEW id, NEW k \in DOMAIN list, Of(list[k], id)
  PROVE  k \notin OwnPlain(r, list)
BY DEF Of, OwnPlain, Plain

LEMMA NotesBelong ==
  ASSUME NEW list, IsList(list), Counted(list), NEW id, NEW owner
  PROVE  /\ OwnTokens(list, id, owner) \in Int
         /\ NotesOf(list, id, owner) = {} => OwnTokens(list, id, owner) = 0
         /\ \A k \in DOMAIN list : NotesOf(list, id, owner) = {k} => OwnTokens(list, id, owner) = NoteAmount(list[k].script)
<1> DEFINE S == NotesOf(list, id, owner)
<1>1. S \cap DOMAIN list = S /\ \A k \in S \cap DOMAIN list : Holds(list[k].script)
  BY DEF NotesOf
<1>2. OwnTokens(list, id, owner) = TokensOf(list, S)
  BY DEF OwnTokens
<1> HIDE DEF S
<1> QED
  BY <1>1, <1>2, TokensAreNumbers DEF S

LEMMA KasBelongs ==
  ASSUME NEW list, IsList(list), Counted(list)
  PROVE  /\ OwnKas(list) \in Int
         /\ (\A k \in DOMAIN list : ~(Plain(list[k]) /\ list[k].script = <<"pk", Key>>)) => OwnKas(list) = 0
         /\ \A j \in DOMAIN list :
              /\ Plain(list[j]) /\ list[j].script = <<"pk", Key>>
              /\ \A k \in DOMAIN list \ {j} : ~(Plain(list[k]) /\ list[k].script = <<"pk", Key>>)
              => OwnKas(list) = list[j].amount
<1> DEFINE S == {k \in DOMAIN list : Plain(list[k]) /\ list[k].script = <<"pk", Key>>}
<1>1. OwnKas(list) = AmountOf(list, S)
  BY DEF OwnKas
<1>2. ASSUME \A k \in DOMAIN list : ~(Plain(list[k]) /\ list[k].script = <<"pk", Key>>)
      PROVE  S \cap DOMAIN list = {}
  BY <1>2
<1>3. ASSUME NEW j \in DOMAIN list, Plain(list[j]) /\ list[j].script = <<"pk", Key>>,
             \A k \in DOMAIN list \ {j} : ~(Plain(list[k]) /\ list[k].script = <<"pk", Key>>)
      PROVE  S \cap DOMAIN list = {j}
  BY <1>3
<1> HIDE DEF S
<1> QED
  BY <1>1, <1>2, <1>3, AmountsAreNumbers

\* What the few coins of a short list come to.
LEMMA ShortTotals ==
  ASSUME NEW list, IsList(list), Counted(list), Len(list) \in 1 .. 5
  PROVE  /\ Len(list) = 1 => TotalOf(list) = list[1].amount
         /\ Len(list) = 2 => TotalOf(list) = list[1].amount + list[2].amount
         /\ Len(list) = 3 => TotalOf(list) = list[1].amount + list[2].amount + list[3].amount
         /\ Len(list) = 4 => TotalOf(list) = list[1].amount + list[2].amount + list[3].amount + list[4].amount
         /\ Len(list) = 5 =>
              TotalOf(list) = list[1].amount + list[2].amount + list[3].amount + list[4].amount + list[5].amount
<1> DEFINE a == [i \in DOMAIN list |-> list[i].amount]
<1>1. DOMAIN list = 1 .. Len(list) /\ \A k \in DOMAIN list : list[k].amount \in Int
  <2>1. \A k \in DOMAIN list : list[k].amount \in Int
    BY Zenon DEF Counted
  <2> QED
    BY <2>1, ListsHavePlaces
<1>2. TotalOf(list) = SumOf(a)
  BY DEF TotalOf, Amounts
<1>3. Len(a) = Len(list) /\ \A k \in 1 .. Len(list) : a[k] = list[k].amount /\ a[k] \in Int
  BY <1>1
<1> HIDE DEF a
<1>4. /\ Len(a) = 1 => SumOf(a) = a[1]
      /\ Len(a) = 2 => SumOf(a) = a[1] + a[2]
      /\ Len(a) = 3 => SumOf(a) = a[1] + a[2] + a[3]
      /\ Len(a) = 4 => SumOf(a) = a[1] + a[2] + a[3] + a[4]
      /\ Len(a) = 5 => SumOf(a) = a[1] + a[2] + a[3] + a[4] + a[5]
  BY <1>3, ShortSums
<1>5. \A k \in 1 .. 5 : k <= Len(list) => a[k] = list[k].amount
  BY <1>3
<1> QED
  BY <1>2, <1>3, <1>4, <1>5

\* Of a draft that is not expanded every signature commits to all.
LEMMA FullySigned ==
  ASSUME NEW r, r.profile # "kforge", AllSighashesAre(r, All)
  PROVE  FinalFeeKnown(Drafted(r))
BY DEF Drafted, FinalFeeKnown

----------------------------------------------------------------------------
(* Kasseal: the core adds up the very accounts.                            *)

LEMMA KassealSwaps ==
  ASSUME NEW r, Asked(r), r.profile = "kasseal-swap", KassealSwapOk(r)
  PROVE  FinalFeeKnown(Drafted(r)) /\ KassealKept(r.terms, r.tx)
<1> DEFINE t == r.terms
           tx == r.tx
<1>1. /\ AllSighashesAre(r, All)
      /\ \A i \in DOMAIN tx.ins : KassealInputOk(r, i)
      /\ \A k \in DOMAIN tx.outs : KassealOutputOk(r, k)
  BY Zenon DEF KassealSwapOk, KassealEnvelope
<1>2. \A i \in DOMAIN tx.ins : Of(tx.ins[i], t.token) => IsNote(tx.ins[i].script)
  BY <1>1 DEF KassealInputOk, Of, Plain
<1>3. \A k \in DOMAIN tx.outs : Of(tx.outs[k], t.token) => IsNote(tx.outs[k].script)
  BY <1>1 DEF KassealOutputOk, Of, Plain
<1>4. ASSUME NEW list, \A i \in DOMAIN list : Of(list[i], t.token) => IsNote(list[i].script)
      PROVE  OwnNotes(r, list, t.token) = NotesOf(list, t.token, <<"key", Key>>)
  BY <1>4, OwnCoins DEF OwnNotes, NotesOf, IsNote, Holds
<1>5. TokenGain(r, t.token) = GotTokens(tx, t.token)
  BY <1>2, <1>3, <1>4 DEF TokenGain, GotTokens, OwnTokens
<1>6. Debit(r) = PaidKas(tx)
  BY OwnCoins
<1>7. IF t.side = "buy" THEN TokenGain(r, t.token) >= t.minimum /\ Debit(r) <= t.maximum
      ELSE -TokenGain(r, t.token) = t.amount /\ -Debit(r) >= t.minimum
  BY Zenon DEF KassealSwapOk
<1> HIDE DEF t, tx
<1>8. KassealKept(t, tx)
  BY <1>5, <1>6, <1>7 DEF KassealKept
<1> QED
  BY <1>1, <1>8, FullySigned DEF t, tx

LEMMA KassealPreparations ==
  ASSUME NEW r, Asked(r), r.profile = "kasseal-prepare", KassealPrepareOk(r)
  PROVE  FinalFeeKnown(Drafted(r)) /\ GotTokens(r.tx, r.terms.token) = 0 /\ PaidKas(r.tx) <= PrepareDebit
<1> DEFINE id == r.terms.token
           tx == r.tx
           us == <<"key", Key>>
<1>1. AllSighashesAre(r, All) /\ Debit(r) <= PrepareDebit
      /\ DOMAIN tx.ins = OwnNotes(r, tx.ins, id) \cup OwnPlain(r, tx.ins)
      /\ DOMAIN tx.outs = OwnNotes(r, tx.outs, id) \cup OwnPlain(r, tx.outs)
      /\ TokensOf(tx.ins, OwnNotes(r, tx.ins, id)) = TokensOf(tx.outs, OwnNotes(r, tx.outs, id))
  BY Zenon DEF KassealPrepareOk, KassealEnvelope
<1>2. ASSUME NEW list, DOMAIN list = OwnNotes(r, list, id) \cup OwnPlain(r, list)
      PROVE  OwnNotes(r, list, id) = NotesOf(list, id, us)
  <2>1. OwnNotes(r, list, id) \subseteq NotesOf(list, id, us)
    BY OwnCoins DEF OwnNotes, NotesOf, IsNote, Holds
  <2>2. \A k \in NotesOf(list, id, us) : k \in DOMAIN list /\ Of(list[k], id)
    BY DEF NotesOf
  <2> QED
    BY <1>2, <2>1, <2>2, NotesAreNotPlain
<1>3. OwnTokens(tx.ins, id, us) = OwnTokens(tx.outs, id, us)
  BY <1>1, <1>2 DEF OwnTokens
<1>4. OwnTokens(tx.ins, id, us) \in Int
  BY NotesBelong DEF Asked, IsDrafted, IsTransaction, Stated
<1>5. GotTokens(tx, id) = 0
  BY <1>3, <1>4 DEF GotTokens
<1> QED
  BY <1>1, <1>5, OwnCoins, FullySigned

----------------------------------------------------------------------------
(* KasForge: placing a buy order touches no note.                          *)

LEMMA PlainLists ==
  ASSUME NEW r, Asked(r), NEW list, IsList(list), Counted(list), \A i \in DOMAIN list : Plain(list[i]), NEW id, NEW owner
  PROVE  OwnTokens(list, id, owner) = 0
<1>1. NotesOf(list, id, owner) = {}
  BY DEF NotesOf, Of, Plain
<1> QED
  BY <1>1, NotesBelong

LEMMA BuyOrders ==
  ASSUME NEW r, Asked(r), r.profile = "kasforge", KasForgeOk(r), r.terms.action = "order-buy"
  PROVE  FinalFeeKnown(Drafted(r)) /\ KasForgeKept(r.terms, r.tx)
<1> DEFINE tx == r.tx
<1>1. AllSighashesAre(r, All)
  BY DEF KasForgeOk, OrderEnvelope
<1>2. BuyOk(r) /\ OrderInputsOk(r)
  BY Zenon DEF KasForgeOk
<1>3. \A i \in DOMAIN tx.ins : Plain(tx.ins[i])
  BY <1>2 DEF BuyOk, OrderInputsOk, OwnPlain
<1>4. \A k \in DOMAIN tx.outs : Plain(tx.outs[k])
  BY <1>2 DEF BuyOk, NoteOuts, PlacedOrder, OwnPlain
<1>5. GotTokens(tx, r.terms.token) = 0
  BY <1>3, <1>4, PlainLists DEF GotTokens, Asked, IsDrafted, IsTransaction, Stated
<1>6. PaidKas(tx) <= r.terms.maximum
  BY <1>2, OwnCoins DEF BuyOk
<1> QED
  BY <1>1, <1>5, <1>6, FullySigned, Zenon DEF KasForgeKept

----------------------------------------------------------------------------
(* Braid.                                                                  *)
LEMMA BraidNotesHold ==
  ASSUME NEW place, NEW owner, NEW amount
  PROVE  LET script == PayToScriptHash(BraidNote(place, owner, amount))
         IN  Holds(script) /\ NoteOwner(script) = owner /\ NoteAmount(script) = amount
BY DEF PayToScriptHash, BraidNote, Note, Holds, Program, NoteOwner, NoteAmount

LEMMA ScriptsAreNotKeys == \A redeem : PayToScriptHash(redeem) # <<"pk", Key>>
BY DEF PayToScriptHash

LEMMA KasDeposits ==
  ASSUME NEW r, Asked(r), BraidDepositOk(r), r.terms.from = "KAS"
  PROVE  PaidKas(r.tx) = r.terms.payTotal
<1> DEFINE s == r.terms
           tx == r.tx
<1>1. tx.outs[s.coinIndex].script = PayToScriptHash(Router(s.terms))
      /\ AmountOf(tx.ins, OwnPlain(r, tx.ins)) - AmountOf(tx.outs, OwnPlain(r, tx.outs) \ {s.coinIndex}) = s.payTotal
  BY Zenon DEF BraidDepositOk
<1>2. s.coinIndex \notin OwnPlain(r, tx.outs)
  BY <1>1, OwnCoins, ScriptsAreNotKeys DEF OwnPlain
<1>3. OwnPlain(r, tx.outs) \ {s.coinIndex} = OwnPlain(r, tx.outs)
  BY <1>2
<1> QED
  BY <1>1, <1>3, OwnCoins DEF PaidKas

\* A sale locks the amount under the router and keeps the rest in one note.
LEMMA TokenDeposits ==
  ASSUME NEW r, Asked(r), BraidDepositOk(r), r.terms.from # "KAS"
  PROVE  -GotTokens(r.tx, r.terms.from) = r.terms.amountIn
         /\ OwnTokens(r.tx.outs, r.terms.from, ScriptOwner(Router(r.terms.terms))) = r.terms.amountIn
<1> DEFINE s == r.terms
           t == s.terms
           ins == r.tx.ins
           outs == r.tx.outs
           us == <<"key", Key>>
           them == ScriptOwner(Router(t))
           notes == BraidNotes(r, ins)
           coin == s.coinIndex
           lock == s.noteIndex
           returned == TokensOf(ins, notes) - s.amountIn
           change == {k \in DOMAIN outs \ ({coin} \cup {lock}) :
                        /\ outs[k].script = PayToScriptHash(BraidNote(t.in, KeyOwner(r), returned))
                        /\ outs[k].amount <= 5 * Deci}
           bound(k) == outs[k].covenant # NoCovenant /\ outs[k].covenant[1] = s.from /\ outs[k].covenant[2] \in notes
           own == OwnPlain(r, outs) \ {coin}
<1>1. /\ DOMAIN ins = OwnPlain(r, ins) \cup notes
      /\ Plain(outs[coin])
      /\ returned >= 0 /\ lock \in DOMAIN outs \ {coin}
      /\ outs[lock].script = PayToScriptHash(BraidNote(t.in, them, s.amountIn))
      /\ \A k \in {lock} \cup change : bound(k)
      /\ DOMAIN outs = own \cup change \cup {lock} \cup {coin}
      /\ Cardinality(change) = IF returned > 0 THEN 1 ELSE 0
  BY Zenon DEF BraidDepositOk
<1>2. IsList(ins) /\ IsList(outs) /\ Counted(ins) /\ Counted(outs)
  BY DEF Asked, IsDrafted, IsTransaction, Stated
<1>3. KeyOwner(r) = us /\ us # them
  BY OwnCoins DEF ScriptOwner
<1>4. NotesOf(ins, s.from, us) = notes
  <2>1. notes \subseteq NotesOf(ins, s.from, us)
    BY <1>3, BraidNotesHold DEF BraidNotes, NotesOf
  <2>2. \A k \in NotesOf(ins, s.from, us) : k \in DOMAIN ins /\ Of(ins[k], s.from)
    BY DEF NotesOf
  <2> HIDE DEF notes
  <2> QED
    BY <1>1, <2>1, <2>2, NotesAreNotPlain
<1>5. OwnTokens(ins, s.from, us) = TokensOf(ins, notes) /\ TokensOf(ins, notes) \in Int
  <2> HIDE DEF notes
  <2>1. OwnTokens(ins, s.from, us) = TokensOf(ins, notes)
    BY <1>4 DEF OwnTokens
  <2> QED
    BY <1>2, <2>1, NotesBelong
<1>6. Holds(outs[lock].script) /\ NoteOwner(outs[lock].script) = them /\ NoteAmount(outs[lock].script) = s.amountIn
      /\ Of(outs[lock], s.from)
  <2>1. LET script == PayToScriptHash(BraidNote(t.in, them, s.amountIn))
        IN  Holds(script) /\ NoteOwner(script) = them /\ NoteAmount(script) = s.amountIn
    BY BraidNotesHold, Zenon
  <2>2. bound(lock)
    BY <1>1
  <2> HIDE DEF them
  <2>3. Of(outs[lock], s.from)
    BY <2>2 DEF Of
  <2> QED
    BY <1>1, <2>1, <2>3, Zenon
<1>7. s.amountIn \in Int
  BY <1>1, <1>2, <1>6, Zenon DEF Counted
<1>8. \A k \in change : /\ k \in DOMAIN outs /\ k # lock /\ Of(outs[k], s.from) /\ Holds(outs[k].script)
                        /\ NoteOwner(outs[k].script) = us /\ NoteAmount(outs[k].script) = returned
  <2> TAKE k \in change
  <2>1. k \in DOMAIN outs /\ k # lock /\ outs[k].script = PayToScriptHash(BraidNote(t.in, us, returned))
    BY <1>3
  <2>2. bound(k)
    BY <1>1
  <2> HIDE DEF change, returned, us, them
  <2>3. LET script == PayToScriptHash(BraidNote(t.in, us, returned))
        IN  Holds(script) /\ NoteOwner(script) = us /\ NoteAmount(script) = returned
    BY BraidNotesHold, Zenon
  <2>4. Of(outs[k], s.from)
    BY <2>2 DEF Of
  <2> QED
    BY <2>1, <2>3, <2>4, Zenon
<1>9. \A k \in DOMAIN outs : Of(outs[k], s.from) => k \in change \cup {lock}
  <2> TAKE k \in DOMAIN outs
  <2> HAVE Of(outs[k], s.from)
  <2>1. k \notin OwnPlain(r, outs)
    BY NotesAreNotPlain
  <2>2. k # coin
    BY <1>1 DEF Of, Plain
  <2> HIDE DEF change
  <2> QED
    BY <1>1, <2>1, <2>2
<1> HIDE DEF notes, returned, change, them, us
<1>10. NotesOf(outs, s.from, us) = change /\ NotesOf(outs, s.from, them) = {lock}
  <2>1. \A owner : \A k \in NotesOf(outs, s.from, owner) : k \in DOMAIN outs /\ Of(outs[k], s.from)
                                                           /\ NoteOwner(outs[k].script) = owner
    BY DEF NotesOf
  <2>2. change \subseteq NotesOf(outs, s.from, us) /\ lock \in NotesOf(outs, s.from, them)
    BY <1>1, <1>6, <1>8 DEF NotesOf
  <2> QED
    BY <1>3, <1>6, <1>8, <1>9, <2>1, <2>2
<1>11. OwnTokens(outs, s.from, them) = s.amountIn
  BY <1>1, <1>2, <1>6, <1>10, NotesBelong
<1>12. OwnTokens(outs, s.from, us) = returned
  <2>1. IsFiniteSet(change)
    <3>1. Len(outs) \in Nat /\ change \subseteq 1 .. Len(outs)
      BY <1>2, <1>8, ListsHavePlaces
    <3>2. IsFiniteSet(1 .. Len(outs)) /\ change \in SUBSET (1 .. Len(outs))
      BY <3>1, FS_Interval
    <3> QED
      BY <3>2, FS_Subset
  <2>2. CASE returned > 0
    <3>1. PICK k : change = {k}
      BY <1>1, <2>1, <2>2, FS_Singleton
    <3> QED
      BY <1>2, <1>8, <1>10, <3>1, NotesBelong
  <2>3. CASE ~(returned > 0)
    <3>1. change = {} /\ returned = 0
      BY <1>1, <1>5, <1>7, <2>1, <2>3, FS_EmptySet DEF returned
    <3> QED
      BY <1>2, <1>10, <3>1, NotesBelong
  <2> QED
    BY <2>2, <2>3
<1>13. GotTokens(r.tx, s.from) = returned - TokensOf(ins, notes)
  BY <1>5, <1>12 DEF GotTokens, us
<1> QED
  BY <1>5, <1>7, <1>11, <1>13 DEF returned, them

LEMMA BraidDeposits ==
  ASSUME NEW r, Asked(r), r.profile = "braid-deposit", BraidOk(r)
  PROVE  FinalFeeKnown(Drafted(r)) /\ BraidKept(r.terms, r.tx)
<1>1. BraidDepositOk(r) /\ BraidTermsOk(r)
  BY DEF BraidOk, BraidReclaimOk
<1>2. AllSighashesAre(r, All) /\ r.terms.terms.refund = r.sender.key
  BY <1>1, Zenon DEF BraidTermsOk
<1>3. CASE r.terms.from = "KAS"
  <2>1. PaidKas(r.tx) <= r.terms.payTotal
    <3>1. PaidKas(r.tx) = r.terms.payTotal
      BY <1>1, <1>3, KasDeposits
    <3>2. IsList(r.tx.ins) /\ IsList(r.tx.outs) /\ Counted(r.tx.ins) /\ Counted(r.tx.outs)
      BY DEF Asked, IsDrafted, IsTransaction, Stated
    <3>3. OwnKas(r.tx.ins) \in Int /\ OwnKas(r.tx.outs) \in Int
      BY <3>2, AmountsAreNumbers DEF OwnKas
    <3> QED
      BY <3>1, <3>3 DEF PaidKas
  <2> QED
    BY <1>2, <1>3, <2>1, FullySigned DEF BraidKept, Asked
<1>4. CASE r.terms.from # "KAS"
  BY <1>1, <1>2, <1>4, TokenDeposits, FullySigned DEF BraidKept, Asked
<1> QED
  BY <1>3, <1>4

\* A reclaim takes everything back but the fee of the network.
LEMMA BraidReclaims ==
  ASSUME NEW r, Asked(r), r.profile = "braid-reclaim", BraidOk(r)
  PROVE  FinalFeeKnown(Drafted(r)) /\ BraidReturned(r.terms, r.tx)
<1> DEFINE s == r.terms
           ins == r.tx.ins
           outs == r.tx.outs
           us == <<"key", Key>>
           them == ScriptOwner(CoinProgram(s))
           token == InSide(s).asset # "KAS"
           ci == IF token THEN 2 ELSE 1
<1>1. BraidReclaimOk(r) /\ AllSighashesAre(r, All)
  BY Zenon DEF BraidOk, BraidDepositOk, BraidTermsOk
<1>2. /\ Fee(r.tx) \in 0 .. Deci \div 2
      /\ Len(ins) = ci /\ Len(outs) = ci
      /\ ins[ci].script = PayToScriptHash(CoinProgram(s)) /\ Plain(ins[ci])
      /\ ci \in OwnPlain(r, outs) /\ ins[ci].amount = s.depositValue
      /\ token => /\ ins[1].script = PayToScriptHash(BraidNote(InSide(s), them, s.amountIn))
                  /\ outs[1].covenant = <<s.from, 1>> /\ outs[1].amount = ins[1].amount
                  /\ outs[1].script = PayToScriptHash(BraidNote(InSide(s), us, s.amountIn))
  BY <1>1, OwnCoins, Zenon DEF BraidReclaimOk
<1>3. IsList(ins) /\ IsList(outs) /\ Counted(ins) /\ Counted(outs)
  BY DEF Asked, IsDrafted, IsTransaction, Stated
<1>4. DOMAIN ins = 1 .. ci /\ DOMAIN outs = 1 .. ci /\ us # them
  BY <1>2, <1>3, ListsHavePlaces DEF ScriptOwner
<1>5. Plain(outs[ci]) /\ outs[ci].script = <<"pk", Key>>
  BY <1>2, OwnCoins DEF OwnPlain
<1>6. ins[ci].script # <<"pk", Key>> /\ (token => ins[1].script # <<"pk", Key>>)
  BY <1>2, ScriptsAreNotKeys, Zenon
<1>7. token => ~Plain(outs[1]) /\ Of(outs[1], s.from)
  <2>1. <<s.from, 1>> # NoCovenant
    BY DEF NoCovenant
  <2> QED
    BY <1>2, <2>1 DEF Plain, Of
<1> HIDE DEF them, us, token
<1>8. OwnKas(ins) = 0
  <2>1. \A k \in DOMAIN ins : ins[k].script # <<"pk", Key>>
    <3> TAKE k \in DOMAIN ins
    <3>1. k = ci \/ (token /\ k = 1)
      <4>1. k \in 1 .. ci
        BY <1>4
      <4> QED
        BY <4>1
    <3>2. ASSUME k = ci PROVE ins[k].script # <<"pk", Key>>
      BY <1>6, <3>2
    <3>3. ASSUME token, k = 1 PROVE ins[k].script # <<"pk", Key>>
      BY <1>6, <3>3
    <3> QED
      BY <3>1, <3>2, <3>3
  <2> QED
    BY <1>3, <2>1, KasBelongs
<1>9. OwnKas(outs) = outs[ci].amount
  BY <1>3, <1>4, <1>5, <1>7, KasBelongs
<1>10. -PaidKas(r.tx) >= s.depositValue - Deci
  <2>1. \A k \in 1 .. ci : ins[k].amount \in Int /\ outs[k].amount \in Int
    BY <1>3, <1>4, Zenon DEF Counted
  <2>2. TotalOf(ins) - TotalOf(outs) = ins[ci].amount - outs[ci].amount
    <3>1. CASE token
      <4>1. TotalOf(ins) = ins[1].amount + ins[2].amount /\ TotalOf(outs) = outs[1].amount + outs[2].amount
        BY <1>2, <1>3, <3>1, ShortTotals
      <4> QED
        BY <1>2, <2>1, <3>1, <4>1
    <3>2. CASE ~token
      BY <1>2, <1>3, <3>2, ShortTotals
    <3> QED
      BY <3>1, <3>2
  <2>3. Deci \div 2 \in Int /\ Deci \div 2 <= Deci /\ Deci \in Int
    BY BraidAssumption
  <2>4. Fee(r.tx) = ins[ci].amount - outs[ci].amount
    BY <2>2 DEF Fee
  <2>5. PaidKas(r.tx) = 0 - outs[ci].amount
    BY <1>8, <1>9 DEF PaidKas
  <2>6. s.depositValue \in Int /\ outs[ci].amount \in Int /\ s.depositValue - outs[ci].amount <= Deci
    BY <1>2, <2>1, <2>3, <2>4
  <2> QED
    BY <2>3, <2>5, <2>6
<1>11. ASSUME token PROVE GotTokens(r.tx, s.from) = s.amountIn
  <2>1. Holds(outs[1].script) /\ NoteOwner(outs[1].script) = us /\ NoteAmount(outs[1].script) = s.amountIn
        /\ NoteOwner(ins[1].script) = them
    BY <1>2, <1>11, BraidNotesHold
  <2>2. ~Of(ins[2], s.from) /\ ~Of(outs[2], s.from)
    BY <1>2, <1>5, <1>11 DEF Of, Plain
  <2>3. NotesOf(ins, s.from, us) = {}
    BY <1>4, <1>11, <2>1, <2>2 DEF NotesOf
  <2>4. NotesOf(outs, s.from, us) = {1}
    BY <1>4, <1>7, <1>11, <2>1, <2>2 DEF NotesOf
  <2>5. OwnTokens(ins, s.from, us) = 0 /\ OwnTokens(outs, s.from, us) = s.amountIn /\ OwnTokens(outs, s.from, us) \in Int
    BY <1>3, <1>4, <2>1, <2>3, <2>4, NotesBelong
  <2> QED
    BY <2>5 DEF GotTokens, us
<1> QED
  BY <1>1, <1>10, <1>11, FullySigned DEF BraidReturned, token

----------------------------------------------------------------------------
(* KForge.  The trade itself: a buy brings the venue what it costs, a sale *)
(* takes from it what it yields.                                           *)
LEMMA Owed ==
  ASSUME NEW venue, "value" \in DOMAIN venue, NEW tokens, NEW kas, NEW fee, NEW burn
  PROVE  LET x == Trade(venue, tokens, kas, fee, burn)
         IN  x.venue.value = venue.value /\ x.tokens = tokens /\ x.kas = kas /\ x.fee = fee /\ x.burn = burn
BY DEF Trade, Owe

LEMMA PoolTrades ==
  ASSUME NEW v \in Tallies, NEW buy \in BOOLEAN, NEW amount \in Int, amount > 0, PoolTrade(v, buy, amount).ok
  PROVE  LET x == PoolTrade(v, buy, amount)
         IN  /\ x.kas \in Int /\ x.fee \in Int /\ x.burn = 0
             /\ buy => x.venue.value = v.value + x.kas + x.fee
             /\ ~buy => x.venue.value = v.value - x.kas /\ x.tokens = amount
<1> DEFINE bought == (amount * v.tokens) \div (v.kas + amount)
           gross == (v.kas * amount) \div (v.tokens + amount)
           fee == Percent(IF buy THEN amount ELSE gross)
           up == [v EXCEPT !.kas = @ + amount, !.tokens = @ - bought, !.value = @ + amount + fee]
           down == [v EXCEPT !.kas = @ - gross, !.tokens = @ + amount, !.value = @ - (gross - fee)]
<1>1. PoolTrade(v, buy, amount) = IF buy THEN Trade(up, bought, amount, fee, 0) ELSE Trade(down, amount, gross - fee, fee, 0)
  BY DEF PoolTrade, NoTrade
<1>2. v.kas \in Nat /\ v.tokens \in Nat /\ v.value \in Nat
  BY DEF Tallies
<1>3. gross \in Int
  <2>1. v.kas * amount \in Int /\ v.tokens + amount \in Nat \ {0}
    BY <1>2
  <2> QED
    BY <2>1
<1> HIDE DEF gross, bought
<1>4. fee \in Int
  BY <1>3 DEF Percent
<1> HIDE DEF fee
<1>5. /\ "value" \in DOMAIN up /\ up.value = v.value + amount + fee
      /\ "value" \in DOMAIN down /\ down.value = v.value - (gross - fee)
  BY DEF Tallies
<1> HIDE DEF up, down
<1>6. CASE buy
  <2>1. PoolTrade(v, buy, amount) = Trade(up, bought, amount, fee, 0)
    BY <1>1, <1>6
  <2>2. LET x == PoolTrade(v, buy, amount)
        IN  x.venue.value = v.value + amount + fee /\ x.kas = amount /\ x.fee = fee /\ x.burn = 0
    BY <1>5, <2>1, Owed
  <2> QED
    BY <1>2, <1>4, <1>6, <2>2
<1>7. CASE ~buy
  <2>1. PoolTrade(v, buy, amount) = Trade(down, amount, gross - fee, fee, 0)
    BY <1>1, <1>7
  <2> QED
    BY <1>2, <1>3, <1>4, <1>5, <1>7, <2>1, Owed
<1> QED
  BY <1>6, <1>7

LEMMA CurveTrades ==
  ASSUME NEW v \in Tallies, NEW buy \in BOOLEAN, NEW amount \in Int, amount > 0, CurveTrade(v, buy, amount).ok
  PROVE  LET x == CurveTrade(v, buy, amount)
         IN  /\ x.kas \in Int /\ x.fee \in Int /\ x.burn \in Nat
             /\ buy => x.venue.value = v.value + x.kas
             /\ ~buy => x.venue.value = v.value - x.kas /\ x.tokens = amount
<1>1. v.sold \in Nat /\ v.value \in Nat
  BY DEF Tallies
<1>2. \A n \in Int : Percent(n) \in Int
  BY DEF Percent
<1>3. ASSUME NEW start \in Int PROVE CurveValue(start, amount) \in Int
  BY KForgeAssumption DEF CurveValue
<1>4. ASSUME NEW sold, NEW value
      PROVE  "value" \in DOMAIN CurveMoved(v, sold, value) /\ CurveMoved(v, sold, value).value = value
  BY DEF CurveMoved, Tallies
<1>5. CASE buy
  <2> DEFINE paid == CurveValue(v.sold, amount)
  <2>1. CurveTrade(v, buy, amount) = Trade(CurveMoved(v, v.sold + amount, v.value + paid), amount - Percent(amount), paid,
                                           Percent(paid), Percent(amount))
    BY <1>5 DEF CurveTrade, CurveBuy, NoTrade
  <2>2. paid \in Int
    BY <1>1, <1>3
  <2> HIDE DEF paid
  <2>3. Percent(amount) \in Nat
    BY DEF Percent
  <2>4. LET x == CurveTrade(v, buy, amount)
        IN  x.venue.value = v.value + paid /\ x.kas = paid /\ x.fee = Percent(paid) /\ x.burn = Percent(amount)
    BY <1>4, <2>1, Owed
  <2> QED
    BY <1>2, <1>5, <2>2, <2>3, <2>4
<1>6. CASE ~buy
  <2> DEFINE whole == CurveValue(v.sold - amount, amount)
             released == whole - Percent(whole)
  <2>1. CurveTrade(v, buy, amount)
        = Trade(CurveMoved(v, v.sold - amount, v.value - (released - Percent(released))), amount,
                released - Percent(released), Percent(released), 0)
    BY <1>6 DEF CurveTrade, CurveSale, NoTrade
  <2>2. released \in Int
    BY <1>1, <1>2, <1>3
  <2> HIDE DEF released
  <2> QED
    BY <1>1, <1>2, <1>4, <1>6, <2>1, <2>2, Owed
<1> QED
  BY <1>5, <1>6

LEMMA TradesMoveTheVenue ==
  ASSUME NEW v \in Tallies, NEW buy \in BOOLEAN, NEW amount \in Int, Traded(v, buy, amount).ok
  PROVE  LET x == Traded(v, buy, amount)
         IN  /\ x.tokens \in 1 .. Lots /\ x.kas \in Int /\ x.fee \in Int /\ x.burn \in Nat
             /\ buy => x.venue.value = v.value + x.kas + (IF v.pool THEN x.fee ELSE 0)
             /\ ~buy => x.venue.value = v.value - x.kas /\ x.tokens = amount
<1> DEFINE x == IF v.pool THEN PoolTrade(v, buy, amount) ELSE CurveTrade(v, buy, amount)
<1>1. amount > 0 /\ x.ok /\ x.tokens \in 1 .. Lots /\ Traded(v, buy, amount) = x
  BY DEF Traded, Sound, NoTrade
<1>2. v.value \in Nat
  BY DEF Tallies
<1>3. CASE v.pool
  BY <1>1, <1>2, <1>3, PoolTrades
<1>4. CASE ~v.pool
  BY <1>1, <1>2, <1>4, CurveTrades
<1> QED
  BY <1>3, <1>4

\* The one input the core signs of a KForge draft, it signs as a whole.
LEMMA KForgeIsFullySigned ==
  ASSUME NEW r, Asked(r), r.profile = "kforge", KForgeOk(r)
  PROVE  FinalFeeKnown(Drafted(r))
<1> DEFINE d == Drafted(r)
<1>1. d.signInputs = r.signInputs /\ d.scripts = IF r.terms.buy THEN <<>> ELSE <<OwnNoteScript(r)>>
  BY DEF Drafted, Expand, Asked, Stated
<1>2. Len(r.signInputs) = 1 /\ r.signInputs[1].hash = All /\ r.signInputs[1].index = SelectedIn(r)
  BY Zenon DEF KForgeOk, KForgeHeader
<1>3. Elements(d.signInputs) = {r.signInputs[1]}
  <2>1. DOMAIN r.signInputs = 1 .. 1
    BY <1>2, ListsHavePlaces DEF Asked, Stated
  <2> QED
    BY <1>1, <2>1 DEF Elements
<1>4. Scripted(d) \subseteq {SelectedIn(r)}
  <2>1. CASE r.terms.buy
    BY <1>1, <2>1 DEF Scripted, Elements
  <2>2. CASE ~r.terms.buy
    <3>1. Elements(d.scripts) = {OwnNoteScript(r)}
      BY <1>1, <2>2 DEF Elements
    <3>2. OwnNoteScript(r).index = 2 /\ SelectedIn(r) = 2
      BY <2>2 DEF OwnNoteScript, SelectedIn
    <3> QED
      BY <3>1, <3>2 DEF Scripted
  <2> QED
    BY <2>1, <2>2
<1> HIDE DEF d
<1>5. Chosen(d) = {SelectedIn(r)}
  BY <1>2, <1>3 DEF Chosen
<1>6. ChosenHash(d, SelectedIn(r)) = All
  BY <1>2, <1>3 DEF ChosenHash
<1>7. \A i \in Selected(d) : i = SelectedIn(r) /\ i \in Chosen(d)
  BY <1>4, <1>5 DEF Selected
<1> QED
  BY <1>6, <1>7 DEF FinalFeeKnown, AllSighashesAre, SighashOf, d

LEMMA Joined ==
  ASSUME NEW a, NEW b, NEW c
  PROVE  /\ LET x == <<a>> \o <<>> IN Len(x) = 1 /\ x[1] = a
         /\ LET x == <<a>> \o <<b>> IN Len(x) = 2 /\ x[1] = a /\ x[2] = b
         /\ LET x == <<a>> \o <<>> \o <<b>> IN Len(x) = 2 /\ x[1] = a /\ x[2] = b
         /\ LET x == <<a>> \o <<b>> \o <<c>> IN Len(x) = 3 /\ x[1] = a /\ x[2] = b /\ x[3] = c
<1> DEFINE S == {a, b, c}
<1>1. <<a>> \in Seq(S) /\ <<b>> \in Seq(S) /\ <<c>> \in Seq(S) /\ <<>> \in Seq(S)
  OBVIOUS
<1> HIDE DEF S
<1>2. LET x == <<a>> \o <<>> IN x \in Seq(S) /\ Len(x) = 1 /\ x[1] = a
  BY <1>1
<1>3. LET x == <<a>> \o <<b>> IN x \in Seq(S) /\ Len(x) = 2 /\ x[1] = a /\ x[2] = b
  BY <1>1
<1>4. LET x == <<a>> \o <<>> \o <<b>> IN Len(x) = 2 /\ x[1] = a /\ x[2] = b
  BY <1>1, <1>2
<1>5. LET x == <<a>> \o <<b>> \o <<c>> IN Len(x) = 3 /\ x[1] = a /\ x[2] = b /\ x[3] = c
  BY <1>1, <1>3
<1> QED
  BY <1>2, <1>3, <1>4, <1>5

\* The notes of a KForge draft, and what is not one of the wallet's.
LEMMA CellsHold ==
  /\ \A owner, tokens, policy :
       LET script == PayToScriptHash(Note(owner, tokens, policy))
       IN  Holds(script) /\ NoteOwner(script) = owner /\ NoteAmount(script) = tokens
  /\ \A t, v : ~Holds(PayToScriptHash(VenueProgram(t, v)))
  /\ \A redeem : PayToScriptHash(redeem) # <<"pk", Key>>
  /\ \A a, b : <<a, b>> # NoCovenant
<1>1. \A owner, tokens, policy :
        LET script == PayToScriptHash(Note(owner, tokens, policy))
        IN  Holds(script) /\ NoteOwner(script) = owner /\ NoteAmount(script) = tokens
  BY DEF PayToScriptHash, Note, Holds, Program, NoteOwner, NoteAmount
<1>2. \A t, v : ~Holds(PayToScriptHash(VenueProgram(t, v)))
  BY DEF PayToScriptHash, VenueProgram, Holds, Program
<1>3. \A redeem : PayToScriptHash(redeem) # <<"pk", Key>>
  BY DEF PayToScriptHash
<1>4. \A a, b : <<a, b>> # NoCovenant
  BY DEF NoCovenant
<1> QED
  BY <1>1, <1>2, <1>3, <1>4

\* What the inputs of the draft amount to.
LEMMA KForgeInputs ==
  ASSUME NEW r, Asked(r), r.profile = "kforge", KForgeOk(r)
  PROVE  LET t == r.terms
             ins == r.tx.ins
             funds == IF t.buy THEN ins[Len(ins)].amount ELSE 0
         IN  /\ ~t.buy => HasOwn(r)
             /\ OwnKas(ins) = funds /\ funds \in Int
             /\ TotalOf(ins) = t.venue.value + (IF HasOwn(r) THEN t.note.cell ELSE 0) + Cell + funds
             /\ OwnTokens(ins, t.token, <<"key", Key>>) = t.note.tokens
<1> DEFINE t == r.terms
           ins == r.tx.ins
           us == <<"key", Key>>
           them == CovenantOwner(t.market)
           res == ReserveIn(r)
<1>1. t.venue \in Tallies /\ t.note \in NoteTallies /\ t.buy \in BOOLEAN
  BY DEF Asked, Stated, TermsStated
<1>2. IsList(ins) /\ Counted(ins) /\ DOMAIN ins = 1 .. Len(ins) /\ \A k \in DOMAIN ins : ins[k].amount \in Int
  <2>1. IsList(ins) /\ Counted(ins)
    BY DEF Asked, IsDrafted, IsTransaction, Stated
  <2>2. \A k \in DOMAIN ins : ins[k].amount \in Int
    BY <2>1, Zenon DEF Counted
  <2> QED
    BY <2>1, <2>2, ListsHavePlaces
<1>3. /\ Len(ins) \in 3 .. 4 /\ Len(ins) = (IF t.buy THEN 3 ELSE 2) + (IF HasOwn(r) THEN 1 ELSE 0)
      /\ res = IF HasOwn(r) THEN 3 ELSE 2
  BY Zenon DEF KForgeOk, KForgeHeader, ReserveIn
<1>4. /\ Of(ins[1], t.market) /\ ~Holds(ins[1].script) /\ ins[1].amount = t.venue.value
      /\ HasOwn(r) => /\ Of(ins[2], t.token) /\ ins[2].amount = t.note.cell /\ Holds(ins[2].script)
                      /\ NoteOwner(ins[2].script) = us /\ NoteAmount(ins[2].script) = t.note.tokens
      /\ Of(ins[res], t.token) /\ ins[res].amount = Cell /\ NoteOwner(ins[res].script) = them
      /\ t.buy => Plain(ins[Len(ins)]) /\ ins[Len(ins)].script = <<"pk", Key>>
  <2>1. KForgeInputsOk(r)
    BY DEF KForgeOk
  <2> QED
    BY <2>1, OwnCoins, CellsHold DEF KForgeInputsOk, OwnCell, VenueCell, OwnPlain
<1>5. us # them
  BY DEF CovenantOwner
<1>6. ~HasOwn(r) => t.note.tokens = 0
  BY DEF HasOwn, NoNote
<1>7. \A k \in DOMAIN ins : Of(ins[k], t.token) \/ Of(ins[k], t.market) => ~Plain(ins[k])
  BY DEF Of, Plain
<1> HIDE DEF us, them, t, ins
<1>8. OwnKas(ins) = IF t.buy THEN ins[Len(ins)].amount ELSE 0
  <2>1. \A k \in DOMAIN ins : k # Len(ins) \/ ~t.buy => ~Plain(ins[k])
    <3>1. \A k \in DOMAIN ins : k # Len(ins) \/ ~t.buy => k = 1 \/ k = res \/ (HasOwn(r) /\ k = 2)
      BY <1>1, <1>2, <1>3
    <3> QED
      BY <1>4, <1>7, <3>1
  <2>2. CASE t.buy
    BY <1>2, <1>3, <1>4, <2>1, <2>2, KasBelongs
  <2>3. CASE ~t.buy
    BY <1>2, <2>1, <2>3, KasBelongs
  <2> QED
    BY <2>2, <2>3
<1>9. TotalOf(ins) = t.venue.value + (IF HasOwn(r) THEN t.note.cell ELSE 0) + Cell
                     + (IF t.buy THEN ins[Len(ins)].amount ELSE 0)
  <2>1. t.venue.value \in Int /\ t.note.cell \in Int /\ Cell \in Int
    BY <1>1, KForgeAssumption DEF Tallies, NoteTallies
  <2>2. CASE t.buy /\ ~HasOwn(r)
    <3>1. Len(ins) = 3 /\ res = 2
      BY <1>3, <2>2
    <3>2. TotalOf(ins) = ins[1].amount + ins[2].amount + ins[3].amount
      BY <1>2, <3>1, ShortTotals
    <3>3. ins[1].amount = t.venue.value /\ ins[2].amount = Cell /\ ins[3].amount \in Int
      BY <1>2, <1>4, <3>1
    <3> QED
      BY <2>1, <2>2, <3>1, <3>2, <3>3
  <2>3. CASE ~t.buy /\ HasOwn(r)
    <3>1. Len(ins) = 3 /\ res = 3
      BY <1>3, <2>3
    <3>2. TotalOf(ins) = ins[1].amount + ins[2].amount + ins[3].amount
      BY <1>2, <3>1, ShortTotals
    <3>3. ins[1].amount = t.venue.value /\ ins[2].amount = t.note.cell /\ ins[3].amount = Cell
      BY <1>4, <2>3, <3>1
    <3> QED
      BY <2>1, <2>3, <3>2, <3>3
  <2>4. CASE t.buy /\ HasOwn(r)
    <3>1. Len(ins) = 4 /\ res = 3
      BY <1>3, <2>4
    <3>2. TotalOf(ins) = ins[1].amount + ins[2].amount + ins[3].amount + ins[4].amount
      BY <1>2, <3>1, ShortTotals
    <3>3. ins[1].amount = t.venue.value /\ ins[2].amount = t.note.cell /\ ins[3].amount = Cell /\ ins[4].amount \in Int
      BY <1>2, <1>4, <2>4, <3>1
    <3> QED
      BY <2>1, <2>4, <3>1, <3>2, <3>3
  <2>5. ~(~t.buy /\ ~HasOwn(r))
    BY <1>3
  <2> QED
    BY <2>2, <2>3, <2>4, <2>5
<1>10. OwnTokens(ins, t.token, us) = t.note.tokens
  <2> DEFINE S == NotesOf(ins, t.token, us)
  <2>1. \A k \in S : k \in DOMAIN ins /\ ~Plain(ins[k]) /\ Holds(ins[k].script) /\ NoteOwner(ins[k].script) = us
    BY <1>7 DEF NotesOf
  <2>2. 1 \notin S /\ res \notin S /\ (t.buy => Len(ins) \notin S)
    BY <1>4, <1>5, <2>1
  <2>3. HasOwn(r) => 2 \in S
    BY <1>2, <1>3, <1>4 DEF NotesOf
  <2> HIDE DEF S
  <2>4. S = IF HasOwn(r) THEN {2} ELSE {}
    <3>1. \A k \in DOMAIN ins : k = 1 \/ k = res \/ (HasOwn(r) /\ k = 2) \/ (t.buy /\ k = Len(ins))
      BY <1>1, <1>2, <1>3
    <3> QED
      BY <2>1, <2>2, <2>3, <3>1
  <2>5. CASE HasOwn(r)
    BY <1>2, <1>3, <1>4, <2>4, <2>5, NotesBelong DEF S
  <2>6. CASE ~HasOwn(r)
    BY <1>2, <1>6, <2>4, <2>6, NotesBelong DEF S
  <2> QED
    BY <2>5, <2>6
<1> QED
  BY <1>2, <1>3, <1>8, <1>9, <1>10 DEF t, ins, us

\* What becomes of the wallet's note in a trade.
NoteMoves(note, buy, x, m) ==
  /\ m.tokens = (IF buy THEN note.tokens + x.tokens ELSE note.tokens - x.tokens) /\ m.tokens \in Nat
  /\ m = NoNote <=> ~buy /\ note.tokens = x.tokens
  /\ m.cell = IF m = NoNote THEN 0 ELSE IF buy /\ note.tokens = 0 THEN Cell ELSE note.cell

LEMMA NotesChange ==
  ASSUME NEW note \in NoteTallies, NEW buy \in BOOLEAN, NEW x, x.tokens \in 1 .. Lots, ~buy => note.tokens >= x.tokens,
         NEW m \in NotesAfter(note, buy, x)
  PROVE  NoteMoves(note, buy, x, m)
<1>1. note.tokens \in Nat /\ note.cell \in Nat /\ x.tokens \in Nat \ {0}
  BY KForgeAssumption DEF NoteTallies
<1>2. NoNote.tokens = 0 /\ NoNote.cell = 0
  BY DEF NoNote
<1>3. ASSUME NEW tokens, NEW new \in NewNotes(tokens)
      PROVE  new.tokens = tokens /\ new.cell = Cell
             /\ [new EXCEPT !.cell = note.cell].tokens = tokens /\ [new EXCEPT !.cell = note.cell].cell = note.cell
  BY DEF NewNotes
<1>4. CASE buy /\ note.tokens = 0
  <2>1. NotesAfter(note, buy, x) = NewNotes(x.tokens)
    BY <1>4, Zenon DEF NotesAfter
  <2>2. m.tokens = x.tokens /\ m.cell = Cell
    BY <1>3, <2>1
  <2> QED
    BY <1>1, <1>2, <1>4, <2>2 DEF NoteMoves
<1>5. CASE buy /\ note.tokens # 0
  <2>1. NotesAfter(note, buy, x) = {[note EXCEPT !.tokens = @ + x.tokens]}
    BY <1>5, Zenon DEF NotesAfter
  <2>2. m.tokens = note.tokens + x.tokens /\ m.cell = note.cell
    BY <2>1 DEF NoteTallies
  <2> QED
    BY <1>1, <1>2, <1>5, <2>2 DEF NoteMoves
<1>6. CASE ~buy /\ note.tokens = x.tokens
  <2>1. NotesAfter(note, buy, x) = {NoNote}
    BY <1>6, Zenon DEF NotesAfter
  <2> QED
    BY <1>1, <1>2, <1>6, <2>1 DEF NoteMoves
<1>7. CASE ~buy /\ note.tokens # x.tokens
  <2> DEFINE returned == note.tokens - x.tokens
  <2>1. NotesAfter(note, buy, x) = {[n EXCEPT !.cell = note.cell] : n \in NewNotes(returned)}
    BY <1>7, Zenon DEF NotesAfter
  <2>2. PICK new \in NewNotes(returned) : m = [new EXCEPT !.cell = note.cell]
    BY <2>1
  <2>3. returned \in Nat \ {0}
    BY <1>1, <1>7
  <2> HIDE DEF returned
  <2>4. m.tokens = returned /\ m.cell = note.cell
    BY <1>3, <2>2
  <2> QED
    BY <1>2, <1>7, <2>3, <2>4 DEF returned, NoteMoves
<1> QED
  BY <1>4, <1>5, <1>6, <1>7

LEMMA TwoNotes ==
  ASSUME NEW list, IsList(list), Counted(list), Len(list) = 5, NEW id, NEW owner, NotesOf(list, id, owner) = {2, 3}
  PROVE  OwnTokens(list, id, owner) = NoteAmount(list[2].script) + NoteAmount(list[3].script)
<1> DEFINE S == NotesOf(list, id, owner)
           a == [i \in DOMAIN list |-> IF i \in S THEN NoteAmount(list[i].script) ELSE 0]
<1>1. DOMAIN list = 1 .. 5
  BY ListsHavePlaces
<1>2. NoteAmount(list[2].script) \in Int /\ NoteAmount(list[3].script) \in Int
  <2>1. Holds(list[2].script) /\ Holds(list[3].script) /\ 2 \in DOMAIN list /\ 3 \in DOMAIN list
    BY DEF NotesOf
  <2> QED
    BY <2>1, Zenon DEF Counted
<1>3. Len(a) = 5 /\ a[1] = 0 /\ a[2] = NoteAmount(list[2].script) /\ a[3] = NoteAmount(list[3].script)
      /\ a[4] = 0 /\ a[5] = 0
  BY <1>1
<1>4. OwnTokens(list, id, owner) = SumOf(a)
  BY DEF OwnTokens, TokensOf
<1> HIDE DEF a
<1>5. Len(a) \in 1 .. 5 /\ \A k \in 1 .. Len(a) : a[k] \in Int
  BY <1>2, <1>3
<1>6. SumOf(a) = a[1] + a[2] + a[3] + a[4] + a[5]
  BY <1>3, <1>5, ShortSums
<1> QED
  BY <1>2, <1>3, <1>4, <1>6

LEMMA PlacesOfParts ==
  ASSUME NEW list, NEW first \in Nat \ {0}, NEW part, Len(part) \in 1 .. 3,
         SubSeq(list, first, first + Len(part) - 1) = part
  PROVE  \A i \in 1 .. Len(part) : list[first + i - 1] = part[i]
<1>1. SubSeq(list, first, first + Len(part) - 1)
      = [i \in 1 .. 1 + (first + Len(part) - 1) - first |-> list[i + first - 1]]
  BY DEF SubSeq
<1>2. ASSUME NEW i \in 1 .. Len(part) PROVE part[i] = list[first + i - 1]
  <2>1. i \in 1 .. 1 + (first + Len(part) - 1) - first /\ i + first - 1 = first + i - 1
    OBVIOUS
  <2> QED
    BY <1>1, <2>1
<1> QED
  BY <1>2

\* The outputs of the draft: the venue, the wallet's note unless a sale
\* empties it, the burnt tokens of a curve, the venue's note and the rest.
LEMMA KForgeOutputs ==
  ASSUME NEW r, Asked(r), r.profile = "kforge", KForgeOk(r), TheTrade(r).tokens \in 1 .. Lots, TheTrade(r).burn \in Nat,
         ~r.terms.buy => r.terms.note.tokens >= TheTrade(r).tokens
  PROVE  LET t == r.terms
             outs == r.tx.outs
             x == TheTrade(r)
             burns == t.buy /\ ~t.venue.pool
             rest == outs[IF t.buy THEN Len(outs) ELSE 2].amount
         IN  \E m \in NotesAfter(t.note, t.buy, x) :
               /\ OwnKas(outs) = rest /\ rest \in Int /\ x.venue.value \in Int
               /\ TotalOf(outs) = x.venue.value + m.cell + (IF burns THEN Cell ELSE 0) + Cell + rest
               /\ OwnTokens(outs, t.token, <<"key", Key>>) >= m.tokens
               /\ ~t.buy => OwnTokens(outs, t.token, <<"key", Key>>) = m.tokens
<1> DEFINE t == r.terms
           outs == r.tx.outs
           x == TheTrade(r)
           us == <<"key", Key>>
           them == CovenantOwner(t.market)
           burns == t.buy /\ ~t.venue.pool
           first == IF t.buy THEN 2 ELSE 3
           last == IF t.buy THEN Len(outs) ELSE 2
           reserve == [script |-> VenueCell(r, x.venue.tokens), amount |-> Cell, covenant |-> <<t.token, 2>>]
           burnt == [script |-> BurnCell(x.burn), amount |-> Cell, covenant |-> <<t.token, 2>>]
           mine(m) == [script |-> OwnCell(r, m), amount |-> m.cell, covenant |-> <<t.token, 2>>]
           S == NotesOf(outs, t.token, us)
<1>1. t.venue \in Tallies /\ t.note \in NoteTallies /\ t.buy \in BOOLEAN
  BY DEF Asked, Stated, TermsStated
<1>2. IsList(outs) /\ Counted(outs) /\ DOMAIN outs = 1 .. Len(outs) /\ \A k \in DOMAIN outs : outs[k].amount \in Int
  <2>1. IsList(outs) /\ Counted(outs)
    BY DEF Asked, IsDrafted, IsTransaction, Stated
  <2>2. \A k \in DOMAIN outs : outs[k].amount \in Int
    BY <2>1, Zenon DEF Counted
  <2> QED
    BY <2>1, <2>2, ListsHavePlaces
<1>3. Len(outs) \in 3 .. 5
  BY Zenon DEF KForgeOk, KForgeHeader
<1>4. KForgeOutputsOk(r, x)
  BY Zenon DEF KForgeOk
<1>5. outs[1].amount = x.venue.value /\ ~Plain(outs[1]) /\ ~Holds(outs[1].script)
  BY <1>4, CellsHold DEF KForgeOutputsOk, Plain
<1>6. Plain(outs[last]) /\ outs[last].script = <<"pk", Key>>
  BY <1>4, OwnCoins DEF KForgeOutputsOk, OwnPlain
<1>7. PICK m \in NotesAfter(t.note, t.buy, x) : TokensAt(outs, first, TokenOuts(r, x, m))
  BY <1>4, Zenon DEF KForgeOutputsOk
<1>8. /\ m.tokens \in Nat /\ (m = NoNote <=> ~t.buy /\ t.note.tokens = x.tokens)
      /\ m.cell \in Nat /\ (m = NoNote => m.cell = 0 /\ m.tokens = 0)
  <2>1. NoNote.tokens = 0
    BY DEF NoNote
  <2>2. t.note.cell \in Nat /\ Cell \in Nat
    BY <1>1, KForgeAssumption DEF NoteTallies
  <2> QED
    BY <1>1, <1>7, <2>1, <2>2, NotesChange DEF NoteMoves
<1>9. /\ ~Plain(reserve) /\ NoteOwner(reserve.script) = them /\ us # them
      /\ ~Plain(burnt) /\ NoteAmount(burnt.script) = x.burn
      /\ ~Plain(mine(m)) /\ Of(mine(m), t.token) /\ Holds(mine(m).script) /\ NoteOwner(mine(m).script) = us
      /\ NoteAmount(mine(m).script) = m.tokens
  BY CellsHold, OwnCoins DEF Plain, Of, VenueCell, BurnCell, OwnCell, CovenantOwner
<1>10. Cell \in Nat
  BY KForgeAssumption
<1>11. \A k \in S : /\ k \in DOMAIN outs /\ ~Plain(outs[k]) /\ Holds(outs[k].script) /\ NoteOwner(outs[k].script) = us
  BY DEF NotesOf, Of, Plain
<1>12. Len(outs) = Len(TokenOuts(r, x, m)) + 2
       /\ SubSeq(outs, first, first + Len(TokenOuts(r, x, m)) - 1) = TokenOuts(r, x, m)
  BY <1>7 DEF TokensAt
<1>13. TokenOuts(r, x, m) = IF t.buy THEN (IF m = NoNote THEN <<>> ELSE <<mine(m)>>) \o (IF burns THEN <<burnt>> ELSE <<>>) \o <<reserve>>
                            ELSE <<reserve>> \o (IF m = NoNote THEN <<>> ELSE <<mine(m)>>)
  BY DEF TokenOuts
<1> HIDE DEF t, outs, x, us, them, reserve, burnt, mine, S
<1> DEFINE Good(rest) ==
             /\ OwnKas(outs) = rest /\ rest \in Int /\ x.venue.value \in Int
             /\ TotalOf(outs) = x.venue.value + m.cell + (IF burns THEN Cell ELSE 0) + Cell + rest
             /\ OwnTokens(outs, t.token, us) >= m.tokens
             /\ ~t.buy => OwnTokens(outs, t.token, us) = m.tokens
<1>14. x.venue.value \in Int
  BY <1>2, <1>3, <1>5
<1>15. ASSUME t.buy /\ ~burns PROVE Good(outs[last].amount)
  <2>1. TokenOuts(r, x, m) = <<mine(m)>> \o <<>> \o <<reserve>>
    BY <1>8, <1>13, <1>15
  <2>2. Len(outs) = 4 /\ outs[2] = mine(m) /\ outs[3] = reserve
    BY <1>12, <1>15, <2>1, Joined, PlacesOfParts
  <2>3. \A k \in DOMAIN outs : k = 1 \/ k = 2 \/ k = 3 \/ k = 4
    BY <1>2, <2>2
  <2>4. OwnKas(outs) = outs[4].amount
    <3>1. \A k \in DOMAIN outs \ {4} : ~Plain(outs[k])
      BY <1>5, <1>9, <2>2, <2>3
    <3> QED
      BY <1>2, <1>6, <1>15, <2>2, <3>1, KasBelongs
  <2>5. TotalOf(outs) = x.venue.value + m.cell + Cell + outs[4].amount
    <3>1. TotalOf(outs) = outs[1].amount + outs[2].amount + outs[3].amount + outs[4].amount
      BY <1>2, <2>2, ShortTotals
    <3>2. outs[2].amount = m.cell /\ outs[3].amount = Cell /\ outs[4].amount \in Int
      BY <1>2, <2>2 DEF reserve, mine
    <3> QED
      BY <1>5, <1>8, <1>10, <1>14, <3>1, <3>2
  <2>6. S = {2}
    <3>1. 2 \in S
      BY <1>2, <1>9, <2>2 DEF S, NotesOf
    <3>2. 1 \notin S /\ 3 \notin S /\ 4 \notin S
      BY <1>5, <1>6, <1>9, <1>11, <1>15, <2>2
    <3> QED
      BY <1>11, <2>3, <3>1, <3>2
  <2>7. OwnTokens(outs, t.token, us) = m.tokens
    BY <1>2, <1>9, <2>2, <2>6, NotesBelong DEF S
  <2> QED
    BY <1>2, <1>8, <1>10, <1>14, <1>15, <2>2, <2>4, <2>5, <2>7
<1>16. ASSUME burns PROVE Good(outs[last].amount)
  <2>1. TokenOuts(r, x, m) = <<mine(m)>> \o <<burnt>> \o <<reserve>>
    BY <1>8, <1>13, <1>16
  <2>2. Len(outs) = 5 /\ outs[2] = mine(m) /\ outs[3] = burnt /\ outs[4] = reserve
    BY <1>12, <1>16, <2>1, Joined, PlacesOfParts
  <2>3. \A k \in DOMAIN outs : k = 1 \/ k = 2 \/ k = 3 \/ k = 4 \/ k = 5
    BY <1>2, <2>2
  <2>4. OwnKas(outs) = outs[5].amount
    <3>1. \A k \in DOMAIN outs \ {5} : ~Plain(outs[k])
      BY <1>5, <1>9, <2>2, <2>3
    <3> QED
      BY <1>2, <1>6, <1>16, <2>2, <3>1, KasBelongs
  <2>5. TotalOf(outs) = x.venue.value + m.cell + Cell + Cell + outs[5].amount
    <3>1. TotalOf(outs) = outs[1].amount + outs[2].amount + outs[3].amount + outs[4].amount + outs[5].amount
      BY <1>2, <2>2, ShortTotals
    <3>2. outs[2].amount = m.cell /\ outs[3].amount = Cell /\ outs[4].amount = Cell /\ outs[5].amount \in Int
      BY <1>2, <2>2 DEF reserve, mine, burnt
    <3> QED
      BY <1>5, <1>8, <1>10, <1>14, <3>1, <3>2
  <2>6. S = {2} \/ S = {2, 3}
    <3>1. 2 \in S
      BY <1>2, <1>9, <2>2 DEF S, NotesOf
    <3>2. 1 \notin S /\ 4 \notin S /\ 5 \notin S
      BY <1>5, <1>6, <1>9, <1>11, <1>16, <2>2
    <3> QED
      BY <1>11, <2>3, <3>1, <3>2
  <2>7. OwnTokens(outs, t.token, us) >= m.tokens
    <3>1. CASE S = {2}
      <4>1. OwnTokens(outs, t.token, us) = m.tokens
        BY <1>2, <1>9, <2>2, <3>1, NotesBelong DEF S
      <4> QED
        BY <1>8, <4>1
    <3>2. CASE S = {2, 3}
      <4>1. OwnTokens(outs, t.token, us) = NoteAmount(outs[2].script) + NoteAmount(outs[3].script)
        BY <1>2, <2>2, <3>2, TwoNotes DEF S
      <4> QED
        BY <1>8, <1>9, <2>2, <4>1 DEF x
    <3> QED
      BY <2>6, <3>1, <3>2
  <2> QED
    BY <1>2, <1>8, <1>10, <1>14, <1>16, <2>2, <2>4, <2>5, <2>7
<1>17. ASSUME ~t.buy /\ m = NoNote PROVE Good(outs[last].amount)
  <2>1. TokenOuts(r, x, m) = <<reserve>> \o <<>>
    BY <1>8, <1>13, <1>17
  <2>2. Len(outs) = 3 /\ outs[3] = reserve
    <3>1. Len(TokenOuts(r, x, m)) = 1 /\ TokenOuts(r, x, m)[1] = reserve
      BY <2>1, Joined
    <3>2. Len(outs) = 3
      BY <1>12, <3>1
    <3>3. SubSeq(outs, 3, 3 + Len(TokenOuts(r, x, m)) - 1) = TokenOuts(r, x, m)
      BY <1>12, <1>17
    <3>4. \A i \in 1 .. 1 : outs[3 + i - 1] = TokenOuts(r, x, m)[i]
      BY <3>1, <3>3, PlacesOfParts
    <3>5. outs[3] = TokenOuts(r, x, m)[1]
      BY <3>4
    <3> QED
      BY <3>1, <3>2, <3>5
  <2>3. \A k \in DOMAIN outs : k = 1 \/ k = 2 \/ k = 3
    BY <1>2, <2>2
  <2>4. OwnKas(outs) = outs[2].amount
    <3>1. \A k \in DOMAIN outs \ {2} : ~Plain(outs[k])
      BY <1>5, <1>9, <2>2, <2>3
    <3> QED
      BY <1>2, <1>6, <1>17, <2>2, <3>1, KasBelongs
  <2>5. TotalOf(outs) = x.venue.value + Cell + outs[2].amount
    <3>1. TotalOf(outs) = outs[1].amount + outs[2].amount + outs[3].amount
      BY <1>2, <2>2, ShortTotals
    <3>2. outs[3].amount = Cell /\ outs[2].amount \in Int
      BY <1>2, <2>2 DEF reserve
    <3> QED
      BY <1>5, <1>10, <1>14, <3>1, <3>2
  <2>6. S = {}
    <3>1. 1 \notin S /\ 2 \notin S /\ 3 \notin S
      BY <1>5, <1>6, <1>9, <1>11, <1>17, <2>2
    <3> QED
      BY <1>11, <2>3, <3>1
  <2>7. OwnTokens(outs, t.token, us) = m.tokens
    BY <1>2, <1>8, <1>17, <2>6, NotesBelong DEF S
  <2> QED
    BY <1>2, <1>8, <1>10, <1>14, <1>17, <2>2, <2>4, <2>5, <2>7
<1>18. ASSUME ~t.buy /\ m # NoNote PROVE Good(outs[last].amount)
  <2>1. TokenOuts(r, x, m) = <<reserve>> \o <<mine(m)>>
    BY <1>8, <1>13, <1>18
  <2>2. Len(outs) = 4 /\ outs[3] = reserve /\ outs[4] = mine(m)
    BY <1>12, <1>18, <2>1, Joined, PlacesOfParts
  <2>3. \A k \in DOMAIN outs : k = 1 \/ k = 2 \/ k = 3 \/ k = 4
    BY <1>2, <2>2
  <2>4. OwnKas(outs) = outs[2].amount
    <3>1. \A k \in DOMAIN outs \ {2} : ~Plain(outs[k])
      BY <1>5, <1>9, <2>2, <2>3
    <3> QED
      BY <1>2, <1>6, <1>18, <2>2, <3>1, KasBelongs
  <2>5. TotalOf(outs) = x.venue.value + m.cell + Cell + outs[2].amount
    <3>1. TotalOf(outs) = outs[1].amount + outs[2].amount + outs[3].amount + outs[4].amount
      BY <1>2, <2>2, ShortTotals
    <3>2. outs[3].amount = Cell /\ outs[4].amount = m.cell /\ outs[2].amount \in Int
      BY <1>2, <2>2 DEF reserve, mine
    <3> QED
      BY <1>5, <1>8, <1>10, <1>14, <3>1, <3>2
  <2>6. S = {4}
    <3>1. 4 \in S
      BY <1>2, <1>9, <2>2 DEF S, NotesOf
    <3>2. 1 \notin S /\ 2 \notin S /\ 3 \notin S
      BY <1>5, <1>6, <1>9, <1>11, <1>18, <2>2
    <3> QED
      BY <1>11, <2>3, <3>1, <3>2
  <2>7. OwnTokens(outs, t.token, us) = m.tokens
    BY <1>2, <1>9, <2>2, <2>6, NotesBelong DEF S
  <2> QED
    BY <1>2, <1>8, <1>10, <1>14, <1>18, <2>2, <2>4, <2>5, <2>7
<1>19. \/ t.buy /\ ~burns
       \/ burns
       \/ ~t.buy /\ m = NoNote
       \/ ~t.buy /\ m # NoNote
  OBVIOUS
<1>20. Good(outs[last].amount)
  BY <1>15, <1>16, <1>17, <1>18, <1>19
<1> QED
  BY <1>7, <1>20 DEF t, outs, x, us

\* A KForge trade, as the core computes it, keeps to the terms.
LEMMA KForgeTrades ==
  ASSUME NEW r, Asked(r), r.profile = "kforge", KForgeOk(r)
  PROVE  FinalFeeKnown(Drafted(r)) /\ KForgeKept(r.terms, r.tx)
<1> DEFINE t == r.terms
           v == t.venue
           note == t.note
           tx == r.tx
           x == TheTrade(r)
           us == <<"key", Key>>
           burns == t.buy /\ ~v.pool
           funds == IF t.buy THEN tx.ins[Len(tx.ins)].amount ELSE 0
           rest == tx.outs[IF t.buy THEN Len(tx.outs) ELSE 2].amount
           fee == Fee(tx)
           held == OwnTokens(tx.outs, t.token, us)
<1>1. v \in Tallies /\ note \in NoteTallies /\ t.buy \in BOOLEAN /\ {"amount", "maximumDebit", "minimumOut"} \subseteq DOMAIN t
      /\ \A f \in DOMAIN t \cap Numbers : t[f] \in Int
  BY DEF Asked, Stated, TermsStated
<1>2. t.amount \in Int /\ t.maximumDebit \in Int /\ t.minimumOut \in Int
  BY <1>1 DEF Numbers
<1>3. x = Traded(v, t.buy, t.amount) /\ x.ok /\ Signs(v, note, t, fee)
  BY Zenon DEF KForgeOk, TheTrade
<1>4. /\ x.tokens \in 1 .. Lots /\ x.kas \in Int /\ x.fee \in Int /\ x.burn \in Nat
      /\ t.buy => x.venue.value = v.value + x.kas + (IF v.pool THEN x.fee ELSE 0)
      /\ ~t.buy => x.venue.value = v.value - x.kas /\ x.tokens = t.amount
  BY <1>1, <1>2, <1>3, TradesMoveTheVenue
<1>5. SignsTrade(v, note, t, x, fee)
  BY <1>3 DEF Signs
<1>6. /\ t.buy => KasCost(v, note, TRUE, x, fee) <= t.maximumDebit /\ x.tokens >= t.minimumOut
      /\ ~t.buy => note.tokens >= x.tokens /\ -KasCost(v, note, FALSE, x, fee) >= t.minimumOut
  BY <1>1, <1>5, Zenon DEF SignsTrade
<1>7. /\ ~t.buy => HasOwn(r)
      /\ OwnKas(tx.ins) = funds /\ funds \in Int
      /\ TotalOf(tx.ins) = v.value + (IF HasOwn(r) THEN note.cell ELSE 0) + Cell + funds
      /\ OwnTokens(tx.ins, t.token, us) = note.tokens
  BY KForgeInputs
<1>8. PICK m \in NotesAfter(note, t.buy, x) :
        /\ OwnKas(tx.outs) = rest /\ rest \in Int /\ x.venue.value \in Int
        /\ TotalOf(tx.outs) = x.venue.value + m.cell + (IF burns THEN Cell ELSE 0) + Cell + rest
        /\ held >= m.tokens /\ (~t.buy => held = m.tokens)
  BY <1>4, <1>6, KForgeOutputs
<1>9. /\ v.value \in Nat /\ note.cell \in Nat /\ note.tokens \in Nat /\ Cell \in Nat /\ v.pool \in BOOLEAN
      /\ x.tokens \in Nat
  BY <1>1, <1>4, KForgeAssumption DEF Tallies, NoteTallies
<1>10. held \in Int
  BY NotesBelong DEF Asked, IsDrafted, IsTransaction, Stated
<1>11. PaidKas(tx) = funds - rest /\ GotTokens(tx, t.token) = held - note.tokens /\ fee = TotalOf(tx.ins) - TotalOf(tx.outs)
  BY <1>7, <1>8 DEF PaidKas, GotTokens, Fee
<1>12. FinalFeeKnown(Drafted(r))
  BY KForgeIsFullySigned
<1>13. HasOwn(r) \/ note.cell = 0
  BY DEF HasOwn, NoNote
<1>14. TotalOf(tx.ins) = v.value + note.cell + Cell + funds
  BY <1>7, <1>9, <1>13
<1>15. KasCost(v, note, TRUE, x, fee)
       = x.kas + (IF v.pool THEN x.fee ELSE 0) + fee + (IF note.tokens = 0 THEN Cell ELSE 0) + (IF v.pool THEN 0 ELSE Cell)
  BY DEF KasCost
<1>16. KasCost(v, note, FALSE, x, fee) = fee - x.kas - (IF note.tokens = x.tokens THEN note.cell ELSE 0)
  BY DEF KasCost
<1> HIDE DEF fee, funds, rest, held, x, v, note, tx, t, us
<1>17. /\ m.tokens = (IF t.buy THEN note.tokens + x.tokens ELSE note.tokens - x.tokens) /\ m.tokens \in Nat
       /\ m = NoNote <=> ~t.buy /\ note.tokens = x.tokens
       /\ m.cell = IF m = NoNote THEN 0 ELSE IF t.buy /\ note.tokens = 0 THEN Cell ELSE note.cell
  <2>1. x.tokens \in 1 .. Lots /\ (~t.buy => note.tokens >= x.tokens) /\ m \in NotesAfter(note, t.buy, x)
    BY <1>4, <1>6, <1>8
  <2>2. NoteMoves(note, t.buy, x, m)
    BY <1>1, <2>1, NotesChange, Zenon
  <2> QED
    BY <2>2 DEF NoteMoves
<1>18. m.cell = IF ~t.buy /\ note.tokens = x.tokens THEN 0 ELSE IF t.buy /\ note.tokens = 0 THEN Cell ELSE note.cell
  BY <1>17
<1>19. KForgeKept(t, tx) <=> IF t.buy THEN held - note.tokens >= t.minimumOut /\ funds - rest <= t.maximumDebit
                             ELSE -(held - note.tokens) = t.amount /\ -(funds - rest) >= t.minimumOut
  BY <1>11, Zenon DEF KForgeKept
<1>20. ASSUME t.buy PROVE KForgeKept(t, tx)
  <2>1. held - note.tokens >= t.minimumOut
    BY <1>2, <1>6, <1>8, <1>9, <1>10, <1>17, <1>20
  <2> DEFINE burnt == IF v.pool THEN 0 ELSE Cell
             charge == IF v.pool THEN x.fee ELSE 0
  <2>2. burnt \in Int /\ charge \in Int
    BY <1>4, <1>9
  <2>3. TotalOf(tx.outs) = v.value + x.kas + charge + m.cell + burnt + Cell + rest
    BY <1>4, <1>8, <1>9, <1>20
  <2>4. m.cell \in Nat /\ m.cell - note.cell <= (IF note.tokens = 0 THEN Cell ELSE 0)
    BY <1>9, <1>18, <1>20
  <2>5. x.kas + charge + fee + (IF note.tokens = 0 THEN Cell ELSE 0) + burnt <= t.maximumDebit
    BY <1>6, <1>15, <1>20
  <2> HIDE DEF burnt, charge
  <2>6. fee = note.cell + funds - x.kas - charge - m.cell - burnt - rest
    BY <1>4, <1>7, <1>8, <1>9, <1>11, <1>14, <2>2, <2>3, <2>4
  <2>7. funds - rest = fee + x.kas + charge + burnt + (m.cell - note.cell)
    BY <1>4, <1>7, <1>8, <1>9, <2>2, <2>4, <2>6
  <2>8. fee \in Int
    BY <1>4, <1>7, <1>8, <1>9, <2>2, <2>4, <2>6
  <2>9. CASE note.tokens = 0
    <3>1. x.kas + charge + fee + Cell + burnt <= t.maximumDebit /\ m.cell - note.cell <= Cell
      BY <2>4, <2>5, <2>9
    <3>2. funds - rest <= t.maximumDebit
      BY <1>2, <1>4, <1>9, <2>2, <2>4, <2>7, <2>8, <3>1
    <3> QED
      BY <1>19, <1>20, <2>1, <3>2
  <2>10. CASE note.tokens # 0
    <3>1. x.kas + charge + fee + 0 + burnt <= t.maximumDebit /\ m.cell - note.cell <= 0
      BY <2>4, <2>5, <2>10
    <3>2. funds - rest <= t.maximumDebit
      BY <1>2, <1>4, <1>9, <2>2, <2>4, <2>7, <2>8, <3>1
    <3> QED
      BY <1>19, <1>20, <2>1, <3>2
  <2> QED
    BY <2>9, <2>10
<1>21. ASSUME ~t.buy PROVE KForgeKept(t, tx)
  <2>1. -(held - note.tokens) = t.amount
    BY <1>4, <1>8, <1>9, <1>10, <1>17, <1>21
  <2>2. TotalOf(tx.outs) = v.value - x.kas + m.cell + Cell + rest
    <3>1. TotalOf(tx.outs) = x.venue.value + m.cell + 0 + Cell + rest /\ x.venue.value = v.value - x.kas
      BY <1>4, <1>8, <1>21
    <3>2. m.cell \in Int
      BY <1>9, <1>18
    <3> QED
      BY <1>4, <1>8, <1>9, <3>1, <3>2
  <2>3. m.cell \in Nat /\ note.cell - m.cell = IF note.tokens = x.tokens THEN note.cell ELSE 0
    BY <1>9, <1>18, <1>21
  <2>4. fee = note.cell + funds + x.kas - m.cell - rest
    BY <1>4, <1>7, <1>8, <1>9, <1>11, <1>14, <2>2, <2>3
  <2>5. -(fee - x.kas - (note.cell - m.cell)) >= t.minimumOut
    BY <1>6, <1>16, <1>21, <2>3
  <2>6. -(funds - rest) >= t.minimumOut
    BY <1>2, <1>4, <1>7, <1>8, <1>9, <2>3, <2>4, <2>5
  <2> QED
    BY <1>19, <1>21, <2>1, <2>6
<1> QED
  BY <1>12, <1>20, <1>21 DEF t, tx

----------------------------------------------------------------------------
(* The theorem.                                                            *)

\* The terms are kept or not by what the accounts say.
LEMMA KeptByTheAccount ==
  ASSUME NEW u, NEW tx, SameAccount(u, tx), NEW t
  PROVE  /\ KassealKept(t, tx) => KassealKept(t, u)
         /\ KForgeKept(t, tx) => KForgeKept(t, u)
         /\ t.action = "order-buy" /\ KasForgeKept(t, tx) => KasForgeKept(t, u)
         /\ BraidKept(t, tx) => BraidKept(t, u)
         /\ BraidReturned(t, tx) => BraidReturned(t, u)
<1>1. /\ PaidKas(u) = PaidKas(tx)
      /\ \A id : GotTokens(u, id) = GotTokens(tx, id)
      /\ \A id, owner : OwnTokens(u.outs, id, owner) = OwnTokens(tx.outs, id, owner)
  BY DEF SameAccount
<1>2. KassealKept(t, tx) => KassealKept(t, u)
  BY <1>1 DEF KassealKept
<1>3. KForgeKept(t, tx) => KForgeKept(t, u)
  BY <1>1 DEF KForgeKept
<1>4. t.action = "order-buy" /\ KasForgeKept(t, tx) => KasForgeKept(t, u)
  BY <1>1, Zenon DEF KasForgeKept
<1>5. BraidKept(t, tx) => BraidKept(t, u)
  BY <1>1 DEF BraidKept
<1>6. BraidReturned(t, tx) => BraidReturned(t, u)
  BY <1>1 DEF BraidReturned
<1> QED
  BY <1>1, <1>2, <1>3, <1>4, <1>5, <1>6

\* The trades the core computes again: what the wallet pays and receives is
\* there in the draft to be added up, whatever its author wrote.
Computed(review) ==
  \/ review.profile \in {"kasseal-swap", "kasseal-prepare", "kforge", "braid-deposit", "braid-reclaim"}
  \/ review.profile = "kasforge" /\ review.terms.action = "order-buy"

LEMMA ComputedTradesStepwise ==
  ASSUME IInv, AgreedInv, out # <<>>, Computed(shown.review)
  PROVE  NoWorseThanAgreed
<1> DEFINE r == out.req
           t == shown.review.terms
           p == shown.review.profile
<1> SUFFICES ASSUME IsDraft PROVE NoWorseThanAgreed
  BY DEF NoWorseThanAgreed
<1>1. Asked(r) /\ ProfileOk(r) /\ p = r.profile /\ t = r.terms /\ (FinalFeeKnown(Drafted(r)) => SameAccount(final, r.tx))
  BY ReleasedTrades
<1> HIDE DEF r
<1>2. CASE p = "kasseal-swap"
  <2>1. KassealSwapOk(r)
    BY <1>1, <1>2 DEF ProfileOk
  <2>2. KassealKept(t, final)
    BY <1>1, <1>2, <2>1, KassealSwaps, KeptByTheAccount
  <2> QED
    BY <1>2, <2>2 DEF NoWorseThanAgreed
<1>3. CASE p = "kasseal-prepare"
  <2>1. KassealPrepareOk(r)
    BY <1>1, <1>3 DEF ProfileOk
  <2>2. GotTokens(final, t.token) = 0 /\ PaidKas(final) <= PrepareDebit
    <3>1. FinalFeeKnown(Drafted(r)) /\ GotTokens(r.tx, t.token) = 0 /\ PaidKas(r.tx) <= PrepareDebit
      BY <1>1, <1>3, <2>1, KassealPreparations
    <3> QED
      BY <1>1, <3>1 DEF SameAccount
  <2> QED
    BY <1>3, <2>2 DEF NoWorseThanAgreed
<1>4. CASE p = "kforge"
  <2>1. KForgeOk(r)
    BY <1>1, <1>4 DEF ProfileOk
  <2>2. KForgeKept(t, final)
    BY <1>1, <1>4, <2>1, KForgeTrades, KeptByTheAccount
  <2> QED
    BY <1>4, <2>2 DEF NoWorseThanAgreed
<1>5. CASE p = "braid-deposit"
  <2>1. BraidOk(r)
    BY <1>1, <1>5 DEF ProfileOk
  <2>2. BraidKept(t, final)
    BY <1>1, <1>5, <2>1, BraidDeposits, KeptByTheAccount
  <2> QED
    BY <1>5, <2>2 DEF NoWorseThanAgreed
<1>6. CASE p = "braid-reclaim"
  <2>1. BraidOk(r)
    BY <1>1, <1>6 DEF ProfileOk
  <2>2. BraidReturned(t, final)
    BY <1>1, <1>6, <2>1, BraidReclaims, KeptByTheAccount
  <2> QED
    BY <1>6, <2>2 DEF NoWorseThanAgreed
<1>7. CASE p = "kasforge" /\ t.action = "order-buy"
  <2>1. KasForgeOk(r)
    BY <1>1, <1>7 DEF ProfileOk
  <2>2. KasForgeKept(t, final)
    BY <1>1, <1>7, <2>1, BuyOrders, KeptByTheAccount
  <2> QED
    BY <1>7, <2>2 DEF NoWorseThanAgreed
<1> QED
  BY <1>2, <1>3, <1>4, <1>5, <1>6, <1>7 DEF Computed

\* A trade of Kasseal, KForge or Braid and a buy order of KasForge that the
\* wallet signs leaves it no worse than the terms its user was shown,
\* whatever number the terms and the draft hold, whoever changed them after
\* the review and however others complete what was signed: kasseal.rs,
\* kforge.rs, braid.rs and kasforge.rs add up or compute the amounts again,
\* and pskt.rs gives them only signatures that commit to the whole draft.
THEOREM ComputedTradesKeepTheirTerms ==
  Spec => [](out # <<>> /\ Computed(shown.review) => NoWorseThanAgreed)
<1>1. IInv /\ AgreedInv => (out # <<>> /\ Computed(shown.review) => NoWorseThanAgreed)
  BY ComputedTradesStepwise
<1> QED
  BY <1>1, AgreedInvariant, PTL
=============================================================================
