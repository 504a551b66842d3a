----------------------------- MODULE CoreSigning -----------------------------
(***************************************************************************)
(* The stateless hosts of the core, the Android bindings and the browser   *)
(* extension: a request is prepared and shown, and the request that later  *)
(* arrives with the approved review is signed.  Nothing ties the second    *)
(* request to the first except the review, so the layers above may have    *)
(* changed it in between; and before it was shown, any draft may have been *)
(* asked for.  What a partial signature leaves open others complete.       *)
(***************************************************************************)
EXTENDS CoreWallet
LOCAL INSTANCE SequencesExt
LOCAL INSTANCE FiniteSetsExt

CONSTANTS
  Secret,           \* the wallet's secret
  Samples,          \* [method, request] of every kind; the method of a plan is "preparePlan"
  Stranger,         \* the address of somebody else
  Nudges,           \* by how much an edit changes an amount
  MaxEdits,         \* bound: edits of one request
  MaxAmends         \* bound: changes others make to a released transaction

\* A drafted transaction, as it is parsed: lists of inputs and outputs.
IsList(s) == s \in Seq(Elements(s))
IsTransaction(tx) ==
  /\ {"version", "payload", "ins", "outs"} \subseteq DOMAIN tx
  /\ IsList(tx.ins) /\ IsList(tx.outs) /\ \A i \in DOMAIN tx.ins : "outpoint" \in DOMAIN tx.ins[i]
IsDrafted(r) == "tx" \in DOMAIN r /\ IsTransaction(r.tx)

\* The methods that prepare something: a draft of another program, or what
\* the core builds itself.  A vault's transaction comes with its request too.
DraftMethods == {"preparePskt", "prepareKaspacomPskt"}
BuildMethods ==
  {"prepareTransaction", "prepareKaspacomCommit", "prepareReveal", "prepareKaspacomReveal", "prepareKcc20Transfer",
   "prepareEvmTransaction", "preparePolicyTransaction", "prepareDotkMarket", "prepareHiddenKas",
   "prepareTangemCommit", "prepareTangemReveal"}

TransactionMethods == DraftMethods \cup {"preparePolicyTransaction"}

ASSUME SigningAssumption ==
  \A k \in DOMAIN Samples :
    /\ Samples[k].method \in DraftMethods \cup BuildMethods \cup {"preparePlan"}
    /\ Samples[k].method \in TransactionMethods => IsDrafted(Samples[k].request)

VARIABLES
  method,           \* the method called
  req,              \* the request as it stands
  edits,            \* how often it was edited
  shown,            \* <<>>, or what was approved: [review, tx]
  out,              \* <<>>, or what the core released: [req, tx]
  final,            \* the released transaction as others completed it
  amends,           \* how often others changed it
  sent,             \* how many steps of a plan were sent
  ledger            \* the coins of a payment plan's sender and recipient

signingVars == <<method, req, edits, shown, out, final, amends, sent, ledger>>

IsPlan == method = "preparePlan"
IsDraft == ~IsPlan /\ OperationOf(method) = "signPskt"
Key == DerivedKey(Secret)

----------------------------------------------------------------------------
(* Edits.  A number of the terms moves a little; the recipient, a coin or  *)
(* an output becomes another's; a coin is missing; an amount moves from    *)
(* one output to another.  The hashes a draft's author supplies follow.    *)
Numbers ==
  {"amount", "feeRate", "minimum", "maximum", "gross", "netKas", "raw", "networkFee", "kas", "budget",
   "maximumDebit", "minimumOut", "price", "fee", "royalty", "orderAmount", "amountIn", "payTotal", "totalFee",
   "value", "gasPrice", "nonce", "shown", "walletFee", "depositValue"}
Parties == {"recipient", "seller", "feeTo"}
Lists == {"utxos", "coins", "cells", "signers"}

FieldEdits(r) ==
  {[r EXCEPT ![f] = @ + d] : f \in DOMAIN r \cap Numbers, d \in Nudges}
  \cup {[r EXCEPT ![f] = Stranger] : f \in DOMAIN r \cap Parties}
  \cup {[r EXCEPT ![f] = Tail(@)] : f \in {g \in DOMAIN r \cap Lists : r[g] # <<>>}}
  \cup (UNION {{[r EXCEPT ![f][i].amount = @ + d] : i \in DOMAIN r[f], d \in Nudges} :
                 f \in DOMAIN r \cap {"utxos", "coins"}})

\* The same note for the stranger, or with another amount.
NoteEdits(script) ==
  IF Program(script)[1] # "note" THEN {}
  ELSE LET n == Program(script)
       IN  {PayToScriptHash(Note(<<"key", Stranger.key>>, NoteAmount(script), Policy(n)))}
           \cup {PayToScriptHash(Note(NoteOwner(script), NoteAmount(script) + d, Policy(n))) :
                   d \in {e \in Nudges : NoteAmount(script) + e > 0}}

Nudged(outs, k, d) == [outs EXCEPT ![k].amount = @ + d]
Redirected(outs, k, s) == [outs EXCEPT ![k].script = s]
Shifts(outs) ==
  {Nudged(Nudged(outs, a, -d), b, d) : a \in DOMAIN outs, b \in DOMAIN outs, d \in {e \in Nudges : e > 0}}
OutEdits(outs) ==
  Shifts(outs)
  \cup {Redirected(outs, k, PayTo(Stranger)) : k \in DOMAIN outs}
  \cup (UNION {{Redirected(outs, k, s) : s \in NoteEdits(outs[k].script)} : k \in DOMAIN outs})
  \cup (UNION {{Nudged(outs, k, d) : d \in Nudges} : k \in DOMAIN outs})
  \cup {RemoveAt(outs, k) : k \in DOMAIN outs}

Positive(outs) == \A k \in DOMAIN outs : outs[k].amount > 0
TxEdits(tx) ==
  {[tx EXCEPT !.outs = o] : o \in {p \in OutEdits(tx.outs) : Positive(p)}}
  \cup {[tx EXCEPT !.ins = Nudged(@, i, d)] : i \in DOMAIN tx.ins, d \in Nudges}

\* The digests, and the prebuilt witnesses, of the edited draft.
Rehashed(r) ==
  LET renewed(s, tx) == [s EXCEPT !.expected = IF @ = <<>> THEN @ ELSE <<Commitment(tx, s.index, SighashOf(r, s.index))>>]
  IN  [r EXCEPT !.signInputs = [k \in DOMAIN @ |-> renewed(@[k], r.tx)],
                !.scripts = [k \in DOMAIN @ |-> renewed(@[k], r.tx)]]

DraftEdits(r) ==
  {Rehashed([r EXCEPT !.tx = t]) : t \in TxEdits(r.tx)} \cup {[r EXCEPT !.terms = t] : t \in FieldEdits(r.terms)}

\* What a number is in a draft: the amounts, the tokens of its notes, the
\* terms, and of a KForge trade the venue and the note it states.
Holds(script) == Program(script)[1] = "note"
Counted(list) ==
  \A i \in DOMAIN list : /\ {"amount", "script", "covenant"} \subseteq DOMAIN list[i] /\ list[i].amount \in Int
                         /\ Holds(list[i].script) => NoteAmount(list[i].script) \in Int
Tallies == [pool : BOOLEAN, sold : Nat, kas : Nat, tokens : Nat, fees : Nat, vault : Nat, value : Nat]
NoteTallies == [tokens : Nat, borrow : BOOLEAN, threshold : Nat, cell : Nat]
TermsStated(profile, t) ==
  /\ \A f \in DOMAIN t \cap Numbers : t[f] \in Int
  /\ profile = "kforge" =>
       /\ {"venue", "note", "buy", "token", "market", "amount", "maximumDebit", "minimumOut"} \subseteq DOMAIN t
       /\ t.venue \in Tallies /\ t.note \in NoteTallies /\ t.buy \in BOOLEAN
Stated(r) ==
  /\ {"sender", "profile", "terms", "signInputs", "scripts"} \subseteq DOMAIN r /\ "script" \notin DOMAIN r.sender
  /\ IsList(r.signInputs)
  /\ Counted(r.tx.ins) /\ Counted(r.tx.outs) /\ TermsStated(r.profile, r.terms)

ASSUME NumbersAssumption ==
  /\ Nudges \subseteq Int /\ "script" \notin DOMAIN Stranger
  /\ \A k \in DOMAIN Samples : Samples[k].method \in DraftMethods => Stated(Samples[k].request)

RequestEdits(r) ==
  FieldEdits(r)
  \cup (IF "operation" \in DOMAIN r THEN {[r EXCEPT !.operation = o] : o \in FieldEdits(r.operation)} ELSE {})
  \cup (IF "terms" \in DOMAIN r THEN {[r EXCEPT !.terms = t] : t \in FieldEdits(r.terms)} ELSE {})
  \cup (IF "tx" \in DOMAIN r
        THEN {[r EXCEPT !.tx.outs = o] : o \in {p \in OutEdits(r.tx.outs) : Positive(p)}} ELSE {})
Edits(r) == IF IsDraft THEN DraftEdits(r) ELSE RequestEdits(r)

----------------------------------------------------------------------------
SigningInit ==
  /\ \E sample \in Elements(Samples) : method = sample.method /\ req = sample.request
  /\ edits = 0 /\ shown = <<>> /\ out = <<>> /\ final = <<>> /\ amends = 0 /\ sent = 0 /\ ledger = {}

Edit ==
  /\ out = <<>> /\ edits < MaxEdits
  /\ req' \in Edits(req) \ {req}
  /\ edits' = edits + 1
  /\ UNCHANGED <<method, shown, out, final, amends, sent, ledger>>

Show(built) == built.ok /\ shown' = [review |-> built.review, tx |-> built.tx]
Approve ==
  /\ ~IsPlan /\ shown = <<>>
  /\ Show(PrepareAs(Secret, method, req))
  /\ UNCHANGED <<method, req, edits, out, final, amends, sent, ledger>>

Released(signed) == signed.ok /\ out' = [req |-> req, tx |-> signed.tx] /\ final' = signed.tx
Sign ==
  /\ ~IsPlan /\ shown # <<>> /\ out = <<>>
  /\ Released(SignAs(Secret, method, req, shown.review))
  /\ UNCHANGED <<method, req, edits, shown, amends, sent, ledger>>

----------------------------------------------------------------------------
(* Others complete what was released: further inputs, other outputs.  The  *)
(* network takes the result only while the wallet's signatures verify.     *)
VerifiesAs(tx, draft) ==
  \A i \in Selected(draft) : \E j \in DOMAIN tx.ins :
    /\ tx.ins[j].outpoint = out.tx.ins[i].outpoint
    /\ Commitment(tx, j, SighashOf(draft, i)) = Commitment(out.tx, i, SighashOf(draft, i))
Verifies(tx) == VerifiesAs(tx, Drafted(out.req))

ForeignIn(tx) ==
  [outpoint |-> <<"foreign", Len(tx.ins)>>, amount |-> 2000, script |-> PayTo(Stranger), coinbase |-> FALSE,
   covenant |-> NoCovenant, sequence |-> 0, witness |-> <<<<"theirs">>>>]
ForeignOut == Output(50, PayTo(Stranger))
Completions(tx) ==
  {[tx EXCEPT !.ins = Append(@, ForeignIn(tx))],
   [tx EXCEPT !.outs = Append(@, ForeignOut)],
   [tx EXCEPT !.ins = <<ForeignIn(tx)>> \o @, !.outs = <<ForeignOut>> \o @]}
  \cup {[tx EXCEPT !.outs = RemoveAt(@, k)] : k \in DOMAIN tx.outs}
  \cup {[tx EXCEPT !.outs[k] = ForeignOut] : k \in DOMAIN tx.outs}

Complete ==
  /\ IsDraft /\ out # <<>>
  /\ amends < MaxAmends /\ amends' = amends + 1
  /\ final' \in {t \in Completions(final) : Verifies(t)}
  /\ UNCHANGED <<method, req, edits, shown, out, sent, ledger>>

----------------------------------------------------------------------------
(* A payment plan: every step is signed before the first is sent, and they *)
(* are sent one after the other.                                           *)
LedgerCoin(c, id) == [outpoint |-> c.outpoint, amount |-> c.amount, script |-> c.script, covenant |-> id]
PlanCoins(r) ==
  {LedgerCoin(c, <<r.token>>) : c \in Elements(r.borrowed \o r.cells)}
  \cup {LedgerCoin(c, NoCovenant) : c \in Elements(r.utxos)}

ShowPlan(plan) == plan.status = "ready" /\ shown' = [review |-> plan]
ApprovePlan ==
  /\ IsPlan /\ shown = <<>>
  /\ ShowPlan(BuildPlan(req))
  /\ UNCHANGED <<method, req, edits, out, final, amends, sent, ledger>>

ReleasedSteps(signed) == signed.ok /\ out' = [req |-> req, txs |-> signed.txs]
SignAllSteps ==
  /\ IsPlan /\ shown # <<>> /\ out = <<>>
  /\ ReleasedSteps(SignPlan(Secret, req, shown.review))
  /\ ledger' = PlanCoins(req)
  /\ UNCHANGED <<method, req, edits, shown, final, amends, sent>>

Spent(tx) == {LedgerCoin(tx.ins[i], tx.ins[i].covenant) : i \in DOMAIN tx.ins}
Created(tx, k) ==
  {[outpoint |-> <<"step", k, n>>, amount |-> tx.outs[n].amount, script |-> tx.outs[n].script,
    covenant |-> IF tx.outs[n].covenant = NoCovenant THEN NoCovenant ELSE <<tx.outs[n].covenant[1]>>] :
     n \in DOMAIN tx.outs}

SendStep ==
  /\ IsPlan /\ out # <<>> /\ sent < Len(out.txs)
  /\ LET tx == out.txs[sent + 1]
     IN  /\ Spent(tx) \subseteq ledger /\ Simulated(tx)
         /\ ledger' = (ledger \ Spent(tx)) \cup Created(tx, sent + 1)
  /\ sent' = sent + 1
  /\ UNCHANGED <<method, req, edits, shown, out, final, amends>>

SigningNext == Edit \/ Approve \/ Sign \/ Complete \/ ApprovePlan \/ SignAllSteps \/ SendStep

----------------------------------------------------------------------------
(* Properties.                                                             *)

\* What a transaction says to the network, which takes the amounts and the
\* scripts of what it spends from its own ledger.
Executed(tx) == [version |-> tx.version, payload |-> tx.payload, outs |-> tx.outs,
                 ins |-> [i \in DOMAIN tx.ins |-> tx.ins[i].outpoint]]

\* The core releases the transaction that was shown: whatever the layers
\* above changed in a request after its approval, the same inputs are spent
\* into the same outputs.  (Of an EVM request the call data are left out of
\* the review in the code, so this is said of the Kaspa requests.)
SignedAsReviewed ==
  ~IsPlan /\ out # <<>> /\ method # "prepareEvmTransaction" => Executed(out.tx) = Executed(shown.tx)

\* The review says which outputs the wallet's signatures bind and whether
\* the fee is final; no completion of the transaction that the network
\* accepts makes that untrue.
BoundOutputsSurvive ==
  IsDraft /\ out # <<>> =>
    /\ \A k \in shown.review.bound : \E j \in DOMAIN final.outs : final.outs[j] = shown.tx.outs[k]
    /\ shown.review.finalFeeKnown => Executed(final) = Executed(shown.tx)

(* The wallet's own accounts, taken from the transaction alone.            *)
OwnKas(list) == AmountOf(list, {k \in DOMAIN list : Plain(list[k]) /\ list[k].script = <<"pk", Key>>})
NotesOf(list, id, owner) ==
  {k \in DOMAIN list : Of(list[k], id) /\ Holds(list[k].script) /\ NoteOwner(list[k].script) = owner}
OwnTokens(list, id, owner) == TokensOf(list, NotesOf(list, id, owner))
PaidKas(tx) == OwnKas(tx.ins) - OwnKas(tx.outs)
GotTokens(tx, id) == OwnTokens(tx.outs, id, <<"key", Key>>) - OwnTokens(tx.ins, id, <<"key", Key>>)
OwnCells(list, id) == AmountOf(list, NotesOf(list, id, <<"key", Key>>))
CellsFilled(tx, id) == OwnCells(tx.outs, id) - OwnCells(tx.ins, id)

KronKept(t, tx) ==
  LET inventory == tx.outs[2].amount - tx.ins[2].amount
      paid == PaidKas(tx) - CellsFilled(tx, t.token) - inventory
  IN  IF t.side = "buy" THEN GotTokens(tx, t.token) >= t.minimum /\ paid <= t.netKas + t.networkFee
      ELSE -GotTokens(tx, t.token) = t.amount /\ -paid >= t.minimum - t.networkFee
KassealKept(t, tx) ==
  IF t.side = "buy" THEN GotTokens(tx, t.token) >= t.minimum /\ PaidKas(tx) <= t.maximum
  ELSE -GotTokens(tx, t.token) = t.amount /\ -PaidKas(tx) >= t.minimum
KForgeKept(t, tx) ==
  IF t.buy THEN GotTokens(tx, t.token) >= t.minimumOut /\ PaidKas(tx) <= t.maximumDebit
  ELSE -GotTokens(tx, t.token) = t.amount /\ -PaidKas(tx) >= t.minimumOut
KasForgeKept(t, tx) ==
  LET ordered == OwnTokens(tx.outs, t.token, ScriptOwner(OrderProgram(t.order)))
      held == OwnTokens(tx.ins, t.token, ScriptOwner(OrderProgram(t.order)))
  IN  CASE t.action = "order-buy" -> GotTokens(tx, t.token) = 0 /\ PaidKas(tx) <= t.maximum
        [] t.action = "order-sell" -> -GotTokens(tx, t.token) = ordered /\ ordered = t.amount
        [] t.action = "merge" -> GotTokens(tx, t.token) = 0 /\ PaidKas(tx) <= MergeCost
        [] OTHER -> GotTokens(tx, t.token) = held /\ PaidKas(tx) < 0
BraidKept(s, tx) ==
  LET locked == OwnTokens(tx.outs, s.from, ScriptOwner(Router(s.terms)))
  IN  /\ s.terms.refund = Key
      /\ IF s.from = "KAS" THEN PaidKas(tx) <= s.payTotal
         ELSE -GotTokens(tx, s.from) = s.amountIn /\ locked = s.amountIn
BraidReturned(s, tx) ==
  /\ -PaidKas(tx) >= s.depositValue - Deci
  /\ InSide(s).asset # "KAS" => GotTokens(tx, s.from) = s.amountIn
MarketKept(a, tx) ==
  CASE a.action = "offer" /\ a.market = "krc721" -> -PaidKas(tx) >= a.price - NftFee(a.price)
    [] a.action = "offer" /\ a.market # "krc721" -> -PaidKas(tx) >= a.price
    [] a.action = "cancel" -> -PaidKas(tx) = TotalOf(tx.ins) - Fee(tx)
    [] a.action \notin {"offer", "cancel"} /\ a.market = "krc721" -> PaidKas(tx) <= a.price + Fee(tx)
    [] OTHER -> PaidKas(tx) <= a.price + a.fee + a.exchangeFee + a.royalty + Fee(tx)
TransferKept(r, tx) ==
  LET theirs(list) == OwnTokens(list, r.token, <<"key", r.recipient.key>>)
  IN  theirs(tx.outs) - theirs(tx.ins) = r.amount /\ GotTokens(tx, r.token) = -r.amount

\* Every trade the wallet signs, whoever drafted it and however others
\* complete it, leaves the wallet at least what the approved terms say: it
\* pays no more KAS and receives no fewer tokens than was agreed.
NoWorseThanAgreed ==
  IsDraft /\ out # <<>> =>
    LET t == shown.review.terms
    IN  CASE shown.review.profile = "kron-swap" -> KronKept(t, final)
          [] shown.review.profile = "kasseal-swap" -> KassealKept(t, final)
          [] shown.review.profile = "kasseal-prepare" -> GotTokens(final, t.token) = 0 /\ PaidKas(final) <= PrepareDebit
          [] shown.review.profile = "kforge" -> KForgeKept(t, final)
          [] shown.review.profile = "kasforge" -> KasForgeKept(t, final)
          [] shown.review.profile = "braid-deposit" -> BraidKept(t, final)
          [] shown.review.profile = "braid-reclaim" -> BraidReturned(t, final)
          [] shown.review.profile \in {"krc721", "kaspacom"} -> MarketKept(t, final)
          [] shown.review.profile = "kcc20-standard-transfer" -> TransferKept(t, final)
          [] OTHER -> TRUE

\* What the core builds itself can be sent: no output is dust, the fee pays
\* for the mass of the transaction that was signed, and every input opens
\* with the witness put into it.
Storable == {"prepareTransaction", "prepareReveal", "prepareTangemCommit", "prepareTangemReveal", "prepareHiddenKas"}
MassOf(tx) == IF method \in Storable THEN Mass(tx.ins, tx.outs) ELSE ComputeMass(tx.ins, tx.outs)
Opened(r, tx) ==
  CASE method = "prepareKcc20Transfer" -> Kcc20Accepts(tx, tx.ins[1].witness)
    [] method = "prepareDotkMarket" -> SaleOpens(r, tx)
    [] method = "preparePolicyTransaction" ->
         \A i \in DOMAIN tx.ins : IF r.redeem # <<>> /\ i = 1 THEN VaultAccepts(r.redeem, tx, 1, {Key}, 0, 0)
                                  ELSE Opens(tx, i)
    [] OTHER -> Simulated(tx)
SignedIsSpendable ==
  ~IsPlan /\ out # <<>> /\ method # "prepareEvmTransaction" /\ ~IsDraft =>
    LET tx == out.tx
    IN  /\ \A k \in DOMAIN tx.outs : tx.outs[k].amount >= Dust
        /\ "feeRate" \in DOMAIN out.req => Fee(tx) >= out.req.feeRate * MassOf(tx)
        /\ Opened(out.req, tx)

\* A signed plan can be carried out step by step although no step is built
\* from the chain: each next step finds its coins and opens, no token is
\* lost on the way, and the last one pays the recipient in full.
LedgerTokens(owner) ==
  LET list == SetToSeq(ledger) IN OwnTokens(list, req.token, owner)
PlanDelivers ==
  IsPlan /\ out # <<>> =>
    LET before == SetToSeq(PlanCoins(out.req))
        count(owner) == OwnTokens(before, req.token, owner)
        them == <<"key", out.req.recipient.key>>
        us == <<"key", Key>>
    IN  /\ sent < Len(out.txs) => Spent(out.txs[sent + 1]) \subseteq ledger /\ Simulated(out.txs[sent + 1])
        /\ LedgerTokens(us) + LedgerTokens(them) = count(us) + count(them)
        /\ sent = Len(out.txs) => LedgerTokens(them) = count(them) + out.req.amount
=============================================================================
