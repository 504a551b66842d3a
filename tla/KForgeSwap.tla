------------------------------- MODULE KForgeSwap -------------------------------
(***************************************************************************)
(* KForge (kforge.rs): the arithmetic of the curve and the pool, and the   *)
(* draft that follows from it.  The core does not check the numbers of a   *)
(* draft: it computes the successor of the venue, the notes and the        *)
(* payouts from the state the input commits to, and refuses every draft    *)
(* that differs.  Amounts of tokens are in lots.                           *)
(***************************************************************************)
EXTENDS TradeProfiles
LOCAL INSTANCE SequencesExt

CONSTANTS
  Lots,             \* the fixed supply, 1000 lots
  CurveLots,        \* what the curve sells, 650 lots
  Base, Slope,      \* the price of the first lot, and what each lot adds
  Cell,             \* the KAS every token coin carries
  PoolFloor,        \* the least KAS a pool may hold
  SwapFeeCap,       \* the most a trade may pay the network, 1 KAS
  SellFeeCap,       \* the most a sale may, 0.4 KAS
  FeeBand           \* <<least, most>> a swap pays the network per unit of mass

ASSUME KForgeAssumption ==
  /\ {Lots, CurveLots, Base, Slope, Cell, PoolFloor, SwapFeeCap, SellFeeCap} \subseteq Nat \ {0}
  /\ CurveLots < Lots /\ SellFeeCap <= SwapFeeCap

Percent(n) == n \div 100

(* A venue is [pool, sold, kas, tokens, fees, vault, value]: its state and *)
(* the KAS its coin holds; "tokens" is what its own note holds.            *)
CurveValue(start, n) == n * Base + Slope * (start * n + (n * (n - 1)) \div 2)

\* The two owed accounts share a fee: a tenth goes to the vault.
Owe(venue, fee) == [venue EXCEPT !.fees = @ + fee - fee \div 10, !.vault = @ + fee \div 10]

NoTrade == [ok |-> FALSE]
Trade(venue, tokens, kas, fee, burn) ==
  [ok |-> TRUE, venue |-> Owe(venue, fee), tokens |-> tokens, kas |-> kas, fee |-> fee, burn |-> burn]

PoolTrade(v, buy, amount) ==
  LET bought == (amount * v.tokens) \div (v.kas + amount)
      gross == (v.kas * amount) \div (v.tokens + amount)
      fee == Percent(IF buy THEN amount ELSE gross)
  IN  IF v.kas < PoolFloor \/ v.tokens \notin 1 .. Lots \/ v.value # v.kas + v.fees + v.vault
      THEN NoTrade
      ELSE IF buy
      THEN Trade([v EXCEPT !.kas = @ + amount, !.tokens = @ - bought, !.value = @ + amount + fee],
                 bought, amount, fee, 0)
      ELSE IF v.kas - gross < PoolFloor THEN NoTrade
      ELSE Trade([v EXCEPT !.kas = @ - gross, !.tokens = @ + amount, !.value = @ - (gross - fee)],
                 amount, gross - fee, fee, 0)

CurveMoved(v, sold, value) == [v EXCEPT !.sold = sold, !.tokens = Lots - sold, !.value = value]
CurveBuy(v, amount, value) ==
  IF v.sold + amount > CurveLots THEN NoTrade
  ELSE Trade(CurveMoved(v, v.sold + amount, v.value + value), amount - Percent(amount), value, Percent(value),
             Percent(amount))
\* A sale releases the price less a percent, of which a percent is the fee.
CurveSale(v, amount, released) ==
  IF v.value < released - Percent(released) THEN NoTrade
  ELSE Trade(CurveMoved(v, v.sold - amount, v.value - (released - Percent(released))), amount,
             released - Percent(released), Percent(released), 0)
CurveTrade(v, buy, amount) ==
  LET value(start) == CurveValue(start, amount)
  IN  IF v.sold \notin 0 .. CurveLots \/ (~buy /\ v.sold < amount) THEN NoTrade
      ELSE IF buy THEN CurveBuy(v, amount, value(v.sold))
      ELSE CurveSale(v, amount, value(v.sold - amount) - Percent(value(v.sold - amount)))

Sound(t, amount) == IF amount > 0 /\ t.ok /\ t.tokens \in 1 .. Lots THEN t ELSE NoTrade
Traded(v, buy, amount) ==
  Sound(IF v.pool THEN PoolTrade(v, buy, amount) ELSE CurveTrade(v, buy, amount), amount)

\* A buy uses up the budget its user entered: a pool takes all of it, a curve
\* leaves less than the price of the next lot.
BudgetOk(v, t, amount, budget) ==
  /\ t.kas <= budget
  /\ IF v.pool THEN t.kas = budget
     ELSE v.sold + amount < CurveLots => budget - t.kas < Base + Slope * (v.sold + amount)

----------------------------------------------------------------------------
(* The wallet's token coin: verify_note_input accepts a plain note, or one *)
(* that lets an increase above its threshold in (Borrowed Receive).        *)
NoNote == [tokens |-> 0, borrow |-> FALSE, threshold |-> 0, cell |-> 0]
NewNotes(tokens) ==
  {[tokens |-> tokens, borrow |-> FALSE, threshold |-> 0, cell |-> Cell]}
  \cup {[tokens |-> tokens, borrow |-> TRUE, threshold |-> h, cell |-> Cell] : h \in {0, tokens - 1}}
Receives(note, tokens) == note.tokens > 0 => note.borrow /\ tokens > note.threshold

\* The notes a trade may leave the wallet with.
NotesAfter(note, buy, t) ==
  CASE buy /\ note.tokens = 0 -> NewNotes(t.tokens)
    [] buy /\ note.tokens # 0 -> {[note EXCEPT !.tokens = @ + t.tokens]}
    [] ~buy /\ note.tokens = t.tokens -> {NoNote}
    [] OTHER -> {[n EXCEPT !.cell = note.cell] : n \in NewNotes(note.tokens - t.tokens)}

\* What leaves the wallet in KAS.  A buy fills the cells of a new note and
\* of the burn note, a sale that empties a note releases its cell.
KasCostWithoutBurn(v, note, buy, t, networkFee) ==
  IF buy
  THEN t.kas + (IF v.pool THEN t.fee ELSE 0) + networkFee + (IF note.tokens = 0 THEN Cell ELSE 0)
  ELSE networkFee - t.kas - (IF note.tokens = t.tokens THEN note.cell ELSE 0)
KasCost(v, note, buy, t, networkFee) ==
  IF buy
  THEN t.kas + (IF v.pool THEN t.fee ELSE 0) + networkFee
       + (IF note.tokens = 0 THEN Cell ELSE 0) + (IF v.pool THEN 0 ELSE Cell)
  ELSE networkFee - t.kas - (IF note.tokens = t.tokens THEN note.cell ELSE 0)

\* expand: the trade is one the wallet signs under the approved terms.
SignsTrade(v, note, terms, t, networkFee) ==
  LET cost == KasCost(v, note, terms.buy, t, networkFee)
  IN  /\ t.ok
      /\ networkFee \in 1 .. (IF terms.buy THEN SwapFeeCap ELSE SellFeeCap)
      /\ note.tokens > 0 => note.cell >= Cell
      /\ IF terms.buy
         THEN /\ Receives(note, t.tokens) /\ BudgetOk(v, t, terms.amount, terms.budget)
              /\ cost <= terms.maximumDebit /\ t.tokens >= terms.minimumOut
         ELSE note.tokens >= t.tokens /\ -cost >= terms.minimumOut
Signs(v, note, terms, networkFee) ==
  SignsTrade(v, note, terms, Traded(v, terms.buy, terms.amount), networkFee)

----------------------------------------------------------------------------
(* The draft (expand and validate_mass): venue, the wallet's own note if   *)
(* it has one, the venue's note and, to buy, one funding coin.  Every      *)
(* program in it is computed from the approved terms and every witness is  *)
(* put in by the core, which then signs one input.                         *)
VenueProgram(t, v) ==
  <<"venue", t.token, t.creator, v.pool, IF v.pool THEN <<v.kas, v.tokens>> ELSE <<v.sold>>, v.fees, v.vault>>
ReceivePolicy(note) == IF note.borrow THEN <<"borrow", note.threshold>> ELSE <<"closed">>
OwnCell(req, note) == PayToScriptHash(Note(KeyOwner(req), note.tokens, ReceivePolicy(note)))
VenueCell(req, tokens) == PayToScriptHash(Note(CovenantOwner(req.terms.market), tokens, <<"closed">>))
BurnCell(tokens) == PayToScriptHash(Note(<<"key", <<"nobody">>>>, tokens, <<"closed">>))

HasOwn(req) == req.terms.note # NoNote
SelectedIn(req) == IF req.terms.buy THEN Len(req.tx.ins) ELSE 2
ReserveIn(req) == IF HasOwn(req) THEN 3 ELSE 2
TheTrade(req) == Traded(req.terms.venue, req.terms.buy, req.terms.amount)

KForgeHeader(req) ==
  LET tx == req.tx
  IN  /\ tx.version = 1 /\ tx.lock = 0 /\ tx.payload = <<>> /\ req.terms.net = req.sender.net
      /\ req.scripts = <<>> /\ Len(req.signInputs) = 1
      /\ req.signInputs[1].hash = All /\ req.signInputs[1].expected # <<>>
      /\ Len(tx.ins) \in 3 .. 4 /\ Len(tx.outs) \in 3 .. 5
      /\ Len(tx.ins) = (IF req.terms.buy THEN 3 ELSE 2) + (IF HasOwn(req) THEN 1 ELSE 0)
      /\ req.signInputs[1].index = SelectedIn(req)
      /\ Cardinality(Outpoints(tx.ins)) = Len(tx.ins)
      /\ \A i \in DOMAIN tx.ins : tx.ins[i].witness = <<>> /\ tx.ins[i].sequence = 0 /\ ~tx.ins[i].coinbase

KForgeInputsOk(req) ==
  LET t == req.terms  ins == req.tx.ins
  IN  /\ Of(ins[1], t.market) /\ ins[1].script = PayToScriptHash(VenueProgram(t, t.venue)) /\ ins[1].amount = t.venue.value
      /\ HasOwn(req) => Of(ins[2], t.token) /\ ins[2].script = OwnCell(req, t.note) /\ ins[2].amount = t.note.cell
      /\ Of(ins[ReserveIn(req)], t.token) /\ ins[ReserveIn(req)].amount = Cell
      /\ ins[ReserveIn(req)].script = VenueCell(req, IF t.venue.pool THEN t.venue.tokens ELSE Lots - t.venue.sold)
      /\ t.buy => Len(ins) \in OwnPlain(req, ins)

\* The token outputs at their places; the change or the payout takes the rest.
TokenOuts(req, trade, note) ==
  LET t == req.terms
      cell(script, amount) == [script |-> script, amount |-> amount, covenant |-> <<t.token, 2>>]
      reserve == cell(VenueCell(req, trade.venue.tokens), Cell)
      burn == IF t.buy /\ ~t.venue.pool THEN <<cell(BurnCell(trade.burn), Cell)>> ELSE <<>>
      mine == IF note = NoNote THEN <<>> ELSE <<cell(OwnCell(req, note), note.cell)>>
  IN  IF t.buy THEN mine \o burn \o <<reserve>> ELSE <<reserve>> \o mine

TokensAt(outs, first, expected) ==
  Len(outs) = Len(expected) + 2 /\ SubSeq(outs, first, first + Len(expected) - 1) = expected
KForgeOutputsOk(req, trade) ==
  LET t == req.terms  outs == req.tx.outs
      plain == IF t.buy THEN Len(outs) ELSE 2
      first == IF t.buy THEN 2 ELSE 3
  IN  /\ outs[1] = [script |-> PayToScriptHash(VenueProgram(t, trade.venue)), amount |-> trade.venue.value,
                    covenant |-> <<t.market, 1>>]
      /\ plain \in OwnPlain(req, outs)
      /\ \E note \in NotesAfter(t.note, t.buy, trade) : TokensAt(outs, first, TokenOuts(req, trade, note))

KForgeMassOk(req) ==
  Fee(req.tx) \in FeeBand[1] * Mass(req.tx.ins, req.tx.outs) .. FeeBand[2] * Mass(req.tx.ins, req.tx.outs)

KForgeOk(req) ==
  /\ KForgeHeader(req)
  /\ TheTrade(req).ok /\ Signs(req.terms.venue, req.terms.note, req.terms, Fee(req.tx))
  /\ KForgeInputsOk(req) /\ KForgeOutputsOk(req, TheTrade(req)) /\ KForgeMassOk(req)

----------------------------------------------------------------------------
(* The expanded request: the witnesses the core adds, and the script       *)
(* request through which a sale signs its own note.                        *)
NotePrograms(req) ==
  LET cells == SelectSeq(req.tx.outs, LAMBDA o : Of(o, req.terms.token))
  IN  [k \in DOMAIN cells |-> Program(cells[k].script)]
NoteWitness(req, i) ==
  IF i = 2 THEN <<<<"leader", NotePrograms(req)>>, <<IF HasOwn(req) THEN "borrowed" ELSE "covenant">>, Program(req.tx.ins[i].script)>>
  ELSE <<<<"delegate">>, Program(req.tx.ins[i].script)>>
VenueWitness(req) == <<<<"trade">>, TheTrade(req).venue, req.terms.amount, VenueProgram(req.terms, req.terms.venue)>>

WitnessAt(req, i) ==
  CASE i = 1 -> VenueWitness(req)
    [] i = SelectedIn(req) -> <<>>
    [] OTHER -> NoteWitness(req, i)
OwnNoteScript(req) ==
  [index |-> 2, redeem |-> Program(req.tx.ins[2].script), mode |-> "ordered",
   args |-> <<<<"leader", NotePrograms(req)>>, <<"signature">>, <<"tag">>>>, hash |-> <<All>>,
   prebuilt |-> <<>>, offsets |-> {}, expected |-> <<>>]
Expand(req) ==
  [req EXCEPT !.tx.ins = [i \in DOMAIN @ |-> [@[i] EXCEPT !.witness = WitnessAt(req, i)]],
              !.scripts = IF req.terms.buy THEN <<>> ELSE <<OwnNoteScript(req)>>]
=============================================================================
