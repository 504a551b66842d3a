----------------------------- MODULE TokenTransfers -----------------------------
(***************************************************************************)
(* Token payments the core builds itself: the KCC20 contract it compiles   *)
(* (kcc20.rs), the pinned reference actor with borrowed receive            *)
(* (kcc20_standard.rs), KRON cells (kron.rs) and the plan that compounds   *)
(* many cells into one payment (kcc20_plan.rs).  A cell is a coin whose    *)
(* script is a note; a request names the cells and the plain coins.        *)
(***************************************************************************)
EXTENDS TradeProfiles
LOCAL INSTANCE SequencesExt
LOCAL INSTANCE FiniteSetsExt

CONSTANTS
  MassLimit,        \* the block mass limit
  StorageTarget,    \* 85 % of the storage mass limit
  CellFee,          \* the fee a transfer's search starts from
  CellDeposit,      \* what a reference or KRON cell is given
  FundingMargin,    \* what the funding of a reference transfer must exceed it by
  PlanSteps,        \* MAX_STEPS, 32 in the code
  PlanCells,        \* MAX_CELLS, 65 in the code
  InputLimit        \* reference program -> the cells it accepts together

Kcc20Policy == <<"kcc20">>
Kcc20Note(owner, tokens) == PayToScriptHash(Note(<<"key", owner>>, tokens, Kcc20Policy))
Tokens(list) == SumOf([i \in DOMAIN list |-> list[i].tokens])
CellInput(cell, token) ==
  [outpoint |-> cell.outpoint, amount |-> cell.amount, script |-> cell.script, coinbase |-> FALSE,
   covenant |-> <<token>>, witness |-> <<>>, sequence |-> 0]
FundingInput(coin) ==
  [outpoint |-> coin.outpoint, amount |-> coin.amount, script |-> coin.script, coinbase |-> FALSE,
   covenant |-> NoCovenant, witness |-> <<>>, sequence |-> 0]
TokenOutput(amount, script, token) == [amount |-> amount, script |-> script, covenant |-> <<token, 1>>]
TokenTx(ins, outs) ==
  [version |-> 1, native |-> TRUE, ins |-> ins, outs |-> outs, payload |-> <<>>, lock |-> 0, id |-> <<>>]

----------------------------------------------------------------------------
(* KCC20: one or two cells, one or two new cells.                          *)
Kcc20CellsOk(r) ==
  /\ Len(r.cells) \in 1 .. 64 /\ Cardinality(Outpoints(r.cells)) = Len(r.cells)
  /\ \A i \in DOMAIN r.cells :
       /\ r.cells[i].amount > 0 /\ r.cells[i].tokens > 0 /\ ~r.cells[i].minter
       /\ r.cells[i].token = r.token
       /\ r.cells[i].script = Kcc20Note(r.sender.key, r.cells[i].tokens)

\* The candidates, single cells first, and the order they are ranked by.
CellCandidates(cells, amount) ==
  LET pairs(i) == [j \in 1 .. Len(cells) - i |-> <<cells[i], cells[i + j]>>]
  IN  SelectSeq([i \in DOMAIN cells |-> <<cells[i]>>] \o FlattenSeq([i \in DOMAIN cells |-> pairs(i)]),
                LAMBDA c : Tokens(c) >= amount)

SplitCellValue(total, n) == IF n = 1 THEN <<total>> ELSE <<total \div 2, total - total \div 2>>
CellUnits(values) == SumOf([i \in DOMAIN values |-> (StorageParam * 4) \div values[i]])
NewCellCount(chosen, amount) == IF Tokens(chosen) = amount THEN 1 ELSE 2
SplitOf(chosen, n) == SplitCellValue(Max({TotalOf(chosen), n * Dust}), n)
CellScore(chosen, amount) ==
  <<Max({0, CellUnits(SplitOf(chosen, NewCellCount(chosen, amount))) - CellUnits(Amounts(chosen)), Len(chosen)}),
    Len(chosen), Tokens(chosen) - amount>>
Lower(a, b) == \E k \in DOMAIN a : a[k] < b[k] /\ \A j \in 1 .. k - 1 : a[j] = b[j]
SelectCells(cells, amount) ==
  FoldSeq(LAMBDA c, best : IF best = <<>> \/ Lower(CellScore(c, amount), CellScore(best, amount)) THEN c ELSE best,
          <<>>, CellCandidates(cells, amount))

\* The transaction with the KAS reserve "locked" split over the new cells.
Kcc20Owners(r, left) ==
  <<Kcc20Note(r.recipient.key, r.amount)>> \o (IF left = 0 THEN <<>> ELSE <<Kcc20Note(r.sender.key, left)>>)
NewCells(owners, values, token) == [k \in DOMAIN owners |-> TokenOutput(values[k], owners[k], token)]
Kcc20Cells(r, owners, locked) == NewCells(owners, SplitCellValue(locked, Len(owners)), r.token)
Kcc20Tx(r, chosen, coin, locked, fee) ==
  TokenTx([i \in DOMAIN chosen |-> CellInput(chosen[i], r.token)] \o <<FundingInput(coin)>>,
          Kcc20Cells(r, Kcc20Owners(r, Tokens(chosen) - r.amount), locked)
          \o <<Output(TotalOf(chosen) + coin.amount - fee - locked, PayTo(r.sender))>>)

WithinSafeLimits(tx) ==
  ComputeMass(tx.ins, tx.outs) <= MassLimit /\ StorageMass(tx.ins, tx.outs) <= Min({MassLimit, StorageTarget})

\* The least reserve between two bounds that the storage mass allows, the
\* upper one being allowed: a bisection.
Halved(r, chosen, coin, fee, b, mid) ==
  IF WithinSafeLimits(Kcc20Tx(r, chosen, coin, mid, fee)) THEN <<b[1], mid>> ELSE <<mid, b[2]>>
Reserve(r, chosen, coin, fee, least, most) ==
  LET Bisect[b \in Nat \X Nat] ==
        IF b[1] + 1 >= b[2] THEN b[2]
        ELSE Bisect[Halved(r, chosen, coin, fee, b, b[1] + (b[2] - b[1]) \div 2)]
  IN  Bisect[<<least, most>>]

\* What can be locked when n cells and the change share the total; 0 if nothing.
LockedReserve(r, chosen, coin, fee, least, most) ==
  IF WithinSafeLimits(Kcc20Tx(r, chosen, coin, least, fee)) THEN least
  ELSE IF most <= least \/ ~WithinSafeLimits(Kcc20Tx(r, chosen, coin, most, fee)) THEN 0
  ELSE Reserve(r, chosen, coin, fee, least, most)
MostLocked(n, total) == Min({(total * 2 * n) \div (2 * n + 1), total - Dust})
FundedBy(r, chosen, coin, fee, locked) ==
  IF locked = 0 \/ TotalOf(chosen) + coin.amount - fee - locked < Dust THEN NoCovenant
  ELSE <<[tx |-> Kcc20Tx(r, chosen, coin, locked, fee), locked |-> locked, fee |-> fee]>>

\* One funding coin: the fee is raised to the mass, then the reserve is found.
ReserveFee(r, tx) == r.feeRate * ComputeMass(tx.ins, tx.outs)
CellBudget(chosen, coin, fee) == TotalOf(chosen) + coin.amount - fee
NextReserveFee(r, chosen, coin, n, fee) ==
  IF CellBudget(chosen, coin, fee) < (n + 1) * Dust THEN fee
  ELSE Max({fee, ReserveFee(r, Kcc20Tx(r, chosen, coin, n * Dust, fee))})
SettledFee(r, chosen, coin, n) ==
  LET Try[fee \in Nat] ==
        LET Judge(next) == IF next = fee THEN fee ELSE Try[next] IN Judge(NextReserveFee(r, chosen, coin, n, fee))
  IN  Try[0]
FundAt(r, chosen, coin, n, fee, total) ==
  IF total < (n + 1) * Dust THEN NoCovenant
  ELSE FundedBy(r, chosen, coin, fee, LockedReserve(r, chosen, coin, fee, n * Dust, MostLocked(n, total)))
FundAtFee(r, chosen, coin, n, fee) == FundAt(r, chosen, coin, n, fee, CellBudget(chosen, coin, fee))
FundCells(r, chosen, coin, n) == FundAtFee(r, chosen, coin, n, SettledFee(r, chosen, coin, n))
FundWith(r, chosen, coin) == FundCells(r, chosen, coin, NewCellCount(chosen, r.amount))

Kcc20Review(r, chosen, funded) ==
  [sender |-> r.sender, recipient |-> r.recipient, token |-> r.token, amount |-> r.amount,
   change |-> Tokens(chosen) - r.amount, lockedIn |-> TotalOf(chosen), lockedOut |-> funded.locked,
   fee |-> funded.fee, mass |-> Mass(funded.tx.ins, funded.tx.outs), rate |-> r.feeRate,
   ins |-> [i \in DOMAIN funded.tx.ins |-> funded.tx.ins[i].outpoint], outs |-> funded.tx.outs]

\* The first funding coin with the lowest reserve, fee and mass.
FundingRank(f) == <<f[1].locked, f[1].fee, Mass(f[1].tx.ins, f[1].tx.outs)>>
Ahead(funded, k, j) ==
  \/ Lower(FundingRank(funded[k]), FundingRank(funded[j]))
  \/ k < j /\ ~Lower(FundingRank(funded[j]), FundingRank(funded[k]))
Preferred(funded) ==
  LET able == {k \in DOMAIN funded : funded[k] # <<>>} IN {k \in able : \A j \in able \ {k} : Ahead(funded, k, j)}
FirstOf(funded, places) == IF places = {} THEN <<>> ELSE funded[CHOOSE k \in places : TRUE]
BestOf(funded) == FirstOf(funded, Preferred(funded))
BestFunded(r, chosen, coins) == BestOf([k \in DOMAIN coins |-> FundWith(r, chosen, coins[k])])
Kcc20Built(r, chosen, funded) ==
  IF funded = <<>> THEN Refused("mass limit") ELSE Built(funded[1].tx, Kcc20Review(r, chosen, funded[1]))
Kcc20Of(r, chosen) ==
  IF chosen = <<>> THEN Refused("consolidate first")
  ELSE Kcc20Built(r, chosen, BestFunded(r, chosen, SortSeq(SelectSeq(r.utxos, LAMBDA u : ~u.coinbase),
                                                           LAMBDA a, b : a.amount < b.amount)))
BuildKcc20(r) ==
  IF r.amount = 0 \/ r.feeRate \notin 1 .. MaxFeeRate \/ r.sender.net # "mainnet" \/ r.recipient.net # "mainnet"
  THEN Refused("InvalidRequest")
  ELSE IF ~Kcc20CellsOk(r) \/ ~UtxosOk(r.utxos, {r.sender}) THEN Refused("UntrustedUtxo")
  ELSE Kcc20Of(r, SelectCells(SortSeq(r.cells, LAMBDA a, b : a.tokens < b.tokens), r.amount))

\* The witness of a transfer: the leader, input 1, carries the new states and
\* a signature per cell.  All are signatures of the leader's own input,
\* because it is the leader's script that checks them.
Kcc20Witness(tx, i) ==
  LET group == {k \in DOMAIN tx.ins : tx.ins[k].covenant # NoCovenant}
      new == SelectSeq(tx.outs, LAMBDA o : o.covenant # NoCovenant)
  IN  IF i = 1 THEN <<"leader", [k \in DOMAIN new |-> new[k].script],
                      [k \in group |-> Sig(NoteOwner(tx.ins[k].script)[2], Commitment(tx, 1, All))]>>
      ELSE <<"delegate">>

\* The transfer policy of the contract, run before anything is sent.
Kcc20Accepts(tx, witness) ==
  LET cells == SelectSeq(tx.ins, LAMBDA c : c.covenant # NoCovenant)
      new == SelectSeq(tx.outs, LAMBDA o : o.covenant # NoCovenant)
      amounts(list) == SumOf([i \in DOMAIN list |-> NoteAmount(list[i].script)])
  IN  /\ witness[1] = "leader" /\ witness[2] = [k \in DOMAIN new |-> new[k].script]
      /\ \A k \in DOMAIN cells : witness[3][k] = Sig(NoteOwner(cells[k].script)[2], Commitment(tx, 1, All))
      /\ Len(cells) <= 2 /\ Len(new) <= 2 /\ amounts(cells) = amounts(new)

----------------------------------------------------------------------------
(* The reference actor.  Its policy holds who may add to a cell without    *)
(* the owner's signature: borrow 1 lets more than the threshold in.        *)
StandardPolicy(program, borrow, threshold, extension) == <<"standard", program, borrow, threshold, extension>>
IsStandard(note, program) == Policy(note)[1] = "standard" /\ Policy(note)[2] = program
Borrow(note) == Policy(note)[3]
Threshold(note) == Policy(note)[4]
Extension(note) == Policy(note)[5]
OwnerOnly(program) == program = "kasseal"
Open(program, extension) == StandardPolicy(program, IF OwnerOnly(program) THEN 0 ELSE 1, 0, extension)
Deposited(program) == IF OwnerOnly(program) THEN 5 * CellDeposit ELSE CellDeposit

OwnerPolicyOk(r, note) ==
  OwnerOnly(r.program) =>
    r.borrowed = <<>> /\ Policy(note) = StandardPolicy(r.program, 0, 0, "none") /\ note[3] <= TokenSupply

BorrowedOk(r) ==
  r.borrowed # <<>> =>
    LET cell == r.borrowed[1]  note == Program(cell.script)
    IN  /\ r.sender # r.recipient /\ IsStandard(note, r.program)
        /\ note[2] = <<"key", r.recipient.key>> /\ note[3] = cell.tokens
        /\ Borrow(note) = 1 /\ r.amount > Threshold(note)

StandardCellsOk(r) ==
  \A i \in DOMAIN r.cells :
    LET note == Program(r.cells[i].script)
    IN  /\ IsStandard(note, r.program) /\ OwnerPolicyOk(r, note)
        /\ note[2] = <<"key", r.sender.key>> /\ note[3] = r.cells[i].tokens
        /\ Extension(note) = Extension(Program((r.borrowed \o r.cells)[1].script))

\* The new notes: what the recipient's cell holds, and what the sender keeps.
KeptPolicy(program, first) ==
  IF Borrow(first) = 0 /\ ~OwnerOnly(program) THEN Open(program, Extension(first)) ELSE Policy(first)
Filled(note, amount) == Note(note[2], note[3] + amount, Policy(note))
Destination(r, first) ==
  IF r.borrowed # <<>> THEN Filled(Program(r.borrowed[1].script), r.amount)
  ELSE Note(<<"key", r.recipient.key>>, r.amount, Open(r.program, Extension(first)))
SplitNotes(r, first, change) ==
  <<Destination(r, first)>>
  \o (IF change > 0 THEN <<Note(<<"key", r.sender.key>>, change, KeptPolicy(r.program, first))>> ELSE <<>>)
NextNotes(r) == SplitNotes(r, Program(r.cells[1].script), Tokens(r.cells) - r.amount)

\* A borrowed deposit belongs to the receiver and stays in its cell.
NextValues(r, notes) ==
  LET deposit == Deposited(r.program)
      first == IF r.borrowed = <<>> THEN deposit ELSE Max({r.borrowed[1].amount, deposit})
  IN  [k \in DOMAIN notes |-> IF k = 1 THEN first ELSE deposit]

StandardWitness(r, notes, i) ==
  <<IF i = 1 THEN <<"leader", notes>> ELSE <<"delegate">>,
    IF i = 1 /\ r.borrowed # <<>> THEN <<"borrowed">> ELSE <<"empty">>>>

FirstCoins(coins, enough) == IF enough = {} THEN coins ELSE SubSeq(coins, 1, Min(enough))
Covering(coins, needed) ==
  FirstCoins(coins, {n \in 1 .. Len(coins) : TotalOf(SubSeq(coins, 1, n)) >= needed})
Funding(r, cells, needed) ==
  Covering(SortSeq(SelectSeq(r.utxos, LAMBDA u : ~u.coinbase /\ u.outpoint \notin Outpoints(cells)),
                   LAMBDA a, b : a.amount > b.amount),
           needed - TotalOf(cells))

StandardTxOf(r, cells, coins, notes, values, fee) ==
  TokenTx([i \in DOMAIN cells |-> [CellInput(cells[i], r.token) EXCEPT !.witness = StandardWitness(r, notes, i)]]
          \o [i \in DOMAIN coins |-> FundingInput(coins[i])],
          [k \in DOMAIN values |-> TokenOutput(values[k], PayToScriptHash(notes[k]), r.token)]
          \o <<Output(TotalOf(cells) + TotalOf(coins) - SumOf(values) - fee, PayTo(r.sender))>>)

\* The fee is raised until it pays for the mass, or nothing is left.
ChangeOf(tx) == tx.outs[Len(tx.outs)].amount
RaisedFee(r, tx, fee) ==
  IF ChangeOf(tx) < Dust THEN fee ELSE Max({fee, CellFee, r.feeRate * Mass(tx.ins, tx.outs)})
JudgeStandard(tx, fee, next) == IF next = fee THEN tx ELSE Retry(next)
PriceStandard(r, tx, fee) == JudgeStandard(tx, fee, RaisedFee(r, tx, fee))
StandardPaid(r, cells, coins, notes, values) ==
  LET Round(fee) == PriceStandard(r, StandardTxOf(r, cells, coins, notes, values, fee), fee)
      End[fee \in Nat] == Follow(Round(fee), fee, End)
  IN  Round(End[CellFee])
StandardFunded(r, cells, notes, values) ==
  StandardPaid(r, cells, Funding(r, cells, SumOf(values) + FundingMargin), notes, values)
StandardWith(r, cells, notes) == StandardFunded(r, cells, notes, NextValues(r, notes))
StandardTx(r) == StandardWith(r, r.borrowed \o r.cells, NextNotes(r))

\* The signing request: each own cell is signed inside its prebuilt witness,
\* each funding coin in the ordinary way; a borrowed leader is not signed.
CellSigned(tx, i) ==
  [index |-> i, prebuilt |-> tx.ins[i].witness, redeem |-> <<>>, mode |-> "none", args |-> <<>>,
   offsets |-> {2}, hash |-> <<All>>, expected |-> <<Commitment(tx, i, All)>>]
StandardRequest(r, tx) ==
  LET n == Len(r.borrowed) + Len(r.cells)
  IN  [sender |-> r.sender, profile |-> "kcc20-standard-transfer", terms |-> r, tx |-> tx,
       signInputs |-> [k \in 1 .. Len(tx.ins) - n |-> [index |-> n + k, hash |-> All, expected |-> <<>>]],
       scripts |-> [k \in DOMAIN r.cells |-> CellSigned(tx, Len(r.borrowed) + k)]]

StandardBuilt(r, tx) ==
  IF Len(tx.ins) = Len(r.borrowed) + Len(r.cells) \/ ChangeOf(tx) < Dust THEN Refused("InsufficientFunds")
  ELSE IF Mass(tx.ins, tx.outs) > MassLimit THEN Refused("mass limit")
  ELSE Built(tx, StandardRequest(r, tx))
CellsDiffer(cells) == Cardinality(Outpoints(cells)) = Len(cells)
BuildStandard(r) ==
  IF \/ r.amount = 0 \/ r.cells = <<>> \/ Len(r.borrowed) + Len(r.cells) > InputLimit[r.program]
     \/ r.feeRate \notin 1 .. MaxFeeRate \/ r.sender.net # "mainnet" \/ r.recipient.net # "mainnet"
     \/ ~BorrowedOk(r) \/ ~StandardCellsOk(r) \/ ~CellsDiffer(r.borrowed \o r.cells)
     \/ Tokens(r.cells) < r.amount \/ Tokens(r.borrowed \o r.cells) > TokenSupply
  THEN Refused("InvalidRequest")
  ELSE StandardBuilt(r, StandardTx(r))

\* kcc20-standard-transfer-v1 is signed only as it is rebuilt here.
IsBuilt(built, req) == built.ok /\ built.review = req
StandardTransferOk(req) == IsBuilt(BuildStandard(req.terms), req)

----------------------------------------------------------------------------
(* KRON cells: one funding coin, the largest.  A cell is a presence note:  *)
(* it moves because its owner's own coin is an input.                      *)
KronPolicy(template) == <<"kron", template>>
KronTemplate(r) == Policy(Program(r.cells[1].script))
KronCellOk(r, i) ==
  /\ KronTemplate(r)[1] = "kron"
  /\ Program(r.cells[i].script) = Note(<<"key", r.sender.key>>, r.cells[i].tokens, KronTemplate(r))

KronSplit(r, policy, left) ==
  <<Note(<<"key", r.recipient.key>>, r.amount, policy)>>
  \o (IF left > 0 THEN <<Note(<<"key", r.sender.key>>, left, policy)>> ELSE <<>>)
KronNotes(r) == KronSplit(r, KronTemplate(r), Tokens(r.cells) - r.amount)
\* A cell is moved by presence: its witness points at the signed input.
KronWitness(r, notes) == <<"kron", notes, Len(r.cells) + 1>>

KronTx(r, coin, notes, change) ==
  TokenTx([i \in DOMAIN r.cells |-> [CellInput(r.cells[i], r.token) EXCEPT !.witness = KronWitness(r, notes)]]
          \o <<FundingInput(coin)>>,
          [k \in DOMAIN notes |-> TokenOutput(CellDeposit, PayToScriptHash(notes[k]), r.token)]
          \o (IF change >= Dust THEN <<Output(change, PayTo(r.sender))>> ELSE <<>>))
KronFee(r, tx) == Max({CellFee, r.feeRate * ComputeMass(tx.ins, tx.outs)})
KronBuilt(r, tx) ==
  Built(tx, [sender |-> r.sender, profile |-> "kron-transfer", terms |-> r, tx |-> tx,
             signInputs |-> <<[index |-> Len(r.cells) + 1, hash |-> All, expected |-> <<>>]>>, scripts |-> <<>>])
KronPaidBy(r, coin, notes, total) ==
  LET At(fee) == IF total < fee THEN Refused("InsufficientFunds") ELSE KronBuilt(r, KronTx(r, coin, notes, total - fee))
  IN  At(KronFee(r, KronTx(r, coin, notes, total - CellFee)))
KronWith(r, coins, notes) ==
  IF coins = <<>> THEN Refused("InsufficientFunds")
  ELSE KronPaidBy(r, coins[1], notes, TotalOf(r.cells) + coins[1].amount - CellDeposit * Len(notes))

BuildKron(r) ==
  LET n == Len(r.cells)
  IN  IF \/ r.borrowed # <<>> \/ r.amount = 0 \/ n \notin 1 .. 4 \/ Cardinality(Outpoints(r.cells)) # n
         \/ \E i \in 1 .. n : ~KronCellOk(r, i)
         \/ Tokens(r.cells) < r.amount
      THEN Refused("InvalidRequest")
      ELSE KronWith(r, Spendable(r.utxos), KronNotes(r))

KronTransferOk(req) == req.sender.net = "mainnet" /\ req.tx.version = 1 /\ Fee(req.tx) >= 0
BuildTransfer(r) == IF r.program \in DOMAIN InputLimit THEN BuildStandard(r) ELSE BuildKron(r)

----------------------------------------------------------------------------
(* The payment plan: while the largest cells the program takes together do *)
(* not cover the amount, they are compounded into one cell of the sender,  *)
(* which with the KAS change of that step funds the next.                  *)
PlanSourceOk(r) ==
  /\ r.program \in DOMAIN InputLimit /\ Len(r.cells) \in 1 .. PlanCells /\ r.amount > 0
  /\ StandardCellsOk(r) /\ BorrowedOk(r)
  /\ Cardinality(Outpoints(r.borrowed \o r.cells)) = Len(r.borrowed \o r.cells)
  /\ \A i \in DOMAIN r.cells : r.cells[i].tokens > 0
  /\ Tokens(r.cells) \in r.amount .. TokenSupply

\* The coins a compounding step leaves: its one cell, predicted from the
\* first cell it takes, and the change of its transaction.
PlanOutputKeepingDeposits(r, selected, k) ==
  LET first == Program(selected[1].script)
  IN  [outpoint |-> <<"step", k, 1>>, amount |-> TotalOf(selected), tokens |-> Tokens(selected),
       script |-> PayToScriptHash(Note(first[2], Tokens(selected), Open(r.program, Extension(first))))]
PlanOutput(r, selected, k) ==
  LET first == Program(selected[1].script)
  IN  [outpoint |-> <<"step", k, 1>>, amount |-> Deposited(r.program), tokens |-> Tokens(selected),
       script |-> PayToScriptHash(Note(first[2], Tokens(selected), Open(r.program, Extension(first))))]
PlanChange(r, tx, k) ==
  [outpoint |-> <<"step", k, Len(tx.outs)>>, amount |-> tx.outs[Len(tx.outs)].amount, script |-> PayTo(r.sender),
   address |-> r.sender, covenant |-> NoCovenant, coinbase |-> FALSE]

\* The plan after a step over the first cells of the rest was built.
PlanAfter(r, at, selected, rest, compound, built) ==
  LET k == Len(at.steps) + 1
  IN  IF ~built.ok \/ k > PlanSteps THEN [at EXCEPT !.status = "refused"]
      ELSE IF ~compound
      THEN [at EXCEPT !.status = "ready", !.steps = Append(@, built.review), !.fee = @ + Fee(built.tx)]
      ELSE [at EXCEPT !.steps = Append(@, built.review), !.fee = @ + Fee(built.tx),
              !.cells = Append(rest, PlanOutput(r, selected, k)),
              !.utxos = Append(SelectSeq(@, LAMBDA u : u.outpoint \notin Outpoints(built.tx.ins)),
                               PlanChange(r, built.tx, k))]
StepRequest(r, at, selected, compound) ==
  [r EXCEPT !.cells = selected, !.utxos = at.utxos,
            !.recipient = IF compound THEN r.sender ELSE @,
            !.amount = IF compound THEN Tokens(selected) ELSE @,
            !.borrowed = IF compound THEN <<>> ELSE @]
StepOver(r, at, selected, rest, compound) ==
  PlanAfter(r, at, selected, rest, compound, BuildStandard(StepRequest(r, at, selected, compound)))
StepTaking(r, at, cells, compound, taken) ==
  StepOver(r, at, SubSeq(cells, 1, taken), SubSeq(cells, taken + 1, Len(cells)), compound)
StepLimit(r, compound) == InputLimit[r.program] - (IF compound THEN 0 ELSE Len(r.borrowed))
StepFrom(r, at, cells) ==
  LET Step(compound) == StepTaking(r, at, cells, compound, Min({Len(cells), StepLimit(r, compound)}))
  IN  Step(Min({n \in DOMAIN cells : Tokens(SubSeq(cells, 1, n)) >= r.amount}) > StepLimit(r, FALSE))
PlanStep(r, at) == StepFrom(r, at, SortSeq(at.cells, LAMBDA a, b : a.tokens > b.tokens))

PlanStart(r) ==
  [status |-> IF PlanSourceOk(r) THEN "open" ELSE "refused", steps |-> <<>>, fee |-> 0,
   cells |-> r.cells, utxos |-> r.utxos]
BuildPlan(r) ==
  FoldLeft(LAMBDA at, k : IF at.status = "open" THEN PlanStep(r, at) ELSE at, PlanStart(r), [k \in 1 .. PlanSteps + 1 |-> k])
=============================================================================
