------------------------------ MODULE TradeProfiles ------------------------------
(***************************************************************************)
(* The swap and order profiles the core recomputes before it signs a       *)
(* draft: KRON (pskt.rs), KaspaRocket (pskt.rs), Kasseal (kasseal.rs) and  *)
(* KasForge (kasforge.rs).  A token coin is locked by a note, the program  *)
(* <<"note", owner, amount, policy>>, whose owner is a key, a covenant or  *)
(* a script; a venue by <<"curve" or "pool", token, state>>.  Matching a   *)
(* program with its pinned template is matching the tuple's tag.           *)
(***************************************************************************)
EXTENDS PsktDraft
LOCAL INSTANCE SequencesExt
LOCAL INSTANCE FiniteSetsExt

CONSTANTS
  TokenSupply,      \* the fixed supply a note may not exceed
  NetworkFeeCap,    \* 2 KAS, the most a Kasseal swap may pay the network
  NoteFloor,        \* the least deposit of a prepared note
  PrepareDebit,     \* the most a preparation may cost the wallet, 7 KAS
  OrderDeposit,     \* the deposit of an order and of its token piece
  OrderFeeCap,      \* the absolute network fee limit of an order
  MergeCost,        \* what merging notes for an order may cost
  ExpiryWindow,     \* <<least, most>> an order lives, in DAA
  RocketPayees      \* the two pinned fee addresses, <<platform, partner>>

KeyOwner(req) == <<"key", req.sender.key>>
CovenantOwner(id) == <<"covenant", id>>
ScriptOwner(redeem) == <<"script", redeem>>
Note(owner, amount, policy) == <<"note", owner, amount, policy>>
Policy(note) == note[4]

\* The program behind a script: the core is shown it and hashes it.
Program(script) == IF script[1] = "sh" THEN script[2] ELSE <<"none">>
IsNote(script) == Program(script)[1] = "note" /\ Program(script)[3] <= TokenSupply
NoteOwner(script) == Program(script)[2]
NoteAmount(script) == Program(script)[3]

Of(coin, id) == coin.covenant # NoCovenant /\ coin.covenant[1] = id
Plain(coin) == coin.covenant = NoCovenant
AmountOf(list, S) == SumOf([i \in DOMAIN list |-> IF i \in S THEN list[i].amount ELSE 0])
TokensOf(list, S) == SumOf([i \in DOMAIN list |-> IF i \in S THEN NoteAmount(list[i].script) ELSE 0])
Fee(tx) == TotalOf(tx.ins) - TotalOf(tx.outs)

\* The wallet's plain coins, and its notes of a token, in a list of coins.
OwnPlain(req, list) == {i \in DOMAIN list : Plain(list[i]) /\ list[i].script = SenderScript(req)}
OwnNotes(req, list, token) ==
  {i \in DOMAIN list : Of(list[i], token) /\ IsNote(list[i].script) /\ NoteOwner(list[i].script) = KeyOwner(req)}
Debit(req) == AmountOf(req.tx.ins, OwnPlain(req, req.tx.ins)) - AmountOf(req.tx.outs, OwnPlain(req, req.tx.outs))
TokenGain(req, token) == TokensOf(req.tx.outs, OwnNotes(req, req.tx.outs, token))
                         - TokensOf(req.tx.ins, OwnNotes(req, req.tx.ins, token))

----------------------------------------------------------------------------
(* KRON: validate_kron_swap.                                               *)
KronFeeRoles == {"creatorFee", "platformFee", "devFundFee"}
KronRoleOk(req, k) ==
  LET t == req.terms
      role == t.roles[k]
      out == req.tx.outs[k]
  IN  /\ out.amount = role.value /\ out.script = role.script
      /\ CASE role.role \in {"pool", "curve"} -> k = 1 /\ Of(out, t.market)
           [] role.role \in {"poolToken", "inventory"} -> k = 2 /\ Of(out, t.token)
           [] role.role \in {"trader", "recipient", "seller"} ->
                Of(out, t.token) /\ out.script = PayToScriptHash(t.traderRedeem)
                /\ NoteOwner(out.script) = KeyOwner(req)
           [] role.role \in KronFeeRoles ->
                Plain(out) /\ out.script = <<"pk", t.payee[role.role]>> /\ out.amount = t.fees[role.role]
           [] OTHER -> FALSE

KronShape(req) ==
  LET tx == req.tx  t == req.terms
      funding == Selected(req)
      traders == 3 .. Len(t.traderRedeems) + 2
      names == {t.roles[k].role : k \in DOMAIN t.roles}
  IN  /\ tx.version = 1 /\ req.scripts = <<>> /\ t.token # t.market
      /\ t.side \in {"buy", "sell"} /\ (t.side = "buy") <=> (t.traderRedeems = <<>>)
      /\ Len(t.traderRedeems) <= 3
      /\ Len(tx.ins) = 2 + Len(t.traderRedeems) + Cardinality(funding)
      /\ \A i \in funding : SighashOf(req, i) = All /\ i \in OwnPlain(req, tx.ins)
      /\ \A i \in DOMAIN tx.ins \ funding :
           (Of(tx.ins[i], t.token) \/ Of(tx.ins[i], t.market)) /\ tx.ins[i].witness # <<>>
      /\ Of(tx.ins[1], t.market) /\ Of(tx.ins[2], t.token)
      /\ \A i \in traders : /\ Of(tx.ins[i], t.token)
                            /\ tx.ins[i].script = PayToScriptHash(t.traderRedeems[i - 2])
                            /\ NoteOwner(tx.ins[i].script) = KeyOwner(req)
      /\ Len(tx.outs) = Len(t.roles) + 1 /\ Len(tx.outs) \in OwnPlain(req, tx.outs)
      /\ Cardinality(names) = Len(t.roles) /\ {"creatorFee", "platformFee", t.phase} \subseteq names
      /\ \A k \in DOMAIN t.roles : KronRoleOk(req, k)

KronEconomics(req) ==
  LET tx == req.tx  t == req.terms
      buy == t.side = "buy"
      moved == tx.outs[1].amount - tx.ins[1].amount
      owned == TokensOf(tx.ins, 3 .. Len(t.traderRedeems) + 2)
      kept == \E k \in DOMAIN t.roles : t.roles[k].role \in {"trader", "recipient", "seller"}
      received == IF kept THEN t.traderRedeem[3] ELSE 0
      fees == t.fees["creatorFee"] + t.fees["platformFee"] + t.fees["devFundFee"]
  IN  /\ t.gross = (IF buy THEN moved ELSE -moved) /\ t.gross >= 0
      /\ t.netKas = (IF buy THEN t.gross + fees ELSE t.gross - fees) /\ t.netKas >= 0
      /\ t.amount > 0 /\ t.raw > 0
      /\ IF buy THEN received = t.amount /\ received >= t.minimum /\ t.raw = t.gross
         ELSE t.amount = t.raw /\ owned - received = t.raw /\ t.netKas >= t.minimum
      /\ Fee(tx) = t.networkFee

KronSwapOk(req) == KronShape(req) /\ KronEconomics(req)

----------------------------------------------------------------------------
(* KaspaRocket: validate_kasparocket_request.                              *)
RocketOk(req) ==
  LET tx == req.tx  t == req.terms
      bound(id) == (\E i \in DOMAIN tx.ins : Of(tx.ins[i], id)) \/ (\E k \in DOMAIN tx.outs : Of(tx.outs[k], id))
      paid(payee, fee) == \E k \in DOMAIN tx.outs : tx.outs[k].script = <<"pk", payee>> /\ tx.outs[k].amount = fee
  IN  /\ tx.version = 1 /\ tx.payload = <<>> /\ t.side \in {"buy", "sell"} /\ t.token # t.market
      /\ bound(t.token) /\ bound(t.market)
      /\ AllSighashesAre(req, All)
      /\ \A i \in Selected(req) : \E s \in Elements(req.signInputs) \cup Elements(req.scripts) :
           s.index = i /\ s.expected = <<Commitment(tx, i, All)>>
      /\ t.platform + t.partner = t.totalFee
      /\ req.sender.net = "mainnet" =>
           Fee(tx) >= 0 /\ paid(RocketPayees[1], t.platform) /\ paid(RocketPayees[2], t.partner)

----------------------------------------------------------------------------
(* Kasseal: validate and validate_preparation.                             *)
KassealEnvelope(req, outputs) ==
  /\ req.tx.version = 1 /\ req.tx.payload = <<>> /\ req.sender.net = req.terms.net
  /\ Len(req.tx.ins) <= 32 /\ Len(req.tx.outs) <= outputs
  /\ AllSighashesAre(req, All)

IsVenue(script, t) == Program(script)[1] = t.venue /\ Program(script)[2] = t.token
\* A curve nobody has bought from yet keeps its first blocks for its creator.
CreatorWindow(in, req) ==
  LET p == Program(in.script)
  IN  IF req.terms.side = "buy" /\ p[1] = "curve" /\ p[3] = "untouched" /\ p[4] # req.sender.key THEN 200 ELSE 0

KassealInputOk(req, i) ==
  LET in == req.tx.ins[i]  t == req.terms  picked == i \in Selected(req)
  IN  CASE Plain(in) -> in.sequence = 0 /\ in.script = SenderScript(req) /\ picked
        [] Of(in, t.token) -> /\ in.sequence = 0 /\ IsNote(in.script)
                              /\ IF NoteOwner(in.script) = KeyOwner(req) THEN picked
                                 ELSE NoteOwner(in.script) = CovenantOwner(t.market) /\ ~picked
        [] OTHER -> /\ Of(in, t.market) /\ ~picked /\ IsVenue(in.script, t)
                    /\ in.sequence = CreatorWindow(in, req)

KassealOutputOk(req, k) ==
  LET out == req.tx.outs[k]  t == req.terms
  IN  CASE Plain(out) -> out.script = SenderScript(req)
        [] Of(out, t.token) -> /\ IsNote(out.script)
                               /\ NoteOwner(out.script) \in {KeyOwner(req), CovenantOwner(t.market)}
        [] OTHER -> Of(out, t.market) /\ IsVenue(out.script, t)

KassealSwapOk(req) ==
  LET tx == req.tx  t == req.terms
      venueIn == {i \in DOMAIN tx.ins : Of(tx.ins[i], t.market)}
      venueOut == {k \in DOMAIN tx.outs : Of(tx.outs[k], t.market)}
      moved == AmountOf(tx.outs, venueOut) - AmountOf(tx.ins, venueIn)
      lockedIn == AmountOf(tx.ins, OwnNotes(req, tx.ins, t.token))
      lockedOut == AmountOf(tx.outs, OwnNotes(req, tx.outs, t.token))
      gain == TokenGain(req, t.token)
  IN  /\ KassealEnvelope(req, 16) /\ t.token # t.market /\ t.side \in {"buy", "sell"}
      /\ \A i \in DOMAIN tx.ins : KassealInputOk(req, i)
      /\ \A k \in DOMAIN tx.outs : KassealOutputOk(req, k)
      /\ Cardinality(venueIn) = 1 /\ Cardinality(venueOut) = 1
      /\ Fee(tx) \in 0 .. NetworkFeeCap /\ Fee(tx) = t.networkFee
      /\ IF t.side = "buy"
         THEN /\ OwnNotes(req, tx.ins, t.token) = {} \/ TokensOf(tx.ins, OwnNotes(req, tx.ins, t.token)) = 0
              /\ gain = t.amount /\ gain >= t.minimum /\ gain > 0
              /\ t.kas > 0 /\ t.kas <= t.raw /\ moved = t.kas
              /\ Debit(req) = t.kas + lockedOut + Fee(tx) /\ Debit(req) <= t.maximum
         ELSE /\ TokensOf(tx.ins, OwnNotes(req, tx.ins, t.token)) > 0
              /\ -gain = t.amount /\ t.amount = t.raw /\ -moved = t.kas /\ t.kas >= t.minimum
              /\ -Debit(req) = t.kas + lockedIn - lockedOut - Fee(tx) /\ -Debit(req) >= t.minimum

KassealPrepareOk(req) ==
  LET tx == req.tx  t == req.terms
      notesIn == OwnNotes(req, tx.ins, t.token)
      notesOut == OwnNotes(req, tx.outs, t.token)
      locked == AmountOf(tx.outs, notesOut) - AmountOf(tx.ins, notesIn)
      total == TokensOf(tx.ins, notesIn)
  IN  /\ KassealEnvelope(req, 4) /\ t.side = "sell" /\ t.amount \in 1 .. TokenSupply
      /\ Selected(req) = DOMAIN tx.ins
      /\ DOMAIN tx.ins = notesIn \cup OwnPlain(req, tx.ins)
      /\ DOMAIN tx.outs = notesOut \cup OwnPlain(req, tx.outs)
      /\ \A k \in notesOut : tx.outs[k].amount >= NoteFloor
      /\ CASE t.operation = "split" -> /\ Cardinality(notesIn) = 1 /\ Cardinality(notesOut) = 2
                                       /\ \E k \in notesOut : NoteAmount(tx.outs[k].script) = t.amount
           [] t.operation = "merge" -> Cardinality(notesIn) \in 2 .. 3 /\ Cardinality(notesOut) = 1
           [] OTHER -> FALSE
      /\ total > 0 /\ total = TokensOf(tx.outs, notesOut)
      /\ Fee(tx) \in 0 .. NetworkFeeCap /\ Fee(tx) = t.networkFee
      /\ locked <= 2 * NoteFloor /\ Debit(req) <= PrepareDebit /\ Debit(req) = locked + Fee(tx)

----------------------------------------------------------------------------
(* KasForge: placing a buy or a sell order, merging notes for one, and     *)
(* cancelling it from its recovery receipt.  An order is the program       *)
(* <<"order", state>>; a sell order also owns a note.                      *)
Versions == {"3.3", "3.4", "3.5", "3.6", "3.7", "3.8", "none"}
RefundFee == 1

\* order_program: the pinned candidates of the contract version, tried in order.
Candidates(state) ==
  CASE state.side = "buy" ->
         (CASE state.contracts \in {"3.7", "3.8"} -> {"ForgeBuyOrder"}
            [] state.contracts \in {"3.4", "3.5", "3.6"} -> {"ForgeBuyOrder_v4"}
            [] state.contracts = "3.3" -> {"ForgeBuyOrder_v33"}
            [] OTHER -> {"ForgeBuyOrder", "ForgeBuyOrder_v4", "ForgeBuyOrder_v33"})
    [] ~state.guarded -> IF state.contracts \in {"3.3", "none"} THEN {"ForgeSellOrder_v1"} ELSE {}
    [] state.contracts = "3.3" -> {"ForgeSellOrder_v3"}
    [] state.contracts = "none" -> {"ForgeSellOrder", "ForgeSellOrder_v3"}
    [] OTHER -> {"ForgeSellOrder"}

OrderProgram(order) == <<"order", order.state, order.template>>
OrderOk(order) ==
  /\ order.state.contracts \in Versions /\ order.template \in Candidates(order.state)
  /\ order.state.refundFee = RefundFee

Deposit(order) == IF order.template = "ForgeSellOrder" THEN 2 * OrderDeposit ELSE OrderDeposit

\* The programs a note of the wallet may carry, and the one an order's may.
WalletPolicies(state) == {<<"plain">>, <<"borrow">>} \cup {p \in {<<"refund guard">>} : state.guarded}
OrderPolicies == {<<"plain">>}

OrderEnvelope(req) ==
  LET state == req.terms.order.state
  IN  /\ OrderOk(req.terms.order)
      /\ state.token = req.terms.token /\ state.market = req.terms.market
      /\ req.sender.net = "testnet" /\ state.owner = req.sender.key
      /\ req.tx.version = 1 /\ req.tx.payload = <<>> /\ AllSighashesAre(req, All)
      /\ \A i \in DOMAIN req.tx.ins : req.tx.ins[i].sequence = 0
      /\ Fee(req.tx) \in 0 .. OrderFeeCap

\* Notes the draft spends: the wallet's own, or on recovery the order's.
SpentNotes(req) ==
  LET owner == IF req.terms.action = "cancel" THEN ScriptOwner(OrderProgram(req.terms.order)) ELSE KeyOwner(req)
  IN  {i \in DOMAIN req.tx.ins :
         LET in == req.tx.ins[i]
         IN  /\ Of(in, req.terms.token) /\ IsNote(in.script) /\ NoteOwner(in.script) = owner
             /\ req.terms.action = "cancel" => in.outpoint = req.terms.savedTokens}
SpentOrder(req) ==
  {i \in DOMAIN req.tx.ins :
     LET in == req.tx.ins[i]
     IN  /\ Plain(in) /\ in.script = PayToScriptHash(OrderProgram(req.terms.order))
         /\ in.outpoint = req.terms.savedOrder /\ in.amount = req.terms.orderAmount}

OrderInputsOk(req) ==
  LET cancel == req.terms.action = "cancel"
      coins == IF cancel THEN SpentOrder(req) ELSE OwnPlain(req, req.tx.ins)
  IN  /\ DOMAIN req.tx.ins = coins \cup SpentNotes(req)
      /\ Selected(req) = (IF cancel THEN coins ELSE DOMAIN req.tx.ins)
      /\ Cardinality(SpentNotes(req)) <= 3

PlacedOrder(req) ==
  {k \in DOMAIN req.tx.outs : /\ req.terms.action # "cancel" /\ k = req.terms.orderIndex
                              /\ Plain(req.tx.outs[k]) /\ req.tx.outs[k].amount = req.terms.orderAmount
                              /\ req.tx.outs[k].script = PayToScriptHash(OrderProgram(req.terms.order))}
NoteOuts(req) == DOMAIN req.tx.outs \ (PlacedOrder(req) \cup OwnPlain(req, req.tx.outs))

NoteOutOk(req, k) ==
  LET out == req.tx.outs[k]  t == req.terms
      escrow == t.action # "cancel" /\ t.order.state.side = "sell" /\ k = t.tokenIndex
  IN  /\ Of(out, t.token) /\ IsNote(out.script) /\ out.covenant[2] \in SpentNotes(req)
      /\ NoteOwner(out.script) = IF escrow THEN ScriptOwner(OrderProgram(t.order)) ELSE KeyOwner(req)
      /\ out.amount = IF escrow THEN Deposit(t.order) ELSE OrderDeposit
      /\ Policy(Program(out.script)) \in
           IF escrow \/ t.action = "cancel" THEN OrderPolicies ELSE WalletPolicies(t.order.state)
      /\ escrow => NoteAmount(out.script) = t.order.state.amount

Cost(req) == Max({0, Debit(req)})

CancelOk(req) ==
  LET sell == req.terms.order.state.side = "sell"
  IN  /\ Len(req.tx.ins) = (IF sell THEN 2 ELSE 1)
      /\ Cardinality(NoteOuts(req)) = (IF sell THEN 1 ELSE 0)
      /\ Fee(req.tx) <= OrderFeeCap \div 5
      /\ Len(req.scripts) = 1 /\ req.scripts[1].redeem = OrderProgram(req.terms.order)

ExpiryOk(t) ==
  LET later == Max({t.chain[1], t.chain[2]})
  IN  /\ t.chain[1] # 0
      /\ t.chain[1] - t.chain[2] \in -ExpiryWindow[1] .. ExpiryWindow[1]
      /\ t.order.state.expiry \in later + ExpiryWindow[1] .. later + ExpiryWindow[2]

MergeOk(req) ==
  /\ req.terms.order.state.side = "sell" /\ PlacedOrder(req) = {}
  /\ Cardinality(NoteOuts(req)) = 1 /\ Len(req.tx.outs) = 2 /\ Cost(req) <= MergeCost

SellOk(req) ==
  LET t == req.terms
  IN  /\ t.order.state.side = "sell" /\ PlacedOrder(req) # {} /\ SpentNotes(req) # {}
      /\ t.order.state.amount = t.amount /\ t.order.state.minimum >= t.minimum
      /\ t.orderAmount = OrderDeposit
      /\ Cost(req) <= Deposit(t.order) + OrderDeposit + Fee(req.tx)

BuyOk(req) ==
  LET t == req.terms
  IN  /\ t.order.state.side = "buy" /\ PlacedOrder(req) # {} /\ SpentNotes(req) = {} /\ NoteOuts(req) = {}
      /\ t.order.state.minimum >= t.minimum /\ t.order.state.amount <= t.amount
      /\ Debit(req) \in 0 .. t.maximum

KasForgeOk(req) ==
  LET tx == req.tx  t == req.terms
  IN  /\ OrderEnvelope(req) /\ OrderInputsOk(req)
      /\ \A k \in NoteOuts(req) : NoteOutOk(req, k)
      /\ TokensOf(tx.ins, SpentNotes(req)) = TokensOf(tx.outs, NoteOuts(req))
      /\ CASE t.action = "cancel" -> CancelOk(req)
           [] t.action = "merge" -> ExpiryOk(t) /\ MergeOk(req)
           [] t.action = "order-sell" -> ExpiryOk(t) /\ SellOk(req)
           [] t.action = "order-buy" -> ExpiryOk(t) /\ BuyOk(req)
           [] OTHER -> FALSE
      /\ tx.lock = 0
      /\ Fee(tx) \in Mass(tx.ins, tx.outs) .. Max({(5 * Mass(tx.ins, tx.outs)) \div 2, OrderFeeCap \div 5})
=============================================================================
