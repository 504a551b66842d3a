----------------------------- MODULE BraidDeposits -----------------------------
(***************************************************************************)
(* Braid deposits and reclaims (braid.rs).  A deposit locks coins under a  *)
(* router program that commits to every term of the swap; the pinned       *)
(* executor fills it or, after its deadline, the owner reclaims it.  The   *)
(* core rebuilds the router from the approved terms and the partner fee    *)
(* from a pool state read independently of the quote.                      *)
(***************************************************************************)
EXTENDS TradeProfiles
LOCAL INSTANCE SequencesExt
LOCAL INSTANCE FiniteSetsExt

CONSTANTS
  Deci,             \* 0.1 KAS in sompi, the unit of the floors and caps
  BraidPins,        \* token -> [venue, pool]: the pinned pools
  RouterPin,        \* network -> the pinned router program and keys
  KasScale,         \* the KAS unit of a KRON pool
  LpScale           \* the share scale of a KRON pool

ASSUME BraidAssumption == Deci \in Nat \ {0}

KasSide == [asset |-> "KAS", template |-> <<"none">>]
Template(asset) == BraidPins[asset].venue
SideOk(side, asset) ==
  IF asset = "KAS" THEN side = KasSide
  ELSE asset \in DOMAIN BraidPins /\ side = [asset |-> asset, template |-> Template(asset)]
Router(terms) == <<"router", terms>>
BraidNote(side, owner, amount) == Note(owner, amount, side.template)

----------------------------------------------------------------------------
(* The independent valuation of a sale: pool_values.                       *)
ConstantProductSale(pool, amount, rate) ==
  LET gross == (pool.kas * amount) \div (pool.tokens + amount)
  IN  [gross |-> gross, net |-> gross - Max({(gross * rate) \div 10000, Deci})]

\* KRON keeps part of the liquidity fee in the pool; the sale is the largest
\* amount that leaves the product of the reserves whole.
Retained(pool, u) ==
  IF pool.shares = LpScale \/ u = 0 THEN 0
  ELSE (u * 20 * (pool.shares - LpScale) - 1) \div (10000 * pool.shares) + 1
Whole(pool, amount, taken) ==
  taken <= pool.kas /\ (pool.kas - taken) * (pool.tokens + amount) >= pool.kas * pool.tokens
RetainedNet(pool, gross) ==
  LET lp == (gross * 20) \div 10000
      fee == Max({gross \div 1000 + (lp * LpScale) \div pool.shares, 2 * Deci})
             + Max({(gross * 70) \div 10000, 2 * Deci})
  IN  [gross |-> gross, net |-> gross - fee]
RetainedSale(pool, amount) ==
  RetainedNet(pool, KasScale * Max({0} \cup {m \in 0 .. pool.kas - 1 : Whole(pool, amount, m + Retained(pool, m))}))

PoolSale(v, amount, rate) ==
  IF v.venue = <<"kr">> THEN ConstantProductSale(v, amount, rate) ELSE RetainedSale(v, amount)
Floor(net, slippage) == (net * (10000 - slippage)) \div 10000
ValuedAt(v, slippage, sale) ==
  sale.net > 0 /\ v.sale = sale /\ v.floor = Floor(sale.net, slippage) /\ v.floor > 0
ValuationOk(s) ==
  LET v == s.valuation
      rate == IF s.net = "mainnet" THEN 100 ELSE 30
  IN  /\ s.from \in DOMAIN BraidPins /\ [venue |-> v.venue, pool |-> v.pool] = BraidPins[s.from]
      /\ s.amountIn > 0 /\ s.slippage \in 1 .. 500 /\ v.tokens > 0
      /\ IF v.venue = <<"kr">> THEN v.graduated /\ v.kas > 0 ELSE v.kas > 1 /\ v.shares >= LpScale
      /\ ValuedAt(v, s.slippage, PoolSale(v, s.amountIn, rate))

\* A staged swap, and a fee on a token's sale or on a swap between tokens,
\* are measured against the valuation.
Staged(s) == s.midMin > 0
NeedsValuation(s) ==
  Staged(s) \/ (s.terms.wfee > 0 /\ (s.terms.midMin > 0 \/ (s.from # "KAS" /\ s.to # "KAS")))

Carrier(s) == IF s.from # "KAS" /\ s.to # "KAS" /\ s.terms.wfee > 0 /\ s.terms.midMin = 0 THEN s.carrier ELSE 0

\* validate_partner_fee: 1 % of what the user is sure to receive, at most.
PartnerFeeOk(s) ==
  LET t == s.terms
      floor == s.valuation.floor
      gross == s.valuation.sale.gross
      basis == IF s.from = "KAS" THEN s.payTotal ELSE s.quotedOut - s.kasBack
  IN  IF s.feeBps = 0 /\ s.net # "mainnet"
      THEN t.wfee = 0 /\ t.wfeePk = "none" /\ t.tkFloor = 0
      ELSE /\ s.feeBps = 100 /\ t.wfee = s.walletFee
           /\ t.wfeePk = IF t.wfee = 0 THEN "none" ELSE "partner"
           /\ CASE t.wfee = 0 -> t.tkFloor = 0
                [] t.wfee > 0 /\ t.midMin > 0 ->
                     /\ t.tkFloor = 0 /\ s.carrier = 0
                     /\ s.feeBasis \in (gross * (10000 - s.slippage)) \div 10000 .. gross
                     /\ t.wfee \in Deci .. s.feeBasis \div 100
                [] t.wfee > 0 /\ t.midMin = 0 /\ s.from # "KAS" /\ s.to # "KAS" ->
                     /\ s.carrier \in Deci .. 5 * Deci
                     /\ t.tkFloor = floor /\ floor \div 100 > s.carrier
                     /\ t.wfee = (s.amountIn * (floor \div 100 - s.carrier)) \div floor
                     /\ t.wfee <= s.amountIn \div 50
                [] OTHER ->
                     /\ t.tkFloor = 0 /\ t.wfee >= Deci
                     /\ s.from # "KAS" =>
                          /\ basis >= 0 /\ s.slippage \in 1 .. 500
                          /\ t.minOut >= s.quotedOut - (basis * s.slippage + 9999) \div 10000
                     /\ t.wfee <= basis \div 100

----------------------------------------------------------------------------
(* What a deposit and its reclaim have in common.                          *)
BraidTermsOk(req) ==
  LET s == req.terms  t == s.terms
  IN  /\ NeedsValuation(s) => ValuationOk(s)
      /\ s.net = req.sender.net /\ req.tx.version = 1 /\ AllSighashesAre(req, All)
      /\ Len(req.tx.ins) <= 32 /\ Len(req.tx.outs) <= 8
      /\ \A i \in DOMAIN req.tx.ins : req.tx.ins[i].sequence = 0
      /\ t.recipient = req.sender.key /\ t.refund = req.sender.key
      /\ s.stage2 => req.profile = "braid-reclaim" /\ Staged(s)
      /\ s.from # s.to /\ SideOk(t.in, s.from) /\ SideOk(t.out, s.to)
      /\ IF Staged(s)
         THEN /\ s.from # "KAS" /\ t.in.template = t.out.template
              /\ t.midMin >= s.midMin /\ t.tkFloor = 0
              /\ s.midMin >= s.valuation.floor - s.valuation.floor \div 100 + 5 * Deci
         ELSE t.midMin = 0
      /\ PartnerFeeOk(s)
      /\ s.minimumOut > 0 /\ t.minOut >= s.minimumOut /\ t.feeCap <= s.feeCap
      /\ t.intent = <<s.nonce, s.ref>> /\ s.router = RouterPin[s.net]
      /\ s.amountIn > 0 /\ t.inAmount = IF s.from = "KAS" THEN 0 ELSE s.amountIn

\* Two chain clocks, at most ten minutes apart; a deposit lives between half
\* an hour and about three hours, a reclaim waits for its end.
Later(s) == Max({s.chainDaa, s.secondDaa})
DeadlineOk(req) ==
  LET s == req.terms
  IN  /\ s.chainDaa > 0 /\ s.secondDaa > 0
      /\ s.chainDaa - s.secondDaa \in -600 .. 600
      /\ IF req.profile = "braid-reclaim" THEN Later(s) > s.terms.deadline
         ELSE s.terms.deadline \in Later(s) + 1800 .. Later(s) + 12000

\* The terms the coin is locked under: a staged swap whose first half has
\* run waits under terms with no input side.
SpentTerms(s) ==
  IF s.stage2 THEN [s.terms EXCEPT !.in = KasSide, !.inAmount = 0, !.midMin = 0] ELSE s.terms
InSide(s) == SpentTerms(s).in
CoinProgram(s) == Router(SpentTerms(s))

----------------------------------------------------------------------------
ReclaimWitness == <<<<"signature">>, <<"reclaim">>>>
BraidReclaimOk(req) ==
  LET s == req.terms  tx == req.tx
      token == InSide(s).asset # "KAS"
      ci == IF token THEN 2 ELSE 1
  IN  /\ req.profile = "braid-reclaim"
      /\ Fee(tx) \in 0 .. Deci \div 2
      /\ Len(tx.ins) = ci /\ Len(tx.outs) = ci /\ tx.lock = s.terms.deadline /\ tx.payload = <<>>
      /\ tx.ins[ci].script = PayToScriptHash(CoinProgram(s)) /\ Plain(tx.ins[ci])
      /\ ci \in OwnPlain(req, tx.outs)
      /\ tx.ins[ci].outpoint = s.depositCoin /\ tx.ins[ci].amount = s.depositValue
      /\ token =>
           /\ tx.ins[1].script = PayToScriptHash(BraidNote(InSide(s), ScriptOwner(CoinProgram(s)), s.amountIn))
           /\ Of(tx.ins[1], s.from) /\ tx.ins[1].outpoint = s.depositNote
           /\ tx.outs[1].covenant = <<s.from, 1>> /\ tx.outs[1].amount = tx.ins[1].amount
           /\ tx.outs[1].script = PayToScriptHash(BraidNote(InSide(s), KeyOwner(req), s.amountIn))
      /\ Selected(req) = {ci} /\ Scripted(req) = {ci} /\ ~IsPrebuilt(ScriptOf(req, ci))
      /\ ScriptOf(req, ci).redeem = CoinProgram(s)
      /\ ScriptOf(req, ci).mode = "ordered" /\ ScriptOf(req, ci).args = ReclaimWitness

\* What the router coin carries: a token sale its processing carrier, a KAS
\* swap the amount itself.
RouterValue(s) ==
  LET t == s.terms
      paidInTokens == s.to # "KAS" /\ t.wfee > 0 /\ ~Staged(s)
  IN  CASE s.from # "KAS" /\ paidInTokens -> 10 * Deci + Carrier(s)
        [] s.from # "KAS" /\ ~paidInTokens -> 10 * Deci + t.wfee
        [] OTHER -> s.amountIn + (IF s.to = "KAS" THEN Deci ELSE 6 * Deci) + t.wfee

\* The wallet's notes of the sold token, all of one program.
BraidNotes(req, list) ==
  {i \in DOMAIN list : /\ Of(list[i], req.terms.from) /\ IsNote(list[i].script)
                       /\ list[i].script = PayToScriptHash(BraidNote(req.terms.terms.in, KeyOwner(req), NoteAmount(list[i].script)))
                       /\ NoteAmount(list[i].script) > 0}
\* A reference note is signed in place, a KRON presence note is not signed.
BraidNoteSigned(req, i) ==
  IF req.terms.terms.in.template = <<"kron">> THEN i \notin Selected(req)
  ELSE i \in Scripted(req) /\ IsPrebuilt(ScriptOf(req, i)) /\ ScriptOf(req, i).prebuilt = req.tx.ins[i].witness

BraidDepositOk(req) ==
  LET s == req.terms  t == s.terms  tx == req.tx
      plain == OwnPlain(req, tx.ins)
      notes == IF s.from = "KAS" THEN {} ELSE BraidNotes(req, tx.ins)
      coin == s.coinIndex
      left == TokensOf(tx.ins, notes) - s.amountIn
      locked == {s.noteIndex}
      change == {k \in DOMAIN tx.outs \ ({coin} \cup locked) :
                   /\ tx.outs[k].script = PayToScriptHash(BraidNote(t.in, KeyOwner(req), left))
                   /\ tx.outs[k].amount <= 5 * Deci}
      bound(k) == tx.outs[k].covenant # NoCovenant /\ tx.outs[k].covenant[1] = s.from
                  /\ tx.outs[k].covenant[2] \in notes
      own == OwnPlain(req, tx.outs) \ {coin}
  IN  /\ req.profile = "braid-deposit"
      /\ Fee(tx) \in 0 .. Deci /\ tx.lock = 0 /\ tx.payload = <<"BRT1", RouterPin[s.net], t>>
      /\ coin \in DOMAIN tx.outs /\ tx.outs[coin].script = PayToScriptHash(Router(t))
      /\ Plain(tx.outs[coin]) /\ tx.outs[coin].amount \in RouterValue(s) .. RouterValue(s) + Deci - 1
      /\ DOMAIN tx.ins = plain \cup notes /\ AmountOf(tx.ins, plain) > 0
      /\ plain \subseteq Selected(req) /\ plain \cap Scripted(req) = {}
      /\ \A i \in notes : BraidNoteSigned(req, i)
      /\ IF s.from = "KAS"
         THEN /\ req.scripts = <<>> /\ DOMAIN tx.outs = own \cup {coin}
              /\ AmountOf(tx.ins, plain) - AmountOf(tx.outs, own) = s.payTotal
         ELSE /\ left >= 0 /\ s.noteIndex \in DOMAIN tx.outs \ {coin}
              /\ tx.outs[s.noteIndex].script = PayToScriptHash(BraidNote(t.in, ScriptOwner(Router(t)), s.amountIn))
              /\ tx.outs[s.noteIndex].amount <= 5 * Deci
              /\ \A k \in locked \cup change : bound(k)
              /\ DOMAIN tx.outs = own \cup change \cup locked \cup {coin}
              /\ Cardinality(change) = IF left > 0 THEN 1 ELSE 0

BraidOk(req) == BraidTermsOk(req) /\ DeadlineOk(req) /\ (BraidReclaimOk(req) \/ BraidDepositOk(req))
=============================================================================
