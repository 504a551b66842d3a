------------------------------ MODULE DotkSales ------------------------------
(***************************************************************************)
(* Names for sale (dotk_market.rs, dotk_sale.rs, dotk.rs, dotk_sale.sil).  *)
(* A name is a deed coin; listing it hands the deed to a sale covenant     *)
(* that the same transaction creates, buying or cancelling spends both.    *)
(***************************************************************************)
EXTENDS CoreTransaction
LOCAL INSTANCE SequencesExt
LOCAL INSTANCE FiniteSetsExt

CONSTANTS
  Registry,         \* the covenant of all deeds
  Bond,             \* a deed's value, 1 KAS
  SaleReserve,      \* RESERVE, 1 KAS
  MinSalePrice,     \* 10 KAS
  MaxSalePrice,     \* the monetary range
  SaleMassLimit     \* the block mass limit

NetOf(price) == price - (price * 21) \div 1000
FeeFor(price) == (price * 21) \div 1000
Mainnet(address) == address.net = "mainnet"

\* derive: the deed of a name for a key (type 0) or a covenant (type 4).
DeedScript(name, type, owner) == PayToScriptHash(<<"deed", name, type, owner>>)
SaleScript(t) == PayToScriptHash(<<"sale", t>>)
SaleTermsOk(t) == Mainnet(t.seller) /\ Mainnet(t.feeTo) /\ t.price \in MinSalePrice .. MaxSalePrice

SaleCellOk(cell, script, id, amount) == cell.covenant = <<id>> /\ cell.amount = amount /\ cell.script = script

Biggest(coins) == SortSeq(coins, LAMBDA x, y : x.amount > y.amount)
SaleId(r) == IF r.sale # <<>> THEN r.sale[1].covenant[1] ELSE <<"sale", Biggest(r.coins)[1].outpoint>>

OldDeed(r, id) == IF r.action = "list" THEN DeedScript(r.terms.name, 0, r.terms.seller.key)
                  ELSE DeedScript(r.terms.name, 4, id)
NewDeed(r, id) == IF r.action = "list" THEN DeedScript(r.terms.name, 4, id)
                  ELSE DeedScript(r.terms.name, 0, r.sender.key)
Bound(amount, script, covenant) == [amount |-> amount, script |-> script, covenant |-> covenant]

SaleOuts(r, id) ==
  <<Bound(Bond, NewDeed(r, id), <<Registry, 1>>)>>
  \o CASE r.action = "list" -> <<Bound(SaleReserve, SaleScript(r.terms), <<id, 2>>)>>
       [] r.action = "buy" -> <<Output(NetOf(r.terms.price) + SaleReserve, PayTo(r.terms.seller)),
                                Output(FeeFor(r.terms.price), PayTo(r.terms.feeTo))>>
       [] r.action = "cancel" -> <<Output(SaleReserve, PayTo(r.terms.seller))>>

Required(r) == CASE r.action = "list" -> SaleReserve [] r.action = "buy" -> r.terms.price [] OTHER -> 0

\* The largest coins first, until they pay what is required, the fee of the
\* transaction they make and change above dust, and that has no more than the mass
\* of a block.
SaleCellsOk(r, id) ==
  /\ id # Registry /\ SaleCellOk(r.deed, OldDeed(r, id), Registry, Bond)
  /\ \A k \in DOMAIN r.sale : SaleCellOk(r.sale[k], SaleScript(r.terms), id, SaleReserve)
SaleFee(r, ins, outs) == r.feeRate * ComputeMass(ins, outs \o <<0>>)
SaleExcess(r, funds) == TotalOf(funds) - Required(r)
Enough(excess, fee) == excess > Dust /\ excess - fee >= Dust

SaleTx(r, ins, outs, change) ==
  [version |-> 1, payload |-> <<>>, ins |-> ins, outs |-> outs \o <<Output(change, PayTo(r.sender))>>]
SaleBuilt(r, tx, fee) == Built(tx, [request |-> r, tx |-> tx, fee |-> fee])
SalePaidBy(r, cells, funds, outs) ==
  LET At(fee) == SaleBuilt(r, SaleTx(r, cells \o funds, outs, SaleExcess(r, funds) - fee), fee)
  IN  At(SaleFee(r, cells \o funds, outs))
Distinct(ins) == Cardinality(Outpoints(ins)) = Len(ins)
SaleFits(r, ins, funds, outs) ==
  LET fee == SaleFee(r, ins, outs)
      excess == SaleExcess(r, funds)
  IN  Enough(excess, fee) /\ Mass(ins, SaleTx(r, ins, outs, excess - fee).outs) <= SaleMassLimit

\* The coins are taken one by one until they fit; none of those taken may be there
\* twice or leave the monetary range.
FundSale(r, coins, cells, outs) ==
  LET Fund(n) == SubSeq(coins, 1, n)
      most == Min({Len(coins), MaxInputs - Len(cells)})
      fitting == {n \in 1 .. most : SaleFits(r, cells \o Fund(n), Fund(n), outs)}
      funds == Fund(Min(fitting \cup {most}))
  IN  IF ~Distinct(cells \o funds) THEN Refused("UntrustedUtxo")
      ELSE IF TotalOf(funds) > MaxSalePrice THEN Refused("funding exceeds monetary range")
      ELSE IF fitting = {} THEN Refused("InsufficientFunds")
      ELSE SalePaidBy(r, cells, funds, outs)
SaleOf(r, coins, cells, id) ==
  IF ~SaleCellsOk(r, id) \/ ~Distinct(cells)
  THEN Refused("UntrustedUtxo")
  ELSE FundSale(r, coins, cells, SaleOuts(r, id))
BuildSale(r) ==
  IF \/ ~SaleTermsOk(r.terms) \/ r.feeRate \notin 1 .. MaxFeeRate \/ ~Mainnet(r.sender)
     \/ (r.action # "buy" /\ r.sender # r.terms.seller)
     \/ (r.action = "list") # (r.sale = <<>>)
  THEN Refused("InvalidRequest")
  ELSE IF r.coins = <<>> THEN Refused("InsufficientFunds")
  ELSE SaleOf(r, Biggest(r.coins), <<r.deed>> \o r.sale, SaleId(r))

----------------------------------------------------------------------------
(* The sale contract; approver is whose signature the witness holds.       *)
Ins(tx, id) == {i \in DOMAIN tx.ins : tx.ins[i].covenant = <<id>>}
Outs(tx, id) == {k \in DOMAIN tx.outs : tx.outs[k].covenant # NoCovenant /\ tx.outs[k].covenant[1] = id}

DeedPasses(t, tx, newOwner) ==
  LET id == tx.ins[2].covenant[1]
  IN  /\ tx.ins[2].amount = SaleReserve /\ id # Registry
      /\ Cardinality(Ins(tx, id)) = 1 /\ Outs(tx, id) = {}
      /\ Ins(tx, Registry) = {1} /\ Outs(tx, Registry) = {1}
      /\ tx.ins[1].amount = Bond /\ tx.outs[1].amount = Bond
      /\ tx.ins[1].script = DeedScript(t.name, 4, id)
      /\ tx.outs[1].script = DeedScript(t.name, 0, newOwner)

Paid(out, script, amount) == out.script = script /\ out.amount = amount
SaleAccepts(t, tx, action, approver) ==
  CASE action = "buy" ->
         /\ DeedPasses(t, tx, approver)
         /\ Paid(tx.outs[2], PayTo(t.seller), NetOf(t.price) + SaleReserve)
         /\ Paid(tx.outs[3], PayTo(t.feeTo), FeeFor(t.price))
    [] action = "cancel" ->
         /\ approver = t.seller.key /\ DeedPasses(t, tx, t.seller.key)
         /\ Paid(tx.outs[2], PayTo(t.seller), SaleReserve)
    [] OTHER -> FALSE
=============================================================================
