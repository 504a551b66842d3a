---------------------------- MODULE ListingMarkets ----------------------------
(***************************************************************************)
(* The inscription markets: KaspaCom (kaspacom_market.rs) and the wallet's *)
(* own KRC721 market (nft_market.rs).  An asset for sale sits in a coin    *)
(* whose redeem script names the seller and the asset.  The seller signs   *)
(* the coin and one payout with SINGLE|ANYONECANPAY; a buyer adds coins    *)
(* and outputs.  Both files rebuild the whole draft from the approved      *)
(* terms and sign only a draft that equals it.                             *)
(***************************************************************************)
EXTENDS PsktDraft
LOCAL INSTANCE SequencesExt
LOCAL INSTANCE FiniteSetsExt

CONSTANTS
  Commission,       \* <<platform key, exchange key>>, pinned
  FeeUnit,          \* KaspaCom rounds a fee to 0.001 KAS
  MinPlatformFee,   \* 0.5 KAS
  PriceUnit,        \* prices have two decimals
  MaxFunds          \* the coins of the buyer a purchase uses, 80

Listing(kind, seller, asset) == <<"listing", kind, seller.key, asset>>
ListingCell(a) ==
  {a.cells[k] : k \in {j \in DOMAIN a.cells : a.cells[j].outpoint = a.wanted}}
AnyOf(cells) == CHOOSE c \in cells : TRUE
RedeemOf(a) == Listing(a.kind, a.seller, a.asset)
LargestFirst(coins) == SortSeq(coins, LAMBDA x, y : x.amount > y.amount)
Capped(coins) == SubSeq(coins, 1, Min({Len(coins), MaxFunds}))
Draft(coin, witness) == [outpoint |-> coin.outpoint, amount |-> coin.amount, script |-> coin.script,
                         covenant |-> coin.covenant, coinbase |-> FALSE, sequence |-> 0, witness |-> witness]

\* The change, output number index, pays a fee that covers the mass of the
\* transaction with that change.
Paying(ins, outs, index, fee) == [outs EXCEPT ![index].amount = TotalOf(ins) - (TotalOf(outs) - @) - fee]
JudgeChange(paid, index, fee, required) ==
  IF paid[index].amount < Dust THEN [outs |-> <<>>] ELSE IF fee >= required THEN [outs |-> paid] ELSE Retry(required)
PriceChange(ins, paid, index, fee, rate) == JudgeChange(paid, index, fee, rate * Mass(ins, paid))
Settle(ins, outs, index, rate) ==
  LET Round(fee) == PriceChange(ins, Paying(ins, outs, index, fee), index, fee, rate)
      End[fee \in Nat] == Follow(Round(fee), fee, End)
  IN  Round(End[0]).outs

MarketTx(ins, outs) ==
  [version |-> 0, native |-> TRUE, lock |-> 0, ins |-> ins, outs |-> outs, payload |-> <<>>, id |-> <<>>]
OrRefused(ins, outs) == IF outs = <<>> THEN Refused("InsufficientFunds") ELSE Built(MarketTx(ins, outs), <<>>)
Unpriced(address) == Output(Dust, PayTo(address))

\* Recovering one's own asset: the coin returns to the seller.
CancelTx(a, cell) ==
  LET ins == <<Draft(cell, <<>>)>> IN OrRefused(ins, Settle(ins, <<Unpriced(a.seller)>>, 1, a.feeRate))

Bought(ins, outs, rate) == OrRefused(ins, Settle(ins, outs, 2, rate))
Funded(coins) == [k \in DOMAIN coins |-> Draft(coins[k], <<>>)]
BuyTx(a, cell, payout, signature, fees) ==
  Bought(<<Draft(cell, signature)>> \o Funded(Capped(LargestFirst(a.coins))),
         <<payout, Unpriced(a.sender)>> \o fees, a.feeRate)

----------------------------------------------------------------------------
(* KaspaCom.                                                               *)
PlatformFee(price, delegated) ==
  LET step == (IF delegated THEN 80 ELSE 40) * FeeUnit
  IN  Max({((price + step \div 2) \div step) * FeeUnit, MinPlatformFee})

KaspaComFees(a) ==
  <<Output(a.fee, <<"pk", Commission[1]>>)>>
  \o (IF a.exchangeFee = 0 THEN <<>> ELSE <<Output(a.exchangeFee, <<"pk", Commission[2]>>)>>)
  \o (IF a.royalty = 0 THEN <<>> ELSE <<Output(a.royalty, PayTo(a.royaltyTo))>>)

\* The order the market returned: the seller's one input, its payout first
\* and then the fees, with the seller's signature blanked out.
OrderIsAsShown(a, cell, payout) ==
  /\ a.order.outpoint = a.wanted /\ a.order.script = cell.script /\ a.order.amount = cell.amount
  /\ a.order.plain /\ a.order.signature = <<"masked">>
  /\ a.order.outs = <<payout>> \o KaspaComFees(a)

KaspaComOrder(a, cell, payout) ==
  IF a.action = "offer" THEN Built(MarketTx(<<Draft(cell, <<>>)>>, <<payout>>), <<>>)
  ELSE IF /\ OrderIsAsShown(a, cell, payout)
          /\ a.fee = PlatformFee(a.price, a.exchangeFee # 0)
          /\ a.exchangeFee \in {0, a.fee}
          /\ a.royalty <= a.price /\ (a.royalty # 0 => a.kind = "krc721")
  THEN BuyTx(a, cell, payout, <<"masked">>, KaspaComFees(a))
  ELSE Refused("InvalidRequest")

KaspaComRaw(a, cell) ==
  IF \/ a.action \notin {"offer", "buy", "cancel"} \/ a.feeRate \notin 1 .. MaxFeeRate
     \/ (a.action = "buy") <=> (a.sender = a.seller)
  THEN Refused("InvalidRequest")
  ELSE IF a.action = "cancel" THEN CancelTx(a, cell)
  ELSE IF a.price = 0 \/ a.price % PriceUnit # 0 THEN Refused("InvalidRequest")
  ELSE KaspaComOrder(a, cell, Output(a.price + cell.amount, PayTo(a.seller)))

----------------------------------------------------------------------------
(* The wallet's KRC721 market: 2.1 % of the price, taken from the payout;  *)
(* the seller's signature is verified, over what this wallet would build.  *)
NftFee(price) == (price * 21 + 999) \div 1000
NftPayout(a, cell) == Output(a.price - NftFee(a.price) + cell.amount, PayTo(a.seller))
NftOffer(a, cell) == MarketTx(<<Draft(cell, <<>>)>>, <<NftPayout(a, cell)>>)
SellerSigned(a, cell) ==
  a.order.signature = <<Sig(a.seller.key, Commitment(NftOffer(a, cell), 1, SellerSighash)), RedeemOf(a)>>

NftFees(a) == <<Output(NftFee(a.price), PayTo(a.feeTo))>>
NftRaw(a, cell) ==
  IF \/ a.feeRate \notin 1 .. MaxFeeRate
     \/ a.action \notin {"offer", "buy", "cancel", "verify-offer"}
     \/ (a.action \in {"offer", "cancel"} /\ a.sender # a.seller)
  THEN Refused("InvalidRequest")
  ELSE IF a.action = "cancel" THEN CancelTx(a, cell)
  ELSE IF a.price < Dust \/ NftFee(a.price) < Dust THEN Refused("InvalidRequest")
  ELSE IF a.action # "offer" /\ ~SellerSigned(a, cell) THEN Refused("InvalidRequest")
  ELSE IF a.action = "buy" THEN BuyTx(a, cell, NftPayout(a, cell), a.order.signature, NftFees(a))
  ELSE Built(NftOffer(a, cell), <<>>)

----------------------------------------------------------------------------
(* The signing request of a market action, and the check before signing.   *)
RawOf(a, cells) ==
  IF cells = {} THEN Refused("InvalidRequest")
  ELSE IF a.market = "kaspacom" THEN KaspaComRaw(a, AnyOf(cells)) ELSE NftRaw(a, AnyOf(cells))
Raw(a) == RawOf(a, ListingCell(a))
HashFor(a) == IF a.action = "offer" THEN SellerSighash ELSE All
SignInput(i, hash) == [index |-> i, hash |-> hash, expected |-> <<>>]
WrapScript(a) ==
  [index |-> 1, redeem |-> RedeemOf(a), mode |-> "wrap", args |-> <<>>, hash |-> <<HashFor(a)>>,
   prebuilt |-> <<>>, offsets |-> {}, expected |-> <<>>]

MarketRequest(a, tx) ==
  [sender |-> a.sender, profile |-> a.market, side |-> a.action, terms |-> a, tx |-> tx,
   signInputs |-> IF a.action = "buy" THEN [k \in 1 .. Len(tx.ins) - 1 |-> SignInput(k + 1, All)]
                  ELSE <<SignInput(1, HashFor(a))>>,
   scripts |-> IF a.action = "buy" THEN <<>> ELSE <<WrapScript(a)>>]

\* validate of both files: the draft and all that is signed of it.
IsMarketDraft(req, raw) == raw.ok /\ req = MarketRequest(req.terms, raw.tx)
MarketOk(req) == req.terms.action # "verify-offer" /\ IsMarketDraft(req, Raw(req.terms))

\* normalize_transport_pskt: an answer of the market is completed with the
\* addresses of its inputs, which its scripts determine.
TransportOk(ins, buyer) ==
  /\ Len(ins) \in 2 .. MaxFunds + 1
  /\ ins[1].script[1] = "sh"
  /\ \A i \in 2 .. Len(ins) : ins[i].script = PayTo(buyer)
  /\ \A i \in DOMAIN ins : ins[i].address \in {<<>>, ins[i].script}
=============================================================================
