----------------------------- MODULE MCCoreHosts -----------------------------
(***************************************************************************)
(* The instance of CoreHosts for TLC: a request of every kind that the     *)
(* core signs as it stands, one draft of every kind another program hands  *)
(* the wallet, one wallet that can be joined by a second, and apps that    *)
(* call a few methods a few times, with cancels, locks, restarts and       *)
(* minutes among them.  1 KAS is 100.                                      *)
(***************************************************************************)
EXTENDS CoreHosts

secret == [kind |-> "root", id |-> "w"]
me == Material(secret)
key == me.key
seller == Address("mainnet", <<"seller">>)
friend == Address("mainnet", <<"friend">>)
thief == Address("mainnet", <<"thief">>)
card == Address("mainnet", <<"card">>)
mine == PayTo(me)

U(n, amount, owner) ==
  [outpoint |-> <<"u", n>>, amount |-> amount, address |-> owner, script |-> PayTo(owner),
   coinbase |-> FALSE, covenant |-> NoCovenant]
In(n, amount, script, covenant, witness) ==
  [outpoint |-> <<"u", n>>, amount |-> amount, script |-> script, coinbase |-> FALSE, covenant |-> covenant,
   witness |-> witness, sequence |-> 0]
Own(n, amount) == In(n, amount, mine, NoCovenant, <<>>)
Out(amount, script, covenant) == [amount |-> amount, script |-> script, covenant |-> covenant]
Draw(version, ins, outs) ==
  [version |-> version, native |-> TRUE, lock |-> 0, ins |-> ins, outs |-> outs, payload |-> <<>>, id |-> <<>>]
Pick(indexes) == [k \in DOMAIN indexes |-> SignInput(indexes[k], All)]
Ask(sender, profile, terms, tx, inputs, scripts) ==
  [sender |-> sender, profile |-> profile, side |-> "none", terms |-> terms, tx |-> tx,
   signInputs |-> inputs, scripts |-> scripts]

----------------------------------------------------------------------------
MCTangemKeys == {<<"card">>}
MCRocketPayees == <<<<"platform">>, <<"partner">>>>
MCExpiry == <<10, 100>>
MCFeeBand == <<1, 4>>
MCCommission == <<<<"commission">>, <<"exchange">>>>
MCRegistry == <<"registry">>
MCBraidPins == [tok |-> [venue |-> <<"kr">>, pool |-> "pool1"]]
MCRouterPin == [mainnet |-> "router1", testnet |-> "router0"]
MCInputLimit == [standard |-> 2, kasseal |-> 3]
MCEvmChains == {1, 2}
MCGas == 1 .. 3

----------------------------------------------------------------------------
Payment == [sender |-> me, recipient |-> friend, amount |-> 150, feeRate |-> 1, sendAll |-> FALSE, signers |-> <<>>,
            utxos |-> <<U(1, 100, me), U(2, 120, me), U(3, 90, me)>>]
second == Address("mainnet", KeyAt(secret, HdPath(ModernCoin, 0, 0, 1)))
Account == [Payment EXCEPT
  !.signers = <<[address |-> me, bip44 |-> TRUE, path |-> DefaultPath],
                [address |-> second, bip44 |-> TRUE, path |-> HdPath(ModernCoin, 0, 0, 1)]>>,
  !.utxos = <<U(1, 100, me), U(2, 120, second)>>]
Sweep == [Account EXCEPT !.sendAll = TRUE, !.amount = 0]

Transfer == [kind |-> "krc20", sender |-> me, recipient |-> friend, asset |-> "tick", amount |-> 7]
CommitOf(op, scheme) ==
  [outpoint |-> <<"u", 1>>, amount |-> Committed(op), address |-> <<>>, script |-> CommitScript(op, scheme),
   coinbase |-> FALSE, covenant |-> NoCovenant]
Reveal == [operation |-> Transfer, commit |-> <<"u", 1>>, feeRate |-> 1,
           utxos |-> <<CommitOf(Transfer, "schnorr"), U(2, 100, me)>>]
List == [Transfer EXCEPT !.kind = "krc20-list", !.recipient = me]
ListReveal == [Reveal EXCEPT !.operation = List, !.utxos = <<CommitOf(List, "schnorr")>>]
Nft == [kind |-> "krc721", sender |-> card, recipient |-> friend, asset |-> "art", amount |-> 1]
CardCommit == [operation |-> Nft, card |-> <<"card">>, feeRate |-> 1, utxos |-> <<U(1, 100, card)>>]
CardReveal == [operation |-> Nft, card |-> <<"card">>, feeRate |-> 1, commit |-> <<"u", 1>>,
               utxos |-> <<CommitOf(Nft, "ecdsa")>>]

HiddenAt(branch, index) == HiddenAddress(secret, branch, index)
HiddenCoin(n, amount, a) == [outpoint |-> <<"u", n>>, amount |-> amount, script |-> a.script,
                             coinbase |-> FALSE, covenant |-> NoCovenant, witness |-> <<>>]
Hidden == [descriptor |-> TRUE, signers |-> <<HiddenAt(0, 0), HiddenAt(0, 1)>>, change |-> HiddenAt(1, 0),
           feeRate |-> 1, sendAll |-> FALSE, amount |-> 100, recipient |-> friend,
           utxos |-> <<HiddenCoin(2, 90, HiddenAt(0, 0)), HiddenCoin(1, 80, HiddenAt(0, 1))>>]

Evm == [from |-> EvmAddress(secret), to |-> Address("mainnet", <<"token">>), recipient |-> friend, value |-> 0, nonce |-> 1, gas |-> 2,
        gasPrice |-> 1, chain |-> 1, token |-> "usdc", shown |-> 5, data |-> <<"transfer", friend, 5>>]

PolicyTx(version, action, redeem, ins, outs) ==
  [version |-> version, lockTime |-> 0, ins |-> ins, outs |-> outs,
   payload |-> [protocol |-> VaultProtocol, action |-> action, owner |-> me, pinnedOwner |-> me, ownerKey |-> key,
                unlock |-> 9, beneficiary |-> friend, inactivity |-> 5, redeem |-> redeem,
                vault |-> PayToScriptHash(redeem), amount |-> 100]]
PolicyIn(n, amount, script, budget) ==
  [outpoint |-> <<"u", n>>, amount |-> amount, script |-> script, coinbase |-> FALSE, covenant |-> NoCovenant,
   signed |-> FALSE, budget |-> budget]
switch == SwitchRedeem(me, friend, 5)
Policies(r) == [sender |-> me, tx |-> r, signs |-> <<1>>, redeem |-> <<>>]
TimeLock == Policies(PolicyTx(0, "create", TimeLockRedeem(me, 9), <<PolicyIn(1, 200, mine, 0)>>,
                              <<Output(100, PayToScriptHash(TimeLockRedeem(me, 9))), Output(70, mine)>>))
Switch == Policies(PolicyTx(0, "dms-create", switch, <<PolicyIn(1, 200, mine, 0)>>,
                            <<Output(100, PayToScriptHash(switch)), Output(5, PayTo(friend)), Output(60, mine)>>))
Heartbeat == [Policies(PolicyTx(1, "dms-heartbeat", switch,
                                <<PolicyIn(1, 100, PayToScriptHash(switch), 1000), PolicyIn(2, 80, mine, 10)>>,
                                <<Output(100, PayToScriptHash(switch)), Output(60, mine)>>))
              EXCEPT !.signs = <<1, 2>>, !.redeem = switch]

Terms(from) == [name |-> "n", seller |-> from, feeTo |-> friend, price |-> 2000]
CellOf(n, amount, script, id) == [outpoint |-> <<"u", n>>, amount |-> amount, script |-> script, covenant |-> <<id>>]
NameList == [action |-> "list", sender |-> me, terms |-> Terms(me), feeRate |-> 1, sale |-> <<>>,
             deed |-> CellOf(1, Bond, DeedScript("n", 0, key), Registry),
             coins |-> <<U(2, 300, me), U(3, 200, me)>>]
NameBuy == [action |-> "buy", sender |-> me, terms |-> Terms(seller), feeRate |-> 1,
            sale |-> <<CellOf(2, SaleReserve, SaleScript(Terms(seller)), <<"sale9">>)>>,
            deed |-> CellOf(1, Bond, DeedScript("n", 4, <<"sale9">>), Registry),
            coins |-> <<U(3, 1500, me), U(4, 900, me)>>]
NameCancel == [NameBuy EXCEPT !.action = "cancel", !.terms = Terms(me),
                              !.sale = <<CellOf(2, SaleReserve, SaleScript(Terms(me)), <<"sale9">>)>>]

token == <<"tok">>
Kcc20Cell(n, tokens) == [outpoint |-> <<"u", n>>, amount |-> 40, tokens |-> tokens, minter |-> FALSE, token |-> token,
                         script |-> Kcc20Note(key, tokens)]
Kcc20 == [sender |-> me, recipient |-> friend, token |-> token, amount |-> 5, feeRate |-> 1,
          cells |-> <<Kcc20Cell(1, 3), Kcc20Cell(2, 4), Kcc20Cell(3, 1)>>,
          utxos |-> <<U(4, 300, me), U(5, 200, me)>>]

Cells(policy, sizes) ==
  [k \in DOMAIN sizes |-> [outpoint |-> <<"u", k>>, amount |-> 30, tokens |-> sizes[k],
                           script |-> PayToScriptHash(Note(<<"key", key>>, sizes[k], policy))]]
TokenPayment(program, policy, sizes, amount) ==
  [program |-> program, sender |-> me, recipient |-> friend, token |-> token, amount |-> amount, feeRate |-> 1,
   cells |-> Cells(policy, sizes), borrowed |-> <<>>, utxos |-> <<U(8, 400, me), U(9, 300, me)>>]
Reference == TokenPayment("standard", Open("standard", "x"), <<6>>, 4)
theirs == Note(<<"key", friend.key>>, 10, StandardPolicy("standard", 1, 2, "x"))
Borrowing == [Reference EXCEPT !.borrowed = <<[outpoint |-> <<"u", 7>>, amount |-> 60, tokens |-> 10,
                                               script |-> PayToScriptHash(theirs)]>>]
Kron == TokenPayment("kron", <<"kron", "v1">>, <<4, 3>>, 5)
Plan == TokenPayment("standard", Open("standard", "x"), <<3, 2, 2, 1>>, 6)
BorrowingPlan == [Plan EXCEPT !.borrowed = Borrowing.borrowed]
StandardPskt(r) == BuildTransfer(r).review

-----------------------------------------------------------------------------
(* Drafts of other programs: the terms the user sees and the transaction. *)

market == <<"mkt">>
MarketNote(tokens, policy) == PayToScriptHash(Note(<<"covenant", market>>, tokens, policy))
MyNote(tokens, policy) == PayToScriptHash(Note(<<"key", key>>, tokens, policy))
Held(n, amount, script, id) == In(n, amount, script, <<id>>, <<<<"drafted">>>>)
Cov(amount, script, id, from) == Out(amount, script, <<id, from>>)
Free(amount, script) == Out(amount, script, NoCovenant)
Expecting(tx, i) == [index |-> i, hash |-> All, expected |-> <<Commitment(tx, i, All)>>]

----------------------------------------------------------------------------
(* KRON *)
kron == <<"kron", "v1">>
KronTerms(side, redeems, kept, gross, net, amount, minimum, roles) ==
  [side |-> side, phase |-> "pool", token |-> token, market |-> market, traderRedeems |-> redeems,
   traderRedeem |-> kept, payee |-> [creatorFee |-> friend.key, platformFee |-> <<"kron">>, devFundFee |-> <<"dev">>],
   fees |-> [creatorFee |-> 5, platformFee |-> 5, devFundFee |-> 0], gross |-> gross, netKas |-> net,
   amount |-> amount, raw |-> IF side = "buy" THEN gross ELSE amount, minimum |-> minimum, networkFee |-> 10,
   roles |-> roles]
Role(name, o) == [role |-> name, value |-> o.amount, script |-> o.script]
KronDraft(side, sold, coin, pool, rest, kept, gross, net, amount, minimum, change) ==
  LET outs == <<Cov(pool, PayToScriptHash(<<"kronpool">>), market, 1), Cov(20, MarketNote(rest, kron), token, 2),
                Cov(20, MyNote(kept, kron), token, 2), Free(5, <<"pk", friend.key>>), Free(5, <<"pk", <<"kron">>>>),
                Free(change, PayTo(me))>>
      names == <<"pool", "poolToken", IF side = "buy" THEN "trader" ELSE "seller", "creatorFee", "platformFee">>
      ins == <<Held(1, 500, PayToScriptHash(<<"kronpool">>), market), Held(2, 20, MarketNote(100, kron), token)>>
             \o sold \o <<Own(4, coin)>>
      redeems == [k \in DOMAIN sold |-> Program(sold[k].script)]
      terms == KronTerms(side, redeems, Note(<<"key", key>>, kept, kron), gross, net, amount, minimum,
                         [k \in DOMAIN names |-> Role(names[k], outs[k])])
  IN  Ask(me, "kron-swap", terms, Draw(1, ins, outs), <<SignInput(Len(ins), All)>>, <<>>)
KronBuy == KronDraft("buy", <<>>, 400, 600, 90, 10, 100, 110, 10, 10, 260)
KronSell == KronDraft("sell", <<Held(3, 20, MyNote(10, kron), token)>>, 100, 400, 104, 6, 100, 90, 4, 90, 180)

----------------------------------------------------------------------------
(* KaspaRocket *)
RocketBuy ==
  LET tx == Draw(1, <<Held(1, 500, PayToScriptHash(<<"rocket">>), market), Own(2, 400)>>,
                 <<Cov(600, PayToScriptHash(<<"rocket">>), market, 1), Cov(20, MyNote(10, <<"rocket">>), token, 1),
                   Free(4, <<"pk", <<"platform">>>>), Free(2, <<"pk", <<"partner">>>>), Free(264, PayTo(me))>>)
  IN  Ask(me, "kasparocket", [side |-> "buy", token |-> token, market |-> market, platform |-> 4, partner |-> 2,
                              totalFee |-> 6], tx, <<Expecting(tx, 2)>>, <<>>)

----------------------------------------------------------------------------
(* Kasseal *)
seal == StandardPolicy("kasseal", 0, 0, "none")
Curve(state) == PayToScriptHash(<<"curve", token, state, friend.key>>)
Prebuilt(tx, i) == [index |-> i, prebuilt |-> tx.ins[i].witness, redeem |-> <<>>, mode |-> "none", args |-> <<>>,
                    offsets |-> {2}, hash |-> <<All>>, expected |-> <<Commitment(tx, i, All)>>]
Sealed(n, amount, tokens) == In(n, amount, MyNote(tokens, seal), <<token>>, <<<<"delegate">>, <<"empty">>>>)
KassealTerms(side, amount, kas, minimum, maximum) ==
  [net |-> "mainnet", side |-> side, token |-> token, market |-> market, venue |-> "curve", amount |-> amount,
   kas |-> kas, raw |-> IF side = "buy" THEN kas ELSE amount, minimum |-> minimum, maximum |-> maximum,
   networkFee |-> 10]
KassealBuy ==
  Ask(me, "kasseal-swap", KassealTerms("buy", 10, 100, 10, 130),
      Draw(1, <<[Held(1, 300, Curve("untouched"), market) EXCEPT !.sequence = 200],
                Held(2, 20, MarketNote(100, seal), token), Own(3, 400)>>,
           <<Cov(400, Curve("live"), market, 1), Cov(20, MarketNote(90, seal), token, 2),
             Cov(20, MyNote(10, seal), token, 2), Free(270, PayTo(me))>>),
      <<SignInput(3, All)>>, <<>>)
KassealSell ==
  LET tx == Draw(1, <<Held(1, 400, Curve("live"), market), Held(2, 20, MarketNote(90, seal), token),
                      Sealed(3, 20, 10), Own(4, 50)>>,
                 <<Cov(300, Curve("live"), market, 1), Cov(20, MarketNote(95, seal), token, 2),
                   Cov(20, MyNote(5, seal), token, 2), Free(140, PayTo(me))>>)
  IN  Ask(me, "kasseal-swap", KassealTerms("sell", 5, 100, 90, 0), tx, <<SignInput(4, All)>>, <<Prebuilt(tx, 3)>>)
KassealSplit ==
  LET tx == Draw(1, <<Sealed(1, 40, 10), Own(2, 100)>>,
                 <<Cov(20, MyNote(4, seal), token, 1), Cov(20, MyNote(6, seal), token, 1), Free(90, PayTo(me))>>)
  IN  Ask(me, "kasseal-prepare", [net |-> "mainnet", side |-> "sell", token |-> token, amount |-> 4,
                                  operation |-> "split", networkFee |-> 10], tx, <<SignInput(2, All)>>, <<Prebuilt(tx, 1)>>)

----------------------------------------------------------------------------
(* KForge: the draft its operators compute for the terms. *)
Venue(pool, sold, kas, tokens, value) ==
  [pool |-> pool, sold |-> sold, kas |-> kas, tokens |-> tokens, fees |-> 0, vault |-> 0, value |-> value]
KForgeTerms(buy, venue, note, amount, budget, debit, least) ==
  [net |-> "mainnet", token |-> token, market |-> market, creator |-> friend.key, venue |-> venue, note |-> note,
   buy |-> buy, amount |-> amount, budget |-> budget, maximumDebit |-> debit, minimumOut |-> least]
KForgeIns(t, ask, coin) ==
  <<In(1, t.venue.value, PayToScriptHash(VenueProgram(t, t.venue)), <<market>>, <<>>)>>
  \o (IF t.note = NoNote THEN <<>> ELSE <<In(2, t.note.cell, OwnCell(ask, t.note), <<token>>, <<>>)>>)
  \o <<In(3, Cell, VenueCell(ask, IF t.venue.pool THEN t.venue.tokens ELSE Lots - t.venue.sold), <<token>>, <<>>)>>
  \o (IF t.buy THEN <<Own(4, coin)>> ELSE <<>>)
KForgeOuts(t, trade, cells, rest) ==
  <<Cov(trade.venue.value, PayToScriptHash(VenueProgram(t, trade.venue)), market, 1)>>
  \o (IF t.buy THEN cells \o <<Free(rest, PayTo(me))>> ELSE <<Free(rest, PayTo(me))>> \o cells)
KForgeAsked(ask, tx) == [ask EXCEPT !.tx = tx, !.signInputs = <<Expecting(tx, IF ask.terms.buy THEN Len(tx.ins) ELSE 2)>>]
KForgePaid(t, ask, trade, cells, ins, fee) ==
  KForgeAsked(ask,
              Draw(1, ins, KForgeOuts(t, trade, cells, TotalOf(ins) - trade.venue.value - TotalOf(cells) - fee)))
NoteKept(t, trade) == CHOOSE n \in NotesAfter(t.note, t.buy, trade) : n = NoNote \/ ~n.borrow \/ t.note # NoNote
KForgeTraded(t, ask, trade, coin, fee) ==
  KForgePaid(t, ask, trade, TokenOuts(ask, trade, NoteKept(t, trade)), KForgeIns(t, ask, coin), fee)
KForgeAsk(t, ask, coin, fee) == KForgeTraded(t, ask, TheTrade(ask), coin, fee)
KForgeDraft(t, coin, fee) == KForgeAsk(t, Ask(me, "kforge", t, <<>>, <<>>, <<>>), coin, fee)
Noted(tokens, borrow) == [tokens |-> tokens, borrow |-> borrow, threshold |-> 0, cell |-> Cell]
KForgeBuy == KForgeDraft(KForgeTerms(TRUE, Venue(FALSE, 300, 0, 700, 5000), NoNote, 2, 700, 841, 2), 1500, 160)
KForgeSell == KForgeDraft(KForgeTerms(FALSE, Venue(FALSE, 300, 0, 700, 5000), Noted(5, TRUE), 2, 0, 0, 425), 0, 200)
KForgePool == KForgeDraft(KForgeTerms(TRUE, Venue(TRUE, 0, 1000, 300, 1000), Noted(5, TRUE), 100, 100, 181, 27), 600, 80)

----------------------------------------------------------------------------
(* KasForge, on the testnet *)
tester == Address("testnet", key)
OrderState(side, amount, minimum) ==
  [side |-> side, contracts |-> "3.8", guarded |-> TRUE, refundFee |-> 1, token |-> token, market |-> market,
   owner |-> key, amount |-> amount, minimum |-> minimum, expiry |-> 1050]
OrderTerms(action, state, template, coin, amount) ==
  [action |-> action, order |-> [state |-> state, template |-> template], token |-> token, market |-> market,
   savedOrder |-> <<"u", 1>>, savedTokens |-> <<"u", 2>>, orderAmount |-> coin, orderIndex |-> 1, tokenIndex |-> 2,
   chain |-> <<1000, 1000>>, amount |-> amount, minimum |-> 5, maximum |-> 220]
plainNote == <<"plain">>
OrderBuy ==
  LET t == OrderTerms("order-buy", OrderState("buy", 100, 5), "ForgeBuyOrder", 200, 100)
  IN  Ask(tester, "kasforge", t, Draw(1, <<Own(1, 500)>>, <<Free(200, PayToScriptHash(OrderProgram(t.order))), Free(280, mine)>>),
          Pick(<<1>>), <<>>)
OneKey(tx, i) == [index |-> i, prebuilt |-> <<>>, redeem |-> Program(tx.ins[i].script), mode |-> "first", args |-> <<>>,
                  offsets |-> {}, hash |-> <<All>>, expected |-> <<>>]
OrderSell ==
  LET t == OrderTerms("order-sell", OrderState("sell", 7, 5), "ForgeSellOrder", 30, 7)
      tx == Draw(1, <<Own(1, 500), In(2, 30, MyNote(10, plainNote), <<token>>, <<>>)>>,
                 <<Free(30, PayToScriptHash(OrderProgram(t.order))),
                   Cov(60, PayToScriptHash(Note(<<"script", OrderProgram(t.order)>>, 7, plainNote)), token, 2),
                   Cov(30, MyNote(3, plainNote), token, 2), Free(330, mine)>>)
  IN  Ask(tester, "kasforge", t, tx, Pick(<<1>>), <<OneKey(tx, 2)>>)
OrderMerge ==
  LET t == OrderTerms("merge", OrderState("sell", 7, 5), "ForgeSellOrder", 30, 7)
      tx == Draw(1, <<Own(1, 200), In(2, 30, MyNote(4, plainNote), <<token>>, <<>>),
                      In(3, 30, MyNote(6, plainNote), <<token>>, <<>>)>>,
                 <<Cov(30, MyNote(10, plainNote), token, 2), Free(190, mine)>>)
  IN  Ask(tester, "kasforge", t, tx, Pick(<<1>>), <<OneKey(tx, 2), OneKey(tx, 3)>>)
OrderCancel ==
  LET t == OrderTerms("cancel", OrderState("sell", 7, 5), "ForgeSellOrder", 60, 7)
      tx == Draw(1, <<In(1, 60, PayToScriptHash(OrderProgram(t.order)), NoCovenant, <<>>),
                      Held(2, 60, PayToScriptHash(Note(<<"script", OrderProgram(t.order)>>, 7, plainNote)), token)>>,
                 <<Cov(30, MyNote(7, plainNote), token, 2), Free(45, mine)>>)
  IN  Ask(tester, "kasforge", t, tx, <<>>, <<OneKey(tx, 1)>>)

----------------------------------------------------------------------------
(* Braid: a KAS swap, a token sale through a pinned pool, and a reclaim. *)
side == [asset |-> "tok", template |-> <<"kr">>]
RouterTerms(in, dest, amount, least, fee) ==
  [in |-> in, out |-> dest, inAmount |-> amount, recipient |-> key, refund |-> key, midMin |-> 0, tkFloor |-> 0,
   minOut |-> least, wfee |-> fee, wfeePk |-> IF fee = 0 THEN "none" ELSE "partner", feeCap |-> 5,
   intent |-> <<1, "ref">>, deadline |-> 3000]
pool == [venue |-> <<"kr">>, pool |-> "pool1", graduated |-> TRUE, kas |-> 100000, tokens |-> 1000, shares |-> 10,
         sale |-> [gross |-> 9090, net |-> 9000], floor |-> 8955]
BraidTerms(t, from, to, amount, fee, valued) ==
  [terms |-> t, net |-> "mainnet", from |-> from, to |-> to, stage2 |-> FALSE, midMin |-> 0, amountIn |-> amount,
   payTotal |-> amount + 65 + fee, quotedOut |-> 9000, kasBack |-> 0, feeBps |-> 100, walletFee |-> fee,
   feeBasis |-> 0, carrier |-> 0, slippage |-> 50, valuation |-> valued, minimumOut |-> t.minOut, feeCap |-> 5,
   nonce |-> 1, ref |-> "ref", router |-> RouterPin["mainnet"], chainDaa |-> 1000, secondDaa |-> 1010,
   coinIndex |-> 1, noteIndex |-> 2, depositCoin |-> <<"u", 2>>, depositNote |-> <<"u", 1>>, depositValue |-> 0]
BraidNoteOf(owner, tokens) == PayToScriptHash(Note(owner, tokens, side.template))
BraidBuy ==
  LET t == RouterTerms(KasSide, side, 0, 5, 10)
      s == BraidTerms(t, "KAS", "tok", 1000, 10, pool)
  IN  Ask(me, "braid-deposit", s,
          [Draw(1, <<Own(1, 1500)>>, <<Free(1070, PayToScriptHash(Router(t))), Free(425, mine)>>)
           EXCEPT !.payload = <<"BRT1", RouterPin["mainnet"], t>>],
          Pick(<<1>>), <<>>)
BraidSell ==
  LET t == RouterTerms(side, KasSide, 100, 8955, 80)
      s == BraidTerms(t, "tok", "KAS", 100, 80, pool)
      ins == <<In(1, 20, BraidNoteOf(<<"key", key>>, 150), <<"tok">>, <<<<"leader">>, <<"empty">>>>), Own(2, 400)>>
      tx == [Draw(1, ins, <<Free(185, PayToScriptHash(Router(t))),
                            Cov(20, BraidNoteOf(<<"script", Router(t)>>, 100), "tok", 1),
                            Cov(20, BraidNoteOf(<<"key", key>>, 50), "tok", 1), Free(190, mine)>>)
             EXCEPT !.payload = <<"BRT1", RouterPin["mainnet"], t>>]
  IN  Ask(me, "braid-deposit", s, tx, Pick(<<2>>), <<Prebuilt(tx, 1)>>)
Reclaims(s, tx, ci) ==
  Ask(me, "braid-reclaim", s, [tx EXCEPT !.lock = 3000], <<>>,
      <<[index |-> ci, prebuilt |-> <<>>, redeem |-> CoinProgram(s), mode |-> "ordered", args |-> ReclaimWitness,
         offsets |-> {}, hash |-> <<All>>, expected |-> <<>>]>>)
BraidBackOf(s, t) ==
  Reclaims(s, Draw(1, <<In(1, 20, BraidNoteOf(<<"script", t>>, 100), <<"tok">>, <<<<"leader">>>>),
                    In(2, 185, PayToScriptHash(t), NoCovenant, <<>>)>>,
                   <<Cov(20, BraidNoteOf(<<"key", key>>, 100), "tok", 1), Free(180, mine)>>), 2)
BackFrom(s) == BraidBackOf(s, Router(s.terms))
BraidBack == BackFrom([BraidSell.terms EXCEPT !.depositValue = 185, !.chainDaa = 3100, !.secondDaa = 3100])

----------------------------------------------------------------------------
(* The inscription markets *)
Sale(name, action, sender, from) ==
  [market |-> name, action |-> action, sender |-> sender, seller |-> from, kind |-> "krc721", asset |-> "art",
   price |-> 1000, feeRate |-> 1, wanted |-> <<"u", 1>>, feeTo |-> friend, fee |-> 25, exchangeFee |-> 0,
   royalty |-> 10, royaltyTo |-> friend, coins |-> <<U(2, 700, me), U(3, 900, me)>>,
   cells |-> <<[U(1, 60, from) EXCEPT !.script = PayToScriptHash(Listing("krc721", from, "art"))]>>,
   order |-> <<>>]
Ordered(a, outs, signature) ==
  [a EXCEPT !.order = [outpoint |-> a.wanted, script |-> a.cells[1].script, amount |-> 60, plain |-> TRUE,
                       signature |-> signature, outs |-> outs]]
Asked(a) == MarketRequest(a, Raw(a).tx)
Offered(a, payout) == MarketRequest(a, MarketTx(<<Draft(a.cells[1], <<>>)>>, <<payout>>))
NftOfferedFor(a) == Offered(a, NftPayout(a, a.cells[1]))
NftOffered == NftOfferedFor(Sale("krc721", "offer", me, me))
NftCancel == Asked(Sale("krc721", "cancel", me, me))
NftSale == Sale("krc721", "buy", me, seller)
NftBuy == Asked(Ordered(NftSale, <<>>, <<Sig(seller.key, Commitment(NftOffer(NftSale, NftSale.cells[1]), 1, SellerSighash)),
                                         RedeemOf(NftSale)>>))
KaspaComOffer == Offered(Sale("kaspacom", "offer", me, me), Free(1060, mine))
KaspaComCancel == Asked(Sale("kaspacom", "cancel", me, me))
KaspaComSale == Sale("kaspacom", "buy", me, seller)
KaspaComBuy == Asked(Ordered(KaspaComSale, <<Free(1060, PayTo(seller))>> \o KaspaComFees(KaspaComSale), <<"masked">>))

----------------------------------------------------------------------------
(* A draft of no profile the wallet knows: one input of three is its own,  *)
(* signed under a hash that binds one output, or none.                     *)
Joint(base) ==
  Ask(me, "generic", <<>>, Draw(0, <<Own(1, 300), In(2, 100, PayTo(seller), NoCovenant, <<>>)>>,
                                <<Free(250, mine), Free(140, PayTo(seller))>>),
      <<[SignInput(1, Sighash(base, TRUE)) EXCEPT !.expected = <<>>]>>, <<>>)
JointSingle == Joint("SINGLE")
JointNone == Joint("NONE")
JointAll == [Joint("ALL") EXCEPT !.signInputs = Pick(<<1>>)]

----------------------------------------------------------------------------
Sample(entry, request) == [method |-> entry, request |-> request]
MCSamples ==
  [payment |-> Sample("prepareTransaction", Payment), account |-> Sample("prepareTransaction", Account),
   sweep |-> Sample("prepareTransaction", Sweep), reveal |-> Sample("prepareReveal", Reveal),
   listReveal |-> Sample("prepareReveal", ListReveal), cardCommit |-> Sample("prepareTangemCommit", CardCommit),
   cardReveal |-> Sample("prepareTangemReveal", CardReveal), hidden |-> Sample("prepareHiddenKas", Hidden),
   evm |-> Sample("prepareEvmTransaction", Evm), timeLock |-> Sample("preparePolicyTransaction", TimeLock),
   deadMan |-> Sample("preparePolicyTransaction", Switch), heartbeat |-> Sample("preparePolicyTransaction", Heartbeat),
   nameList |-> Sample("prepareDotkMarket", NameList), nameBuy |-> Sample("prepareDotkMarket", NameBuy),
   nameCancel |-> Sample("prepareDotkMarket", NameCancel), kcc20 |-> Sample("prepareKcc20Transfer", Kcc20),
   reference |-> Sample("preparePskt", StandardPskt(Reference)), borrowing |-> Sample("preparePskt", StandardPskt(Borrowing)),
   kron |-> Sample("preparePskt", StandardPskt(Kron)),
   kronBuy |-> Sample("preparePskt", KronBuy), kronSell |-> Sample("preparePskt", KronSell),
   rocket |-> Sample("preparePskt", RocketBuy), kassealBuy |-> Sample("preparePskt", KassealBuy),
   kassealSell |-> Sample("preparePskt", KassealSell), kassealSplit |-> Sample("preparePskt", KassealSplit),
   kforgeBuy |-> Sample("preparePskt", KForgeBuy), kforgeSell |-> Sample("preparePskt", KForgeSell),
   kforgePool |-> Sample("preparePskt", KForgePool), orderBuy |-> Sample("preparePskt", OrderBuy),
   orderSell |-> Sample("preparePskt", OrderSell), orderMerge |-> Sample("preparePskt", OrderMerge),
   orderCancel |-> Sample("preparePskt", OrderCancel), braidBuy |-> Sample("preparePskt", BraidBuy),
   braidSell |-> Sample("preparePskt", BraidSell), braidBack |-> Sample("preparePskt", BraidBack),
   nftOffer |-> Sample("preparePskt", NftOffered), nftCancel |-> Sample("preparePskt", NftCancel),
   nftBuy |-> Sample("preparePskt", NftBuy), kaspacomOffer |-> Sample("prepareKaspacomPskt", KaspaComOffer),
   kaspacomCancel |-> Sample("prepareKaspacomPskt", KaspaComCancel), kaspacomBuy |-> Sample("prepareKaspacomPskt", KaspaComBuy),
   jointSingle |-> Sample("preparePskt", JointSingle), jointNone |-> Sample("preparePskt", JointNone),
   jointAll |-> Sample("preparePskt", JointAll), plan |-> Sample("preparePlan", Plan),
   borrowingPlan |-> Sample("preparePlan", BorrowingPlan)]
MCNudges == {-1, 1, 20}

-----------------------------------------------------------------------------
(* Calls of the desktop application. *)

MCSecretOf == [w1 |-> secret, w2 |-> [kind |-> "root", id |-> "w2"]]
MCRequests ==
  [payment |-> [method |-> "prepareTransaction", request |-> Payment, wallet |-> "w1"],
   listing |-> [method |-> "prepareKaspacomPskt", request |-> KaspaComOffer, wallet |-> "w1"]]

Left(calls, cancels, locked, restarts, minutes) ==
  [calls |-> calls, cancels |-> cancels, locks |-> locked, restarts |-> restarts, minutes |-> minutes]
Play(methods, budget) == [methods |-> methods, left |-> budget]
Signing == {"prepare", "authorize", "sign"}
MCPlays ==
  {Play(Signing, Left(4, 0, 0, 0, 1)), Play(Signing, Left(3, 1, 0, 0, 1)), Play(Signing, Left(3, 0, 1, 0, 1)),
   Play(Signing, Left(3, 0, 0, 1, 0)),
   Play(Signing \cup {"restore"}, Left(4, 0, 0, 0, 0)), Play(Signing \cup {"addWallet"}, Left(4, 0, 0, 0, 0)),
   Play(Signing \cup {"selectWallet", "lockSession"}, Left(4, 0, 0, 0, 0)),
   Play(Signing \cup {"deleteWallet"}, Left(4, 0, 0, 0, 0)),
   Play(Signing, Left(5, 0, 0, 0, 2)),
   Play({"authorize", "signChallenge", "nexus", "refreshUnlock"}, Left(3, 1, 1, 0, 1)),
   Play({"authorize", "signChallenge", "nexus", "restore"}, Left(4, 1, 0, 0, 0)),
   Play({"verifyPin", "configurePin", "publicKey"}, Left(4, 0, 0, 1, 2))}

=============================================================================
