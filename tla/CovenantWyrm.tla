----------------------------- MODULE CovenantWyrm -----------------------------
(***************************************************************************)
(* Covenant Wyrms (covenant_wyrm.rs, covenant_wyrm_tx.rs,                  *)
(* covenant_wyrm_transition.rs): a creature that lives as the state of one *)
(* covenant output.  The wallet computes the next state and builds the     *)
(* transaction; the contract (covenant_wyrm.sil) has its own idea of which *)
(* steps are legal.  Both are written down here, each from its own source. *)
(* The clock of a step is the DAA score at which the coin that funds it    *)
(* was confirmed.                                                          *)
(***************************************************************************)
EXTENDS CoreTransaction

CONSTANTS
  WyrmElements,     \* the elements, ELEMENT_COUNT of them
  SupplyCap,        \* GENESIS_SUPPLY_CAP
  HalfDay,          \* TWELVE_HOURS_DAA
  GrowthNeeds,      \* care points and days of each growth: <<7, 21, 69>>
  WyrmReserve,      \* WYRM_RESERVE_SOMPI
  StorageTarget     \* 85 percent of the block's storage mass

Day == 2 * HalfDay
ThreeDays == 6 * HalfDay

Egg == 0
Incubating == 1
Alive == 2
Asleep == 3
Dead == 4

----------------------------------------------------------------------------
(* States.  feeds counts the special feeds of each kind.                   *)
GenesisState(owner, serial, element) ==
  [owner |-> owner, serial |-> serial, element |-> element, phase |-> Egg, warmed |-> FALSE,
   care |-> 0, days |-> 0, stage |-> 0, spec |-> 0, name |-> "", anchor |-> 0, sleep |-> 0,
   feeds |-> <<0, 0, 0, 0, 0>>]

Compilable(s) ==
  /\ s.serial \in 1 .. SupplyCap /\ s.element \in WyrmElements
  /\ s.phase \in Egg .. Dead /\ s.stage \in 0 .. 3 /\ s.spec \in 0 .. 5
  /\ s.phase = Egg => s.anchor = 0
  /\ IF s.phase = Asleep THEN s.sleep >= s.anchor ELSE s.sleep = 0

WyrmScript(s) == PayToScriptHash(<<"wyrm", s>>)

----------------------------------------------------------------------------
(* The transition the wallet computes (next_state).                        *)
Kinds == 1 .. 5
RequiresOwner(action) == action # "die"

TimeIsRight(p, r, age, clock) ==
  CASE r.action = "incubate" -> p.phase = Egg
    [] r.action = "warm" -> p.phase = Incubating /\ ~p.warmed /\ age >= HalfDay
    [] r.action = "hatch" -> p.phase = Incubating /\ p.warmed /\ age >= HalfDay
    [] r.action = "feed" -> p.phase = Alive /\ age \in Day .. ThreeDays - 1 /\ r.kind = 0
    [] r.action = "specialFeed" -> p.phase = Alive /\ age \in Day .. ThreeDays - 1 /\ r.kind \in Kinds
    [] r.action = "transfer" -> p.phase \in {Egg, Asleep}
    [] r.action = "grow" ->
         /\ p.phase = Alive /\ p.stage < 3
         /\ p.care >= GrowthNeeds[p.stage + 1] /\ p.days >= GrowthNeeds[p.stage + 1]
    [] r.action = "die" -> p.phase = Alive /\ age >= ThreeDays
    [] r.action = "name" -> p.phase = Alive
    [] r.action = "sleep" -> p.phase = Alive /\ age < ThreeDays
    [] r.action = "wake" -> p.phase = Asleep /\ p.sleep >= p.anchor /\ clock - p.sleep >= Day

\* The feeds that lead; with a tie the owner chooses one of them.
Leading(p) == {k \in Kinds : p.feeds[k] > 0 /\ \A j \in Kinds : p.feeds[k] >= p.feeds[j]}
SpecialisedLate(p, choice) ==
  IF p.stage # 2 THEN {p.spec} ELSE {choice} \cap Leading(p)
Specialised(p, choice) ==
  CASE p.stage # 1 -> {p.spec}
    [] p.stage = 1 /\ Leading(p) = {} -> {0}
    [] p.stage = 1 /\ Cardinality(Leading(p)) = 1 -> Leading(p)
    [] OTHER -> {choice} \cap Leading(p)

Meal(p, clock) == [p EXCEPT !.care = @ + 1, !.days = @ + 1, !.anchor = clock]

\* The successors the wallet may build: none or one.
NextStates(p, r, clock) ==
  LET age == clock - p.anchor
  IN  IF age < 0 \/ ~TimeIsRight(p, r, age, clock) THEN {}
      ELSE CASE r.action = "incubate" -> {[p EXCEPT !.phase = Incubating, !.warmed = FALSE, !.anchor = clock]}
             [] r.action = "warm" -> {[p EXCEPT !.warmed = TRUE, !.anchor = clock]}
             [] r.action = "hatch" -> {[p EXCEPT !.phase = Alive, !.stage = 0, !.anchor = clock]}
             [] r.action = "feed" -> {Meal(p, clock)}
             [] r.action = "specialFeed" -> {[Meal(p, clock) EXCEPT !.feeds[r.kind] = @ + 1]}
             [] r.action = "transfer" -> {[p EXCEPT !.owner = o] : o \in {r.recipient} \ {p.owner}}
             [] r.action = "grow" -> {[p EXCEPT !.stage = @ + 1, !.spec = s] : s \in Specialised(p, r.choice)}
             [] r.action = "die" -> {[p EXCEPT !.phase = Dead]}
             [] r.action = "name" -> {[p EXCEPT !.name = n] : n \in {r.name} \ {p.name, ""}}
             [] r.action = "sleep" -> {[p EXCEPT !.phase = Asleep, !.sleep = clock]}
             [] r.action = "wake" -> {[p EXCEPT !.phase = Alive, !.anchor = clock - (p.sleep - p.anchor), !.sleep = 0]}

----------------------------------------------------------------------------
(* The transition the contract accepts.                                    *)
Grown(p, n) ==
  /\ n = [p EXCEPT !.stage = @ + 1, !.spec = n.spec]
  /\ n.stage \in 1 .. 3
  /\ p.care >= GrowthNeeds[n.stage] /\ p.days >= GrowthNeeds[n.stage]
  /\ IF n.stage # 2 THEN n.spec = p.spec
     ELSE IF \A k \in Kinds : p.feeds[k] = 0 THEN n.spec = 0
     ELSE n.spec \in Kinds /\ \A k \in Kinds : p.feeds[n.spec] >= p.feeds[k]

DeathDueEarly(p, age) == p.phase = Alive /\ age >= Day
DeathDue(p, age) == p.phase = Alive /\ age >= ThreeDays

ContractAccepts(p, n, action, kind, clock, approver, payer) ==
  LET age == clock - p.anchor
  IN  /\ age >= 0
      /\ action = "specialFeed" \/ kind = 0
      /\ action = "die" \/ (approver = p.owner /\ payer = p.owner)
      /\ CASE action = "die" -> DeathDue(p, age) /\ n = [p EXCEPT !.phase = Dead]
           [] action = "incubate" ->
                p.phase = Egg /\ n = [p EXCEPT !.phase = Incubating, !.warmed = FALSE, !.anchor = clock, !.sleep = 0]
           [] action = "warm" ->
                /\ p.phase = Incubating /\ ~p.warmed /\ age >= HalfDay
                /\ n = [p EXCEPT !.warmed = TRUE, !.anchor = clock, !.sleep = 0]
           [] action = "hatch" ->
                /\ p.phase = Incubating /\ p.warmed /\ age >= HalfDay
                /\ n = [p EXCEPT !.phase = Alive, !.anchor = clock, !.sleep = 0]
           [] action = "feed" ->
                /\ p.phase = Alive /\ age >= Day /\ age < ThreeDays
                /\ n = [Meal(p, clock) EXCEPT !.sleep = 0]
           [] action = "specialFeed" ->
                /\ kind \in Kinds /\ p.phase = Alive /\ age >= Day /\ age < ThreeDays
                /\ n = [Meal(p, clock) EXCEPT !.feeds[kind] = @ + 1, !.sleep = 0]
           [] action = "transfer" ->
                p.phase \in {Egg, Asleep} /\ n.owner # p.owner /\ n = [p EXCEPT !.owner = n.owner]
           [] action = "grow" -> p.phase = Alive /\ Grown(p, n)
           [] action = "name" -> p.phase = Alive /\ n.name # p.name /\ n = [p EXCEPT !.name = n.name]
           [] action = "sleep" ->
                p.phase = Alive /\ age < ThreeDays /\ n = [p EXCEPT !.phase = Asleep, !.sleep = clock]
           [] action = "wake" ->
                /\ p.phase = Asleep /\ p.sleep >= p.anchor /\ clock - p.sleep >= Day
                /\ n = [p EXCEPT !.phase = Alive, !.anchor = clock - (p.sleep - p.anchor), !.sleep = 0]

----------------------------------------------------------------------------
(* The transactions.  Their shape is fixed, so the fee loop settles on the *)
(* fee of that shape; the change pays it.                                  *)
\* sort_by_key: the smallest come first, equal ones in the node's order.
Cheapest(coins) == {c \in coins : \A d \in coins : c.amount <= d.amount}
Covenanted(amount, script, covenant) == [amount |-> amount, script |-> script, covenant |-> covenant]
StandardKey(address) == address.net = "mainnet"

FeeRateOk(r) == r.feeRate \in 1 .. MaxFeeRate

\* A genesis funded by one coin: the first that leaves change above dust
\* and whose storage mass is within the limit.
GenesisTx(r, coin, fee) ==
  [version |-> 1, ins |-> <<coin>>, payload |-> <<"genesis", r.serial, r.element>>,
   outs |-> <<Covenanted(WyrmReserve, WyrmScript(GenesisState(r.sender.key, r.serial, r.element)),
                         <<<<"genesis", coin.outpoint>>, 1>>),
              Output(coin.amount - WyrmReserve - fee, PayTo(r.sender))>>]

BuildGenesis(r) ==
  LET fee == r.feeRate * ComputeMass(<<1>>, <<1, 2>>)
      fits(coin) == /\ coin.amount - WyrmReserve - fee >= Dust
                    /\ LET tx == GenesisTx(r, coin, fee) IN StorageMass(tx.ins, tx.outs) <= StorageTarget
      usable == Cheapest({c \in r.coins : fits(c)})
      coin == CHOOSE c \in usable : TRUE
  IN  IF ~FeeRateOk(r) \/ ~StandardKey(r.sender)
         \/ ~Compilable(GenesisState(r.sender.key, r.serial, r.element))
      THEN Refused("InvalidRequest")
      ELSE IF usable = {} THEN Refused("InsufficientFunds")
      ELSE Built(GenesisTx(r, coin, fee),
                 [sender |-> r.sender, serial |-> r.serial, element |-> r.element, fee |-> fee,
                  tx |-> GenesisTx(r, coin, fee)])

\* The coin that funds a step, and whose confirmation is the step's clock.
ActionCoins(r) == Cheapest({c \in r.coins : c.outpoint # r.cell.outpoint})

TransitionTxFromReserve(r, coin, next, fee) ==
  [version |-> 1, payload |-> <<r.action, r.cell.state.serial, r.cell.covenant>>,
   ins |-> <<[outpoint |-> r.cell.outpoint, amount |-> r.cell.value, covenant |-> r.cell.covenant,
              script |-> WyrmScript(r.cell.state)], coin>>,
   outs |-> <<Covenanted(r.cell.value - fee, WyrmScript(next), <<r.cell.covenant[1], 1>>),
              Output(coin.amount, PayTo(r.sender))>>]
TransitionTx(r, coin, next, fee) ==
  [version |-> 1, payload |-> <<r.action, r.cell.state.serial, r.cell.covenant>>,
   ins |-> <<[outpoint |-> r.cell.outpoint, amount |-> r.cell.value, covenant |-> r.cell.covenant,
              script |-> WyrmScript(r.cell.state)], coin>>,
   outs |-> <<Covenanted(r.cell.value, WyrmScript(next), <<r.cell.covenant[1], 1>>),
              Output(coin.amount - fee, PayTo(r.sender))>>]

BuildTransition(r) ==
  LET coin == CHOOSE c \in ActionCoins(r) : TRUE
      fee == r.feeRate * ComputeMass(<<1, 2>>, <<1, 2>>)
      next == NextStates(r.cell.state, r, coin.daa)
      tx == TransitionTx(r, coin, CHOOSE n \in next : TRUE, fee)
  IN  IF ~FeeRateOk(r) \/ ~StandardKey(r.sender)
         \/ (RequiresOwner(r.action) /\ r.cell.state.owner # r.sender.key)
      THEN Refused("InvalidRequest")
      ELSE IF r.cell.value < Dust \/ ~Compilable(r.cell.state) \/ r.cell.script # WyrmScript(r.cell.state)
      THEN Refused("UntrustedUtxo")
      ELSE IF ActionCoins(r) = {} THEN Refused("InsufficientFunds")
      ELSE IF coin.daa = 0 THEN Refused("UntrustedUtxo")
      ELSE IF next = {} \/ ~(\A n \in next : Compilable(n)) THEN Refused("InvalidRequest")
      ELSE IF coin.amount - fee < Dust THEN Refused("InsufficientFunds")
      ELSE IF StorageMass(tx.ins, tx.outs) > StorageTarget THEN Refused("Transaction")
      ELSE Built(tx, [sender |-> r.sender, action |-> r.action, previous |-> r.cell.state,
                      next |-> CHOOSE n \in next : TRUE, clock |-> coin.daa, fee |-> fee, tx |-> tx])

\* Before it answers, sign runs every input's script, the contract's too;
\* the covenant declaration compares the output's script with the state.
Simulated(r, review) ==
  /\ review.tx.outs[1].script = WyrmScript(review.next)
  /\ ContractAccepts(review.previous, review.next, r.action, r.kind, review.clock,
                     IF RequiresOwner(r.action) THEN r.sender.key ELSE "nobody", r.sender.key)
=============================================================================
