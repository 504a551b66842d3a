---------------------------- MODULE CovenantLives ----------------------------
(***************************************************************************)
(* One Wyrm and one vault over their lives.  Every user runs the wallet;   *)
(* the coins a user holds are shared by all that user does, so what pays   *)
(* for a vault may have been the clock of the Wyrm's next step.  A request *)
(* is reviewed on what the wallet saw, and signed and submitted later,     *)
(* when another user or another program may have moved the covenant.       *)
(* Bounds: MaxNow is the last DAA score, MaxTxs the number of transactions *)
(* the chain accepts; the Wyrm starts in one of the states Lives.          *)
(***************************************************************************)
EXTENDS CovenantVault

CONSTANTS
  Users, StartCoins, MaxNow, MaxTxs, GiftAmount, Lives, VaultTerms, Deposit, Password

\* What the state of a Wyrm is made of.  It has no name yet, or the one its
\* owner gives it.
WyrmNames == {"", "Ash"}
WyrmStates ==
  [owner : Users, serial : Nat, element : WyrmElements, phase : Egg .. Dead, warmed : BOOLEAN,
   care : Nat, days : Nat, stage : Nat, spec : Nat, name : WyrmNames, anchor : Int, sleep : Int,
   feeds : [Kinds -> Nat]]

\* A state of a life that the wallet can carry on at a time: it compiles,
\* it has not grown before it hatched, its clocks lie in the past, and if it
\* is dead it died in due time.
Sound(state, at) ==
  /\ state \in WyrmStates /\ Compilable(state)
  /\ state.phase \in {Egg, Incubating} => state.stage = 0
  /\ state.anchor <= at /\ state.sleep <= at
  /\ state.phase = Dead => state.anchor + ThreeDays <= at

ASSUME CovenantAssumption ==
  /\ HalfDay \in Nat \ {0} /\ MaxDaa \in Nat /\ InactivityRange \subseteq Nat
  /\ \A life \in Lives : \A state \in life : Sound(state, 1)

VARIABLES
  now,        \* the chain's DAA score
  coins,      \* the plain coins each user holds
  wyrm,       \* {} or the set of the Wyrm's live cell
  vault,      \* {} or the set of the vault's live cell
  draft,      \* {} or the set of what is shown for approval
  backups,    \* the sealed records
  paid,       \* what left the vault: {} or {[to, amount, at, renewed]}
  spent,      \* the confirmation of the last coin put into the vault
  txs         \* the transactions accepted so far; they name the outpoints

vars == <<now, coins, wyrm, vault, draft, backups, paid, spent, txs>>

Actions == {"incubate", "warm", "hatch", "feed", "specialFeed", "transfer", "grow", "die", "name", "sleep", "wake"}
AddressOf(user) == Address("mainnet", user)
CoinOf(user, amount, at, id) ==
  [outpoint |-> id, amount |-> amount, daa |-> at, script |-> <<"pk", user>>, covenant |-> NoCovenant]

WyrmCell(outpoint, covenant, state) ==
  [outpoint |-> outpoint, value |-> WyrmReserve, covenant |-> covenant, script |-> WyrmScript(state), state |-> state]

Init ==
  /\ now = 1
  /\ coins = [u \in Users |-> {CoinOf(u, StartCoins[u][k].amount, 1, StartCoins[u][k].outpoint) : k \in DOMAIN StartCoins[u]}]
  /\ \E s \in Lives : wyrm = IF s = {} THEN {} ELSE {WyrmCell(<<0, 0>>, <<"w">>, CHOOSE x \in s : TRUE)}
  /\ vault = {} /\ draft = {} /\ backups = {} /\ paid = {} /\ spent = 0 /\ txs = 0

----------------------------------------------------------------------------
Tick ==
  /\ now < MaxNow /\ now' = now + 1
  /\ UNCHANGED <<coins, wyrm, vault, draft, backups, paid, spent, txs>>

Gift(user) ==
  /\ txs < MaxTxs
  /\ coins' = [coins EXCEPT ![user] = @ \cup {CoinOf(user, GiftAmount, now, <<txs + 1, 0>>)}]
  /\ txs' = txs + 1
  /\ UNCHANGED <<now, wyrm, vault, draft, backups, paid, spent>>

\* The requests a user's wallet can be asked for.
GenesisRequest(u) == [sender |-> AddressOf(u), serial |-> 1, element |-> 0, feeRate |-> 1, coins |-> coins[u]]

\* Fields a kind of request does not use have one value only.
TransitionRequests(u) ==
  LET Ask(a, kind, choice, to) ==
        {[sender |-> AddressOf(u), action |-> a, cell |-> cell, feeRate |-> 1, coins |-> coins[u],
          kind |-> kind, choice |-> choice, recipient |-> to, name |-> "Ash"] : cell \in wyrm}
  IN  UNION ({Ask(a, 0, 0, u) : a \in Actions \ {"specialFeed"}}
             \cup {Ask("specialFeed", k, 0, u) : k \in 1 .. 2} \cup {Ask("sleep", 1, 0, u)}
             \cup {Ask("grow", 0, c, u) : c \in 1 .. 2} \cup {Ask("transfer", 0, 0, o) : o \in Users})

\* The order of the node's answer decides which coin funds a vault, so any
\* coin that fits may: a request is written with the coin it comes to.
VaultRequests(u) ==
  LET Ask(a, terms, amount, offered, cell) ==
        [action |-> a, sender |-> AddressOf(u), terms |-> terms, amount |-> amount, now |-> now, feeRate |-> 1,
         coins |-> offered, cell |-> cell]
  IN  {Ask("create", t, Deposit, {c}, <<>>) : t \in VaultTerms, c \in coins[u]}
      \cup {Ask("heartbeat", v.terms, v.cell.value, {c}, v.cell) : v \in vault, c \in coins[u]}
      \cup {Ask(a, v.terms, v.cell.value, {}, v.cell) : a \in {"release", "claim"}, v \in vault}

Shown(what, user, request, built) == [what |-> what, user |-> user, request |-> request, built |-> built]

PrepareGenesis(u) ==
  LET built == BuildGenesis(GenesisRequest(u))
  IN  /\ draft = {} /\ wyrm = {} /\ txs < MaxTxs /\ built.ok
      /\ draft' = {Shown("genesis", u, GenesisRequest(u), built)}
      /\ UNCHANGED <<now, coins, wyrm, vault, backups, paid, spent, txs>>

PrepareTransition(u) ==
  /\ draft = {} /\ txs < MaxTxs
  /\ \E r \in TransitionRequests(u) :
       /\ BuildTransition(r).ok
       /\ draft' = {Shown("transition", u, r, BuildTransition(r))}
  /\ UNCHANGED <<now, coins, wyrm, vault, backups, paid, spent, txs>>

PrepareVault(u) ==
  /\ draft = {} /\ txs < MaxTxs
  /\ \E r \in VaultRequests(u) :
       /\ r.action = "create" => vault = {} /\ paid = {}
       /\ BuildVault(r).ok
       /\ draft' = {Shown("vault", u, r, BuildVault(r))}
  /\ UNCHANGED <<now, coins, wyrm, vault, backups, paid, spent, txs>>

Decline == draft # {} /\ draft' = {} /\ UNCHANGED <<now, coins, wyrm, vault, backups, paid, spent, txs>>

----------------------------------------------------------------------------
(* The chain.  A transaction enters when the coins it spends are there and *)
(* the scripts accept it; a spent coin is gone, an output confirms now.    *)
Live(tx) ==
  LET held == (UNION {coins[u] : u \in Users}) \cup {[outpoint |-> c.outpoint] : c \in wyrm}
              \cup {[outpoint |-> v.cell.outpoint] : v \in vault}
  IN  \A i \in DOMAIN tx.ins : \E c \in held : c.outpoint = tx.ins[i].outpoint

NewCoins(tx, u) ==
  {CoinOf(u, tx.outs[k].amount, now, <<txs + 1, k>>) :
     k \in {j \in DOMAIN tx.outs : tx.outs[j].script = <<"pk", u>>}}
CoinsAfter(tx) ==
  [u \in Users |-> {c \in coins[u] : c.outpoint \notin Outpoints(tx.ins)} \cup NewCoins(tx, u)]

\* sign rebuilds the request, compares the review and runs the scripts.
Signed(d, rebuilt) == rebuilt.ok /\ rebuilt.review = d.built.review

SubmitGenesis ==
  \E d \in draft :
    LET tx == d.built.tx
    IN  /\ d.what = "genesis" /\ Signed(d, BuildGenesis(d.request))
        /\ draft' = {}
        /\ IF Live(tx)
           THEN /\ txs' = txs + 1
                /\ coins' = CoinsAfter(tx)
                /\ wyrm' = {WyrmCell(<<txs + 1, 1>>, <<tx.outs[1].covenant[1]>>, GenesisState(d.user, 1, 0))}
           ELSE UNCHANGED <<coins, wyrm, txs>>
        /\ UNCHANGED <<now, vault, backups, paid, spent>>

SubmitTransition ==
  \E d \in draft :
    LET tx == d.built.tx
        next == d.built.review.next
    IN  /\ d.what = "transition" /\ Signed(d, BuildTransition(d.request))
        /\ draft' = {}
        /\ IF Live(tx) /\ Simulated(d.request, d.built.review)
           THEN /\ txs' = txs + 1
                /\ coins' = CoinsAfter(tx)
                /\ wyrm' = {[WyrmCell(<<txs + 1, 1>>, c.covenant, next) EXCEPT !.value = tx.outs[1].amount] : c \in wyrm}
           ELSE UNCHANGED <<coins, wyrm, txs>>
        /\ UNCHANGED <<now, vault, backups, paid, spent>>

\* Another program can do whatever the contract lets the key it holds do;
\* it keeps the reserve, which the contract leaves to the programs.
OutsideState(p, a, clock, o) ==
  CASE a = "die" -> [p EXCEPT !.phase = Dead]
    [] a = "transfer" -> [p EXCEPT !.owner = o]
    [] a = "sleep" -> [p EXCEPT !.phase = Asleep, !.sleep = clock]
    [] a = "wake" -> [p EXCEPT !.phase = Alive, !.anchor = clock - (p.sleep - p.anchor), !.sleep = 0]

OutsideTransition(u) ==
  \E cell \in wyrm, coin \in coins[u], a \in {"die", "transfer", "sleep", "wake"}, o \in Users :
    LET n == OutsideState(cell.state, a, coin.daa, o)
    IN  /\ txs < MaxTxs
        /\ ContractAccepts(cell.state, n, a, 0, coin.daa, u, u)
        /\ wyrm' = {WyrmCell(<<txs + 1, 1>>, cell.covenant, n)}
        /\ txs' = txs + 1
        /\ UNCHANGED <<now, coins, vault, draft, backups, paid, spent>>

----------------------------------------------------------------------------
(* Consensus admits a lock time once it is past and a sequence once the    *)
(* coin has that age.                                                      *)
Final(tx, age) == tx.lock < now /\ (tx.ins[1].sequence > 0 => age >= tx.ins[1].sequence)
AgeOf(cell) == now - cell.daa

SubmitVault ==
  \E d \in draft :
    LET tx == d.built.tx
        r == d.request
        accepted == /\ Live(tx)
                    /\ r.action # "create" =>
                         /\ VaultAcceptsSpend(r.terms, tx, r.action, d.user, AgeOf(r.cell))
                         /\ Final(tx, AgeOf(r.cell))
    IN  /\ d.what = "vault" /\ Signed(d, BuildVault(r))
        /\ draft' = {}
        /\ IF accepted
           THEN /\ txs' = txs + 1
                /\ coins' = CoinsAfter(tx)
                /\ vault' = IF Opens(r) THEN {}
                            ELSE {[terms |-> r.terms,
                                   cell |-> [outpoint |-> <<txs + 1, 1>>, value |-> tx.outs[1].amount, daa |-> now,
                                             script |-> tx.outs[1].script, covenant |-> <<tx.outs[1].covenant[1]>>]]}
                /\ paid' = IF Opens(r) THEN {[to |-> tx.outs[1].script, amount |-> tx.outs[1].amount, terms |-> r.terms,
                                              at |-> now, renewed |-> spent]} ELSE paid
                /\ spent' = IF Opens(r) THEN spent ELSE now
                /\ backups' = backups \cup Seal(Password, [d.built.review.record EXCEPT !.confirmed = IF r.action = "create" THEN {} ELSE {r.cell}])
           ELSE UNCHANGED <<coins, vault, paid, spent, backups, txs>>
        /\ UNCHANGED <<now, wyrm>>

\* A program that is not the wallet spends the vault by the contract alone,
\* paying whoever the contract lets it pay.
OutsideSpend(u) ==
  \E v \in vault, action \in {"release", "claim"}, to \in Users :
    LET tx == [version |-> 1, payload |-> <<>>, lock |-> now - 1,
               ins |-> <<[outpoint |-> v.cell.outpoint, amount |-> v.cell.value, script |-> v.cell.script,
                          covenant |-> v.cell.covenant, sequence |-> v.terms.limit]>>,
               outs |-> <<Output(v.cell.value - 1, <<"pk", to>>)>>]
    IN  /\ txs < MaxTxs
        /\ VaultAcceptsSpend(v.terms, tx, action, u, AgeOf(v.cell))
        /\ vault' = {}
        /\ paid' = {[to |-> <<"pk", to>>, amount |-> v.cell.value - 1, terms |-> v.terms, at |-> now, renewed |-> spent]}
        /\ txs' = txs + 1
        /\ UNCHANGED <<now, coins, wyrm, draft, backups, spent>>

Next ==
  \/ Tick \/ Decline \/ SubmitGenesis \/ SubmitTransition \/ SubmitVault
  \/ \E u \in Users : \/ Gift(u) \/ PrepareGenesis(u) \/ PrepareTransition(u) \/ PrepareVault(u)
                      \/ OutsideTransition(u) \/ OutsideSpend(u)

Spec == Init /\ [][Next]_vars

----------------------------------------------------------------------------
(* Properties.                                                             *)

\* Every transition the wallet shows for approval is one the contract
\* accepts, unless it names a special feed for an action that takes none:
\* next_state and covenant_wyrm.sil are two programs kept in step by hand.
ContractAgrees ==
  \A d \in draft : d.what = "transition" /\ (d.request.kind # 0 => d.request.action = "specialFeed") =>
    Simulated(d.request, d.built.review)

\* A Wyrm is dead only if three days of the chain's time have passed since
\* its last meal or its birth, whoever ended it: nobody can wind the clock
\* of a step, which is the age of a coin, forward.
DeathIsDeserved ==
  \A c \in wyrm : c.state.phase = Dead => c.state.anchor + ThreeDays <= now

\* However many steps it has taken, a Wyrm still has the whole reserve of its
\* genesis (the contract does not look at values), its state still compiles
\* and its clocks lie in the past: it can be moved again.
WyrmStaysSpendable ==
  \A c \in wyrm : /\ Compilable(c.state)
                  /\ c.state.anchor <= now /\ c.state.sleep <= now /\ c.value = WyrmReserve

\* What leaves a vault goes to the owner of a time lock after its score, or
\* to the beneficiary after the whole inactivity period since the last
\* heartbeat, whoever builds the transaction.
VaultPaysItsHeir ==
  \A p \in paid :
    IF p.terms.kind = "timeLock" THEN p.to = <<"pk", p.terms.owner>> /\ p.at > p.terms.limit
    ELSE p.to = <<"pk", p.terms.beneficiary>> /\ p.at >= p.renewed + p.terms.limit

\* A vault transaction shown for approval spends a vault that is still
\* there only in a way that the contract and the consensus accept: what the
\* wallet lets the user open is mature.
DraftIsMinable ==
  \A d \in draft : d.what = "vault" /\ d.request.action # "create" =>
    /\ VaultAcceptsSpend(d.request.terms, d.built.tx, d.request.action, d.user, AgeOf(d.request.cell))
    /\ Final(d.built.tx, AgeOf(d.request.cell))

\* Every backup ever sealed opens and still names the vault's script, value
\* and covenant, however many heartbeats have moved the coin since.
BackupFindsVault ==
  \A e \in backups : \A v \in vault :
    \E record \in Open(Password, e) :
      /\ record.descriptor.script = v.cell.script /\ record.amount = v.cell.value
      /\ record.covenant = v.cell.covenant
=============================================================================
