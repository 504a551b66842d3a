# A TLA+ model of the Kaspire wallet

Kaspire is a wallet for the Kaspa network: a browser extension (TypeScript), a
Flutter application for Android with native Kotlin, a Rust core that both use
for keys and transactions, and a few services (the Nexus offer service, market
proxies, an API gateway). This directory models the parts of it in which
several actors change the same state and in which money or permission is lost
when their steps fall in an order nobody tested, and the Rust core, whose
transactions are built from what several parties drafted, approved and change
again. Paths below are relative to `src/`; `index.ts` and `p2sh.ts` mean
`apps/browser_extension/src/background/index.ts` and `.../p2sh.ts`; a Rust file
without a directory is in `crates/kaspa_secure_core/src/`, or, in the section on
the compiler, in `crates/silverscript_lang/compiler/`.

## Inventory

### What runs, and what it keeps

| Component | State | Operations |
| --- | --- | --- |
| Extension service worker (`background/index.ts`) | live session (vault, generation, auto-lock time), approvals, exclusive inscription flag, queue of vault writes; all of it is lost when the browser stops the worker | commands of the wallet view, requests of sites, lock, unlock, hydrate |
| Encrypted vault (`background/vault.ts`, local storage) | mnemonic, accounts, P2SH journals | `createVault`, `openVault` |
| Offscreen document (`offscreen/session.ts`) | a copy of the open vault, kept while the browser runs | store, restore, clear |
| P2SH account (`background/p2sh.ts`) | per account and network: issued counts, exposed keys, one saved payment; reviews in memory | receive, fresh, refresh, prepare, submit, resume |
| Inscription transfers (`index.ts`) | one prepared review (session storage), one saved commit (local storage), a flag | transfer, prepare, confirm, resume |
| Approvals and side panels (`index.ts`, `sidePanelApprovals.ts`) | at most four pending approvals; per panel a queue and a visible review | approve, resolve, reject, connect, detach |
| Site permissions, networks (`index.ts`, `state.ts`) | permissions, selected account and network | connect, switch network, revoke |
| KCC20 plans (`shared/kcc20Plan.ts`, `index.ts`) | a signed plan and its checkpoint | prepare, submit, resume |
| Markets, swaps, covenant vaults (`background/*.ts`) | reviews and saved signed transactions per feature | quote, review, submit, recover |
| Nexus (`services/nft-nexus`, `scripts/nexus-server.ts`) | offers, revisions, notifications in PostgreSQL | create, accept, counter, decline, cancel; expiry worker; reconciliation |
| Mobile application (`apps/mobile_flutter`) | WalletConnect deliveries, native authorization tokens, its own P2SH store, activity rows | sessions, requests, authorization, merge |
| Rust core (`crates/kaspa_secure_core`) | none between calls | prepare a request for review, sign it against the approved review hash, check drafts of other programs |
| Windows session (`desktop.rs`) | behind a mutex: key, unlock time, tokens, reviews; beside it two atomics; on disk the wallets and the count of wrong passwords | calls with native dialogs, lock, cancel, restart |
| Wyrms and covenant vaults (`covenant_*.rs`, `vault_recovery.rs`) | one covenant coin each on the chain; a sealed record as backup | genesis, ten transitions; create, heartbeat, unlock, claim; seal, open |
| SilverScript compiler (`crates/silverscript_lang`) | none; a contract passes from form to form | inline, lower, unroll, alias, generate |
| API gateway (`ops/kaspa-api/gateway.py`) | bounded caches | proxy |

### How they interact, and what is hard about it

* Commands of the worker are asynchronous: between any two `await`s the wallet
  may be locked, its session may expire, the account or network may change, the
  view may close, and the browser may stop the worker. What an operation
  captured before is then stale.
* The journal of the P2SH account exists in the live session, in the encrypted
  vault, in the offscreen document, in the buffer of a vault write that is
  being encrypted and in the answer of a load. A session may start from any
  copy; some writes fail.
* A storage read between a test and a set makes both of them useless as a lock.
* A submitted transaction may be accepted although its answer was lost.
* A side panel holds a queue that shadows the map of approvals; either side may
  disappear first.
* The database runs at its default isolation: a check and the update that
  follows it are two statements, and another transaction may commit in between.
* The stateless hosts of the Rust core send a request twice, once to be reviewed
  and once to be signed; between the two, and before the first, anything in it
  may change. A signature that leaves inputs or outputs open is completed by
  others.
* The Windows session waits for the user inside its mutex, while a lock or a
  cancel on another thread must not wait.
* The wallet computes the next state of a covenant and a contract judges it; the
  two are separate programs. Another user may have moved the covenant, or spent
  the coin that was its clock, between review and submission.
* The compiler tracks where each name lies on a stack that branches, loops and
  inlined calls reorder, in a script whose offsets depend on its own size.

### What makes each part correct

* *P2SH account*: a key that has signed is retired in every copy before the
  signature exists; a change address serves one payment; a submitted payment is
  saved in every copy until it is accepted; payments go one at a time; discovery
  reaches every coin; no interruption leaves a journal that the wallet refuses
  to load; an address that was shown is durable.
* *Inscription transfers*: a saved commit is not replaced before its reveal; a
  recovery signs only what was reviewed in the session that signs; the flag is
  given back; the saved commit can be finished or dropped.
* *Approvals*: none outlives its session, none is lost in a closed panel, panels
  show what is pending and only in the window that asked, an expired session
  approves nothing.
* *Nexus*: a terminal status is final, the buyer learns the outcome, an overdue
  offer leaves negotiation, a relisting is reported at the price and by the
  seller that were agreed.
* *Rust core*: what is signed is what was shown; what a review calls bound is
  bound whoever completes the transaction; a trade is never worse than its
  terms; what the core builds can be mined; a plan delivers.
* *Windows session*: a signature needs an unspent approval of this review for
  this wallet since the last lock, cancel or switch; guesses are throttled
  across restarts; a lock forgets the password.
* *Covenants*: wallet and contract agree on every step, nothing strands the
  coin, a Wyrm dies only of three days' neglect, a vault pays whom and when its
  terms say, its backup leads back to it.
* *Compiler*: a script permits the spends its source permits, each pass keeps
  the meaning, and a state can be spliced into a script.
* *Permissions* (planned): revoking is not undone by a request that was waiting.
* *KCC20 plans* (planned): no step of a plan is submitted twice with different
  bytes or skipped, and two plans do not overwrite each other.
* *Native authorization, dApp relay* (planned): a token is used once within its
  lifetime; a request is delivered at most once.

`PROJECT.json` lists every component with its sources, and every hazard at the
line where it bites, with the properties that would catch it.

## Modules

### `P2shAccount` – the hidden-KAS account

One instance is one account on one network. `mem`, `disk`, `off`, `other.buf`
and `loading` are the copies of its journal (`Copies`); `op` is the command in
flight, whose `pc` names the `await` it is in; `reviews` are the payments
prepared for confirmation; `coins`, `active`, `accepted` are the network;
`submitted`, `signed`, `handed` remember what has been done and are read by
properties and by `FreshCoin`, `Accept` and `Sign` (identities are not reused).

| Code | Model |
| --- | --- |
| `p2shCommand`, `execute` (`p2sh.ts:256-342`) | `BeginScan`, `BeginResume`, `BeginSubmit`, then the steps below |
| `scan`, `observe` (`p2sh.ts:101-164`) | `Scan`, `Observe`, `ScanEnd`, `Found` |
| `issue` (`p2sh.ts:113-123`) | `IssueReceive`, `ReserveChange`, `GapOpen` |
| `p2shSubmit` (`p2sh.ts:299-323`) | `Retire`, `Sign`, `SavePending` |
| `resume`, `confirmed` (`p2sh.ts:189-255`) | `Recommit`, `Post`, `Confirm`, `StopPolling`, `ResumeNothing` |
| `save`, `persistVault`, `rememberSession` (`index.ts:942-952`, `2506-2573`) | `StartSave`, `SaveDisk`, `SaveVolatile`, `SaveFails` |
| `guard` (`index.ts:930-938`) | the field `live` and `At`; `Orphan`, `Interrupted` |
| vault writes of other features | `OtherSeal`, `OtherDisk`, `OtherVolatile`, `OtherFails` |
| `lockSession`, `hydrateSession`, `unlock`, worker stopped | `Lock`, `Load`, `Install`, `AbandonLoad`, `Stop` |

A `save()` changes the live journal first, waits for the queue of vault writes,
writes the encrypted vault and then the offscreen copy; each is a step of its
own and each may fail. `Doomed` stands for a command whose guard can no longer
pass: it keeps the operation slot busy until it unwinds.

Abstractions: a scan is one step, because the addresses in use only grow,
nothing is changed before it ends, and the outputs it found are compared with
the node's again before anything is signed; amounts, fees and scripts are left out (a
payment is its identity, its inputs and its change address); a polling loop is
one step per outcome. A coin's identity is never reused.

The last section of `P2shAccount` is the inductive invariant `IInv`, which
`p2sh_safety` checks; `P2shAccountProofs` holds the theorems. `SinglePayment` is the abstract
specification: a payment is sent only when every payment sent before it has
been settled. `P2shAccount!PaysOneAtATime` instantiates it with the submitted
and the accepted payments.

### `InscriptionTransfer` – commit and reveal

One slot `pendingInscription`, one slot `preparedAsset`, the flag
`inscriptionOperationInFlight`, and per caller (`Dapps`, `Views`) the operation
it runs. `StartTransfer`, `Answer` and `Enter` are the three parts of
`runExclusiveInscription` (`index.ts:283-298`): it reads the flag, waits for
storage, then sets the flag. `ReadPending` and `EnterResume` are
`resumeInscription` (`index.ts:2152-2171`). The two bodies that follow,
`inscriptionTransferUnsafe` with `confirmPreparedAsset`, and
`finishPendingInscription`, share the reveal's actions; they differ in `path`,
because only the second looks at its session again before it signs.

Session generations appear as two flags that every new generation clears:
`valid`, true when an operation captures its session, and `bound`, whether the
approval that it waits for was opened in a session that is still current. A
review opened while the wallet is locked is not bound and survives the next
unlock. KRC-20, KRC-721 and KNS have the same control
flow here. `Overlap` says whether a transfer may start while another is running.
With `FALSE` the environment is a user who starts transfers one after another
(resuming is not restricted); with `TRUE` it is what the code admits. The
theorems are in `InscriptionProofs`.

### `WalletApprovals` – approvals and side panels

`request` is the map of `inRequestWindow`; `approval` the map of pending
approvals with what became of them; `panel` the panels of
`SidePanelApprovals`; `decisions` the messages whose handler is waiting for its
first `await`. A panel whose document is gone is `on` but not `alive` until the
port's disconnect event arrives, because showing the next review on a dead port
throws and detaches the panel inside another operation (`Advanced`). What a
panel denies while detaching becomes decisions that are processed later.
`Without` takes answered reviews out of a queue and keeps the order of the
others. The theorems are in `ApprovalsProofs`.

### `NexusOffers` – one private offer

The row, the deadline, the owner and the listing, any number of requests, the
expiry worker and one reconciliation. Each reads the row, decides and writes it
in separate steps. Revisions and audit rows are logs nothing reads back and are
left out; so are the statuses no code writes. The theorems are in `NexusProofs`.

### The Rust core: requests, reviews, signatures

A builder is an operator from a request to `Built(tx, review)` or
`Refused(reason)`. A transaction is a record of inputs, outputs, payload and
version; a script is the tuple of the values its template embeds, so that
matching a script with a pinned template is matching a tuple, and two scripts
are equal when the code's bytes are. A review holds exactly the fields the Rust
code hashes, so equal reviews stand for equal review hashes. A signature is
`Commitment`: what its hash type covers.

| Module | Code |
| --- | --- |
| `CoreTransaction` | `transaction.rs`: selection, change, fee and mass of a payment, send-all, signing |
| `VaultPolicy` | `policy_transaction.rs`: time-lock and dead-man-switch vaults, what their scripts accept |
| `PsktDraft` | `pskt.rs`: the envelope of a draft, signature hashes, script requests, review |
| `TradeProfiles`, `BraidDeposits` | the profiles of `pskt.rs`, `kasseal.rs`, `kasforge.rs`, `braid.rs` |
| `KForgeSwap` | `kforge.rs`: the arithmetic of curve and pool, and the draft that follows from it |
| `ListingMarkets`, `CoreInscriptions` | `kaspacom_market.rs`, `nft_market.rs`, `inscription.rs`, `tangem_rescue.rs` |
| `TokenTransfers` | `kcc20.rs`, `kcc20_standard.rs`, `kron.rs`, `kcc20_plan.rs` |
| `HiddenKas` | `hidden_kas.rs` (the Rust half of the account of `P2shAccount`) |
| `DotkSales` | `dotk.rs`, `dotk_sale.rs`, `dotk_market.rs` |
| `SecretKeys` | `lib.rs`, `evm.rs`: what is derived from a secret, messages, EVM transactions |
| `PsktSigning` | `pskt.rs`: dispatch to the profiles, witnesses, running the scripts |
| `CoreWallet` | `PrepareAs` and `SignAs`, the only two operators the hosts reach |

`CoreSigning` is the core behind `android.rs` and `wasm.rs`: a request out of
`Samples` is edited (`Edit`), shown (`Approve`), edited again, signed (`Sign`)
and, when it is a draft, completed by others (`Complete`) as long as the
wallet's signatures still verify; a plan is signed as a whole and sent step by
step. An edit may also change what a request says of the coins it spends; what
makes two transactions the same to the network is `Executed`: version, payload,
outputs and the outpoints of the inputs, because it takes the amounts and
scripts of what is spent from its own ledger. What is proved of it
is in `SigningProofs` and `TradeProofs`. `DesktopSession` is `desktop.rs`: a call arrives, reads `CANCELLATION`,
gets the mutex (`Enter`), runs its method and its dialogs, and ends in `Return`
or in the two steps `Refuse` and `Reload`; `Cancel`, `LockForget`, `LockCancel`
and `LockTryWipe` run beside it. `CoreHosts` puts the two side by side over one
`CoreWallet`. The tokens' generation is left out, because whatever raises it
clears the tokens. `approvals` remembers what the user agreed to and has not
used since; `Covers` says which of them covers a signature that leaves the
shell: an agreement covers one signature, except the consent to a session of the
offers market, which covers every challenge of it. The theorems are in
`DesktopProofs`.

### `CovenantWyrm`, `CovenantVault`, `CovenantLives`

For each protocol the wallet's builder (`NextState`, `BuildVault`) and the
contract's verdict (`ContractAccepts`, `ClaimAccepts`, ...) are separate
definitions, each from its own source (`covenant_wyrm_transition.rs` and
`covenant_wyrm.sil`; `covenant_vault.rs` and its two contracts).
`CovenantLives` gives two users a chain with one Wyrm and one vault, coins that
pay for either, and transactions built by other programs (`OutsideTransition`
with the successors of `OutsideState`, `OutsideSpend`), which need only the
contract's consent. A request carries the set of coins of an account; any one
that suffices may pay for a vault. The theorems are in `CovenantProofs`.

### The SilverScript compiler

| Module | Code |
| --- | --- |
| `SilverAst` | `ast/mod.rs`, the types of expressions |
| `SilverCodegen`, `SilverScript` | `stack_bindings.rs`: names on the stack, reordering; `compile.rs`: expressions; statements, entry points, state, contract |
| `SilverLowering` | `inline_functions.rs`, `array_append.rs`, `for.rs`, `locals.rs` |
| `SilverMachine` | the script machine of the node (external), as the generated code uses it |
| `SilverMeaning` | what a contract means: an evaluator of the source, written without reference to the stack |
| `SilverCompiler` | `compile_contract_impl`: one step per pass and per round of the size search, then a spend, one opcode per step |

`SilverMeaning` is the reference definition; `SilverCompiler!CompiledMeansSource`
compares it with the script machine and `PassesPreserveMeaning` with itself
before and after each pass. These modules use recursive operators and carry no
theorems.

The `MC...` modules define symmetry, bounds and sample values for TLC: a request
of every kind in `MCCoreHosts`, contracts in
`MCSilverCompiler`.

## Runs

| Run | Question | Result | States |
| --- | --- | --- | --- |
| `p2sh_safety` | do the account's safety properties, the inductive invariant and the refinement hold? | pass | 764,246 |
| `p2sh_shown` | is every address that was shown durable? | violated | – |
| `inscription_single` | are saved commit, reviews and flag handled correctly when transfers do not overlap? | pass | 72,926 |
| `inscription_overlap` | does the flag keep overlapping transfers apart? | violated | – |
| `inscription_stuck` | can a saved commit always be finished or dropped? | violated | – |
| `approvals_safety` | are approvals and panels consistent, whoever disappears first? | pass | 279,198 |
| `nexus_offer` | are outcomes told, is expiry final, is what is relisted what was agreed? | pass | 104,760 |
| `nexus_terminal` | is a terminal status final? | violated | – |
| `covenant_lives` | do wallet and contracts agree, and do Wyrm, vault and backup keep their promises over a life? | pass | 1,146,113 |
| `core_hosts` | is what is signed what was shown and agreed, in both kinds of host? | pass | 1,223,093 |
| `core_lock` | does a lock forget the password? | violated | – |
| `silver_compiler` | does the script permit what the source permits, after every pass? | pass | 20,886 |

Each property of a passing run has a mutant in `PROJECT.json`: a definition of
the model changed as a plausible bug would change the code, under which TLC
finds the property violated.

### Bounds

* P2SH: two payments (the second must be held back by, or follow, the first),
  two coins (an input and a change or a second deposit), one review slot, one
  loader, gap 1 and two addresses per branch – the smallest values with an
  address inside the gap, one behind it, and a branch that is full. The theorems
  have no such bounds.
* Inscriptions: a site and two views (whose approvals share an origin), two
  commits: the saved one and one to replace it. With three commits the same
  properties hold (737,863 states).
* Approvals: two sites, requests, windows, panels and approval ids, the limit of
  pending approvals at 2 and three session generations: opened without a
  session, in the first and in the second. The limit of four pending approvals
  in the code is the constant `MaxApprovals`.
* Nexus: one request beside the worker and the reconciliation, two owners, two
  amounts, checked with liveness; `nexus_terminal` needs two amounts and finds
  its counterexample with two requests. With two requests and one amount
  `TypeOK` and `OutcomeIsTold` hold too (6,490,176 states); `RelistedAsAgreed`
  does not, see finding 4.

* Rust core: 44 sample requests and two plans, one or more of every kind the core
  builds and of every profile and action; each is changed up to twice
  (`MaxEdits`), before or after its review, by small amounts, to another party,
  by a missing coin or output, and completed up to twice by others
  (`MaxAmends`). Two are needed: an amount moved from one place to another is
  one edit, a draft changed before the review and again before the signature is
  two. Amounts are scaled (1 KAS is 100), so that fees, dust and rounding are of
  the size of the edits.
* Windows session: `Plays` names what an app calls and how much happens to it,
  up to five calls with one cancel, lock, restart or minute among them. A
  session of all methods with all budgets at once does not end; the plays are
  the combinations in which one method can disturb another. Two wrong passwords
  (five in the code), two minutes of memory, one review kept, one call waiting.
* Covenants: half a day is one DAA score, so that the three days of neglect are
  six; seven scores, three transactions, no Wyrm yet or one in five situations
  (`Lives`). While both covenants are alive, states with an open draft are
  checked but not explored further (`OneAtATime`).
* Compiler: eight contracts, each with spends that are permitted and spends
  that are not: entry points and state, loops with a dynamic end and branches
  that assign in different orders, inlined functions with clashing names, tuples
  and lists, byte strings, reading the state of another input; and three the
  compiler must refuse. The scripts have 94 to 311 bytes and need up to three
  rounds of the size search.

`CHECK_DEADLOCK FALSE` is given where behaviours end: an app that makes no
further call, a chain at its last score, a spend that has run.

### Fairness

The P2SH account, the approvals, the Rust core, the covenants and the compiler
have safety properties only and assume nothing. `InscriptionTransfer` assumes
weak fairness of each operation (`Working`), which includes its failure: what it
awaits is answered, fails or runs into its limit (approvals end after ten
minutes, `index.ts:5394`; polls after forty attempts). Nobody is assumed to
start an operation, to approve or to unlock. `NexusOffers` assumes that requests
end, that the worker's timer fires (`expiry-worker.ts:62`), and that its
transaction does not fail forever (strong fairness of `Look` and `Expire`, since
`WorkerFails` may interrupt each attempt).

## Proofs

Eight modules hold theorems that TLAPS checks for every value of the constants:
any number of addresses, sites, panels, requests, owners, users, calls, edits
and steps, and any amounts. Unless a hypothesis is named, they assume what the `ASSUME`s of the
modules say, which TLC evaluates in the runs. `PROJECT.json` lists each with the
property it states.

| Module | Theorems |
| --- | --- |
| `P2shAccountProofs` | `TypeCorrect`, `Invariance`, `SignedKeysStayRetired`, `ChangeIsUsedOnce`, `SubmittedStaysSaved`, `JournalsStayValid`, `CoinsStayFound`, `OnePaymentAtATime` |
| `InscriptionProofs` | `TypeCorrect`, `RecoveriesSignWhatWasReviewed`, `SavedCommitsStay` |
| `ApprovalsProofs` | `Invariance`, `TypeCorrect`, `ApprovalsEnd`, `PanelsAreCurrent`, `ApprovalsAreKept`, `PanelsAdvance`, `WindowsAreKept`, `ExpiryPrevails` |
| `NexusProofs` | `TypeCorrect`, `OutcomesAreTold`, `RelistingsAreAsAgreed` |
| `CovenantProofs` | `WalletStepsAreLegal`, `Invariance`, `TransitionsAgree`, `DeathsAreDeserved`, `WyrmsStaySpendable`, `VaultsPayTheirHeir`, `DraftsAreMinable`, `BackupsFindTheVault` |
| `DesktopProofs` | `Invariance`, `SignaturesNeedApproval`, `GuessesStayThrottled` |
| `SigningProofs` | `BoundOutputsStand`, `DraftsAreSignedAsReviewed`, `EverythingIsSignedAsReviewed` |
| `TradeProofs` | `ComputedTradesKeepTheirTerms` |

### The P2SH account

All but `TypeCorrect` assume `OneLoader`: at most one flow loads a session at a
time. It is necessary: with two, an answer read before a payment can be
installed after it. The code does not enforce it (`index.ts:2695-2703`); that is
the subject of the planned module `WalletSession`, and the theorems say what the
account guarantees without this hazard.

*The invariant.* That a signed payment's keys are retired everywhere says
nothing of a command between retirement and signature: from a state in which a
command is about to sign keys that nobody retired, one step violates it.
`RetirementHolds` says that when a command is about to sign, every copy has its
keys retired and no signed payment has its change address. That in turn rests on
the order of a `save()`: live journal, disk, offscreen copy. `StoredAlone` says
that between the last two no other vault write is under way; without it an older
buffer could still reach the disk behind a committed save. `CommitHolds` is the
same for a saved payment before it is submitted, `PaymentsAreSigned` ties every
payment to the signed ones, `LoadingAlone` says that a load is pending only
while there is no live session, so nothing newer is overwritten by it, and
`ExposedIsIssued` keeps discovery and validation in step.

*The argument.* The copies are handled as a set. `LiveStep` says how one command
may change the live journal (counts and retired keys only grow; the saved
payment is set to one that was just signed, or cleared once accepted);
`CopiesStep` says that every copy after a step is a copy before it or the new
live journal. From both, each conjunct is preserved for all copies at once, and
the conjuncts about the command in flight (`RetirementStep`, `CommitStep`) are
the only ones that look at actions one by one. The lemmas about `Least`,
`Raised`, `Observe` and `Issue` say what address arithmetic preserves.

*Discovery.* A scan ends a gap behind the last address it finds in use, and an
old copy knows fewer addresses than were handed out. An index is `Bridged` when
it lies within the gap of the start or of an address below it that is in use on
the chain; `AddressesBridged` keeps that for every index that was ever issued,
shown or paid, so that a scan reaches it from a copy that knows nothing of it
(`ReceiveIsFound`: the least index it would miss is bridged by one it found). A
change address is reached because its payment's keys were retired in every copy
before it was signed.

### Inscriptions and Nexus

`TypeCorrect` and `RecoveriesSignWhatWasReviewed` hold with and without
overlapping transfers. A signature compares the session with the one that the
recovery captured, not with the one the reveal was reviewed in. What connects
the two is `ReviewedNow`: a review whose recovery is still valid, in an unlocked
wallet, was opened in this very session. It rests on both ends of a session
beginning a new generation: the only reviews that are there before an unlock and
after it were opened while the wallet was locked, and the unlock takes their
recovery's session away. `SavedCommitsStay` assumes `~Overlap`; with `Overlap` it
is false, which is finding 2. `SlotIsFree` says that a transfer which was let in
found the slot empty and that it is empty still, `SlotIsShared` that whoever
could still reveal a commit works on the saved one, `SlotIsDone` that only one
operation is about to empty the slot, and of the commit it revealed.
`OneTransfer` is what makes the first hold; competing recoveries are why the
other two are needed.

`OutcomesAreTold` needs what a request or a reconciliation has read before it
writes (`RequestsAreServed`, `ReconcilerHasRead`): a party may ask only for the
statuses of its side, so what ends an offer without its buyer goes through the
writes that tell the buyer.

`RelistingsAreAsAgreed` assumes `OneRequest`: at most one request is served at a
time, beside the worker, the reconciliation and the owners. The reconciliation
compares the listed price with an amount it read several network calls earlier,
and its update asks for the status alone. `AgreedIsSettled` says why the amount
is still the agreed one: no request is under way once an offer is agreed, a
request must begin while it is negotiable, and an offer that was agreed when it
was read is never negotiable again.

### Approvals and panels

The properties are inductive together, with `PanelsAreOrderly` (a panel that is
off shows nothing, no review is queued twice) and `PendingAreAsked` (a pending
approval belongs to a running request). What happens to a panel, a decision, a
cancelled request, a dead port in the middle of another operation, is an
operator on its record; `Disposes` says what they have in common: each review
that is shown or waiting stays so, has been answered, or is among the denied
that come back as decisions.

### Wyrms and vaults

`WalletStepsAreLegal` is about two programs: for every sound state, request and
clock, what `next_state` computes is a state the contract's transition accepts.
A state is `Sound` when the contract compiles it and its clocks lie in the past,
the stages before hatching included. `TransitionsAgree`, `DeathsAreDeserved` and
`WyrmsStaySpendable` rest on it, and on what the contract alone demands of the
transitions of other programs.

For vaults the invariant relates the open draft to the vault. A draft carries
what the wallet saw when it was built; there is one at a time and only a draft
moves the vault on, so its cell is still what the vault was last, whether or not
another program has spent it meanwhile. `VaultIsAsked` says that the draft asks
for what its action may ask, `BackupsAreSound` that there is no sealed record
before there is a vault and that every one names it. That coins are confirmed no
later than now makes their age what the contract's clock is compared with.

### The Windows session

`SignaturesNeedApproval` follows what a grant rests on. `GrantsAreApproved` says
that a token which still counts stands for an agreement nobody has used, but
only while the session's count of cancellations is the real one: a token may
survive a lock for a while, and the call that uses it is interrupted before it
answers. `CountsAgree` says that no call and no session is ahead of the real
count and that a running call stands where its session does, so the comparison
before the answer decides. `TokensAreNumbered` makes a token, which the code
draws at random, the token of one call. `GuessesAreCounted` says that beyond the
free guesses every wrong password has moved the stored time on by a minute;
closing, reopening and waiting do not touch it.

### What is signed

The theorems of `SigningProofs` are about every sequence of edits before the
review and between review and signature, and of completions by others. They use
nothing of the profiles.

*Drafts.* `BuiltDrafts`: whatever the profile, a draft that is not refused is
reviewed as it is built, and its selection is in order. `SigningKeepsDrafts`:
signing fills in witnesses and nothing else. `BoundOutputsVerify`: a transaction
for which the wallet's signatures verify has the outputs they commit to. The
invariant `IInv` says that the released transaction was built from the request
that came with the signature, under the approved review, and stays one for which
the signatures verify.

*What the core builds.* `EverythingIsSignedAsReviewed` is `SignedAsReviewed` for
all requests. The core signs by building again from the request it is given and
comparing the review hashes. So the question is whether a review determines the
transaction: for every builder, `BuiltPayments`, `BuiltReveals`,
`BuiltHiddenPayments`, `BuiltTransfers`, `BuiltSales` and `BuiltPolicies` say
what is built for a review that was not refused, and `ReviewsDetermine` that two
requests with equal reviews spend the same inputs into the same outputs. How a
builder finds the fee, round by round, does not matter: the lemmas look only at
what its last round returned. `WitnessesChangeNothing` and
`FinishedChangesNothing` add that signing, and finishing what a card signed,
change none of it.

`SigningAssumption` says that the requests these behaviours start from call known
methods and that a draft is a record with lists of inputs and outputs.

### Trades

`ComputedTradesKeepTheirTerms` is `NoWorseThanAgreed` for the trades in which
the core adds up or computes the wallet's own accounts from the draft: Kasseal
swaps and preparations, KForge, Braid deposits and reclaims, and the buy orders
of KasForge (`Computed`). The argument has four parts.

*Sums.* `NoWorseThanAgreed` is about totals over lists of any length. `SumOf` is
a recursive function, of which the prover knows only that it equals its body if a
function does. That one exists (`SumsExist`), and what a sum is (`SumsOfIntegers`,
`ShortSums`), is proved by induction over the naturals, which `Induction` takes
from the pigeonhole principle of finite sets, because the rule of the library
takes a predicate as a parameter. These lemmas close `SigningProofs`.

*Numbers.* The invariant `AgreedInv` says that the request in hand, edited as it
may be, still has integers where the profiles compare integers, that the
transaction was released to the key that owns the sender's coins, and that a
completion keeps what the signatures commit to. An edit moves an amount or a
note's tokens by a small number or drops an output (`EditedDraftsAreStated`), and
`CompletionsAddOrKeep` says what others can do to a draft.

*From the draft to what is executed.* `SignedCoins`: the released transaction has
the draft's coins. `FinalFeeKnown`: in each of these profiles every signature
commits to all inputs and outputs, which the code enforces for each; so no
completion differs (`ReleasedTrades`).

*From the profile to the accounts.* For Kasseal the core's two totals are the
wallet's own (`KassealSwaps`, `KassealPreparations`). A KasForge buy order
touches no note (`BuyOrders`). For Braid the notes the profile allows are all
there are (`BraidDeposits`, `BraidReclaims`). For KForge the core checks no total:
it computes the successor of the venue and every output. `TradesMoveTheVenue`
gives what a trade on the curve or in the pool adds to the venue's coin,
`KForgeInputs` and `KForgeOutputs` where the wallet's KAS and tokens lie among
three to five coins, `NotesChange` what becomes of its note; `KForgeTrades`
concludes from the network fee, which is the difference of the totals, that the
wallet pays at most what `KasCost` computed.

`NumbersAssumption` says that the sample drafts have integers where the code has
them, and that the edits of amounts are integers; `KForgeAssumption` and
`BraidAssumption` that the protocols' fixed sums are positive.

### Only model-checked

* `NoWorseThanAgreed` for the other profiles. What the wallet pays there rests
  on something the draft does not contain or the core does not compare, and the
  samples supply: the coins of the venue in a KRON swap, whose inventory note may
  be anybody's for all the core checks; the price in a signed listing of an NFT
  market; the tokens a KasForge order holds on the chain, in a cancellation; that a
  transfer's recipient is not its sender. Sell orders and merges of KasForge are
  among the findings below.
* `SignedIsSpendable` and `PlanDelivers`. That the fee a search ends with pays for
  the mass of what is built follows the amounts through every round, and
  payments do not look at the least amount an output may have: a request that
  asks for less is refused by the node, and no sample does.
* The properties of the compiler, whose modules use recursive operators: the
  prover has no SMT backend for them.
* Liveness (`FlagIsReleased`, `ExpiresForGood`).

A theorem holds for every value of the constants, a model-checked property for the
instances above. TLC checked the inductive invariants before they were proved:
that of the account in `p2sh_safety`, those of `CovenantProofs` and
`DesktopProofs` on the instances of `covenant_lives` and `core_hosts`.

## Findings

Five statements in the repository that the code does not keep; each is a run
that expects a violation, and `PROJECT.json` quotes the line.

1. *An address is shown before it is durable* (`p2sh_shown`). After a failed
   write the raised count stays in the live journal and the next request shows
   the address without writing.
2. *Two transfers pass the exclusive flag* (`inscription_overlap`). The flag is
   tested before and set after an awaited read; the second commit replaces the
   first one's recovery data.
3. *A saved commit cannot be dropped once it is spent* (`inscription_stuck`). If
   the reveal is accepted and its answer lost, resuming waits for an output that
   no longer exists and every further transfer is refused.
4. *A terminal offer changes* (`nexus_terminal`). Transitions check the status
   they read and update by id alone. The same race reaches an agreement: a
   request that read the offer while it was negotiable overwrites the agreed
   amount or seller after the reconciliation has compared the old ones, and the
   buyer is told of a relisting at a price, or by a seller, that is no longer
   agreed. TLC finds this for two requests (21 states with one amount); it is why
   `RelistedAsAgreed` is stated of requests served one at a time.
5. *A lock can lose its request to forget the password* (`core_lock`). A call
   that was cancelled ends by reading `FORGET_AUTH` and then takes the newest
   `CANCELLATION` as seen (`desktop.rs:1365-1371`). A lock that falls between the
   two finds the mutex taken, and the next call sees no change and runs with the
   old password.

Five more divergences were met while modelling and have no run of their own:

* `byte[](e, n)` counts its second operand twice in the stack depth
  (`compile.rs:4663-4668`), against the comment of `stack_bindings.rs:282-283`;
  a later use of a name in the same expression reads the wrong value. The sample
  contracts avoid this cast.
* The lowering of locals drops a value that is never used even when its
  evaluation would fail (`locals.rs:52-70`); statements that prepare an arm of
  an if-else expression are hoisted out of it (`inline_functions.rs:806-830`); a
  `for` with a dynamic end evaluates that end in every iteration
  (`for.rs:175-239`); `f(f(x))` is refused as recursion when it stands in the
  arguments of a statement (`inline_functions.rs:497-530`). `SilverMeaning`
  takes the reading of the source, and the samples avoid these four forms.
* "merge moves funds outside wallet" (`kasforge.rs:497`) refuses every merge that
  does not return its notes to the wallet, but the one token output it permits may
  belong to the script of the named order, at the place of that order's tokens
  (`kasforge.rs:395-402`, `489-497`). A sell order need not have an output at that
  place at all: the checks of `kasforge.rs:427-434` apply to it if it is there. So
  what `NoWorseThanAgreed` says of the two holds for the drafts of the samples and
  their edits, not for every draft.
* The review of an EVM transaction does not cover its call data
  (`evm.rs:130-154`), so `SignedAsReviewed` leaves EVM requests out.
* A restore on Windows that fails between its two saves leaves a wallet without
  its vault catalogue, and a second restore is refused (`desktop.rs:1063`,
  `689`). The active wallet has changed by then, but the session is switched only
  after a restore that succeeds (`desktop.rs:1293`), against the comment that
  changing wallets revokes every token (`desktop.rs:569`): the consent to the
  offers market stands for the new wallet. `Covers` admits that, and binds every
  other signature to its wallet.

## Not modelled

Cryptography and byte layouts (signatures, hashes, scripts and serialisation are
identities of what they are made of), user interfaces, HTTP clients and their
parsing, the web site and the Windows shell around the core. Their results enter
the models as answers that arrive, are refused or are lost.

* `NoWorseThanAgreed` says nothing of three kinds of draft: `kron-transfer`, a
  payment rather than a trade; `kasparocket`, whose terms name the assets and
  fees but no limit the core enforces; and generic drafts, which have no terms.
* The fee of a KCC20, KRON or name transaction is checked against compute mass
  only, because that is what their builders charge for (`kcc20.rs:386`).
* `DesktopSession` leaves out vaults without a password, the dialogs of a
  backup, the rows of an aggregate signer, the vault catalogue and
  `desktop_update.rs`.
* Of the compiler: the parser, `static_check.rs`, `infer_array.rs`, the
  flattening of structs, covenant declarations, the template variants of
  reading and validating a state, and debug records. They come before the
  passes of the model, whose contracts are what they would hand over, or change
  no code.
* Mobile application, gateway and market services: see the plan.

## Plan

Order of work, most important first.

1. Proofs: `NoWorseThanAgreed` for KRON swaps and market offers, under named
   assumptions about the coins on the chain; that the fee of a payment covers its
   mass, from the rounds of its search, towards `SignedIsSpendable`.
2. `WalletSession`: hydrate, unlock, lock and auto-lock with several loaders
   (`index.ts:2575-2720`). Property: a locked wallet is not reinstalled by an
   answer that was under way. It would replace the views of the session in
   `InscriptionTransfer` and `WalletApprovals`.
3. `DappPermissions`: requests that load the wallet state, await an approval and
   store all of it (`index.ts:3048-3109`). Property: a revoked permission stays
   revoked.
4. `Kcc20Replay`: the replay of a signed plan (`shared/kcc20Plan.ts:7-44`,
   `index.ts:4698-4727`, `2127-2151`), implementing the sequence that
   `CoreSigning` sends step by step.
5. `SwapJournal` (saved signed swaps), `NativeAuthorization` (one-use tokens of
   the Android application), the mobile P2SH account as a second implementation
   of `SinglePayment`, `DappRelay`, the activity store and `GatewayCache`.
6. The compiler's struct flattening and covenant declarations, between
   `SilverMeaning` and the first pass.
