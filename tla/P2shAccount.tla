----------------------------- MODULE P2shAccount -----------------------------
(***************************************************************************)
(* The P2SH ("hidden KAS") account of the browser extension: the controller *)
(* of apps/browser_extension/src/background/p2sh.ts, with the context that  *)
(* index.ts builds around it (guard, save, persistVault) and the session it *)
(* lives in.                                                                *)
(*                                                                          *)
(* The account keeps a journal of issued addresses, of the addresses whose  *)
(* spending key has been exposed and of at most one signed payment.  The    *)
(* journal exists in several copies: the live session, the encrypted vault  *)
(* in local storage and the volatile copy of the offscreen document, from   *)
(* which a restarted service worker takes the session up again.  A command  *)
(* runs alone for its wallet but is interrupted by locking, by a change of  *)
(* account or network, by a closed view, by a failing write and by the      *)
(* service worker being stopped; other features write the same vault.       *)
(***************************************************************************)
EXTENDS Naturals

CONSTANTS
    PaymentIds,   \* identities of signed payments; their number is a bound
    CoinIds,      \* identities of transaction outputs; their number is a bound
    ReviewSlots,  \* prepared reviews kept in memory (32 in the code)
    Flows,        \* background flows that can load a session (unlock, hydrate)
    Gap,          \* discovery gap limit (20 in the code)
    MaxIndex,     \* addresses per branch (10000 in the code)
    None          \* no journal, no payment, no request

Receive == 0
Change == 1
Branch == {Receive, Change}
Key == Branch \X (0 .. MaxIndex - 1)

Coin == [id : CoinIds, at : Key]
Request == [utxos : SUBSET Coin, change : 0 .. MaxIndex - 1]
Payment == [id : PaymentIds, utxos : SUBSET Coin, change : 0 .. MaxIndex - 1]

\* What is encrypted with the wallet: how many addresses of each branch have
\* been issued, which keys are retired, and the saved payment.
Journal == [count   : [Branch -> 0 .. MaxIndex],
            exposed : SUBSET Key,
            pending : Payment \cup {None}]

ASSUME BoundsAreNatural == Gap \in Nat \ {0} /\ MaxIndex \in Nat \ {0}
ASSUME NoneIsNothing ==
    None \notin Journal \cup Payment \cup Request \cup ReviewSlots \cup 0 .. MaxIndex - 1

VARIABLES
    mem,        \* the live session's journal; None: locked or worker stopped
    disk,       \* the journal inside the encrypted vault
    off,        \* the copy held by the offscreen document, or None
    op,         \* the command in flight (operations allows one per wallet)
    reviews,    \* prepared payments waiting for Submit
    other,      \* a vault write of another feature of the wallet
    loading,    \* per flow, the journal it has read and not yet installed
    coins,      \* unspent outputs of the account, as the node reports them
    active,     \* keys that have ever appeared on the chain
    accepted,   \* payments the network has accepted
    submitted,  \* payments whose bytes were posted
    signed,     \* every payment ever signed
    handed      \* receive indices that were shown to the user

sessionVars == <<mem, off, loading>>
chainVars == <<coins, active, accepted>>
historyVars == <<submitted, signed, handed>>
vars == <<mem, disk, off, op, reviews, other, loading, coins, active,
          accepted, submitted, signed, handed>>

EmptyJournal == [count |-> [b \in Branch |-> 0], exposed |-> {}, pending |-> None]
Idle == [pc |-> "idle", cmd |-> "none", then |-> "none", found |-> {}, change |-> None,
         pay |-> None, prev |-> None, slot |-> None, live |-> TRUE]
\* A command whose guards fail from now on: all it can still do is to end.
Doomed == [Idle EXCEPT !.pc = "doomed"]
NoLoad == [from |-> "nowhere", journal |-> None]
NoLoads == [f \in Flows |-> NoLoad]
NoReviews == [s \in ReviewSlots |-> None]
Quiet == [stage |-> "quiet", buf |-> None]

Signers(coinSet) == {c.at : c \in coinSet}
KeysOf(p) == Signers(p.utxos) \cup {<<Change, p.change>>}

\* The journals from which a later session can start, with the live one.
Copies == ({disk, mem, off, other.buf} \cup {loading[f].journal : f \in Flows}) \ {None}

Init ==
    /\ mem = None
    /\ disk = EmptyJournal
    /\ off = None
    /\ op = Idle
    /\ reviews = NoReviews
    /\ other = Quiet
    /\ loading = NoLoads
    /\ coins = {} /\ active = {} /\ accepted = {}
    /\ submitted = {} /\ signed = {} /\ handed = {}

(***************************************************************************)
(* Address arithmetic                                                      *)
(***************************************************************************)

Least(S) == CHOOSE n \in S : \A m \in S : n <= m

\* observe: a count never falls, and covers every key seen in use.
Raised(n, b, used) ==
    Least({m \in n .. MaxIndex : \A k \in used : k[1] = b => k[2] < m})

Observe(j, used) ==
    [j EXCEPT !.count = [b \in Branch |-> Raised(j.count[b], b, used)],
              !.exposed = @ \cup used]

\* scan reads addresses of a branch until Gap consecutive ones are unused; a
\* retired key counts as used without a lookup.
InUse(j, b) == {k \in active \cup j.exposed : k[1] = b}
ScanEnd(j, b) ==
    Least({n \in j.count[b] .. MaxIndex + Gap + 1 :
             n >= Gap /\ \A k \in InUse(j, b) : k[2] < n => k[2] + Gap < n})

ScanFits(j) == \A b \in Branch : ScanEnd(j, b) <= MaxIndex
Found(j) == {k \in active \cup j.exposed : k[2] < ScanEnd(j, k[1])}

\* Mutant: no discovery-gap limit on issued addresses.
GapOpenUnlimited(j, b) == j.count[b] < MaxIndex + 1

\* Mutant: one address more than the scan can bridge.
GapOpenOffByOne(j, b) ==
    LET index == j.count[b] IN
    /\ index < MaxIndex
    /\ index <= Gap \/ \E k \in j.exposed : k[1] = b /\ index <= k[2] + Gap + 1

\* issue refuses an index more than Gap beyond the last exposed one.
GapOpen(j, b) ==
    LET index == j.count[b] IN
    /\ index < MaxIndex
    /\ index < Gap \/ \E k \in j.exposed : k[1] = b /\ index <= k[2] + Gap

Issue(j, b) == [j EXCEPT !.count[b] = @ + 1]

\* The last change address is offered again until a payment retires it.
ChangeReserved(j) ==
    j.count[Change] > 0 /\ <<Change, j.count[Change] - 1>> \notin j.exposed

Available(j) == {i \in 0 .. MaxIndex - 1 :
                   i < j.count[Receive] /\ <<Receive, i>> \notin j.exposed}

VerifyRequest(j, r) ==
    /\ j.pending = None
    /\ r.change + 1 = j.count[Change]
    /\ <<Change, r.change>> \notin j.exposed
    /\ \A k \in Signers(r.utxos) : k[2] < j.count[k[1]]

(***************************************************************************)
(* Saving.  save() changes the live journal first and then queues a vault   *)
(* write: the encrypted vault, then the offscreen copy, each behind a guard *)
(***************************************************************************)

StartSave(next, then) ==
    /\ mem' = next
    /\ op' = [op EXCEPT !.pc = "save", !.then = then, !.prev = mem.pending]

At(pc) == op.pc = pc /\ op.live   \* the guard before the step passes

\* The write reaches local storage when the queue of vault writes is free.
SaveDisk ==
    /\ At("save") /\ other = Quiet
    /\ disk' = mem
    /\ op' = [op EXCEPT !.pc = "stored"]
    /\ UNCHANGED <<sessionVars, reviews, other, chainVars, historyVars>>

\* rememberSession refreshes the offscreen copy; the command goes on.
Continue(pc) == op' = [op EXCEPT !.pc = pc, !.then = "none", !.prev = None]

SaveVolatile ==
    /\ At("stored")
    /\ off' = mem
    /\ \/ op.then = "observed" /\ Continue("scanned") /\ UNCHANGED <<reviews, handed>>
       \/ op.then = "issued" /\ op' = Idle /\ UNCHANGED reviews
          /\ handed' = handed \cup {mem.count[Receive] - 1}
       \/ op.then = "reserved" /\ Continue("build") /\ UNCHANGED <<reviews, handed>>
       \/ op.then = "retired" /\ Continue("sign") /\ UNCHANGED handed
          /\ reviews' = [reviews EXCEPT ![op.slot] = None]
       \/ op.then = "pended" /\ op' = [Idle EXCEPT !.pc = "resume"] /\ UNCHANGED <<reviews, handed>>
       \/ op.then = "recommitted" /\ Continue("post") /\ UNCHANGED <<reviews, handed>>
       \/ op.then = "cleared" /\ op' = Idle /\ UNCHANGED <<reviews, handed>>
    /\ UNCHANGED <<mem, disk, other, loading, chainVars, submitted, signed>>

\* A guard or a storage call fails: a saved payment that was being cleared is
\* put back into the live journal, every other change of it stays.
SaveFails ==
    /\ op.pc \in {"save", "stored"}
    /\ mem' = IF op.prev # None /\ mem.pending = None
                THEN [mem EXCEPT !.pending = op.prev] ELSE mem
    /\ op' = Idle
    /\ off' \in (IF op.pc = "stored" THEN {off, mem} ELSE {off})
    /\ UNCHANGED <<disk, reviews, other, loading, chainVars, historyVars>>

(***************************************************************************)
(* Commands                                                                *)
(***************************************************************************)

Unlocked == mem # None

\* p2shReceive, p2shReceive with fresh, and p2shPrepare start with a scan;
\* p2shRefresh without a saved payment does what p2shReceive does.
BeginScan(cmd) ==
    /\ Unlocked /\ op = Idle
    /\ op' = [Idle EXCEPT !.pc = "scan", !.cmd = cmd]
    /\ UNCHANGED <<sessionVars, disk, reviews, other, chainVars, historyVars>>

\* p2shResume, and p2shRefresh when a payment is saved.
BeginResume ==
    /\ Unlocked /\ op = Idle
    /\ op' = [Idle EXCEPT !.pc = "resume"]
    /\ UNCHANGED <<sessionVars, disk, reviews, other, chainVars, historyVars>>

BeginSubmit(s) ==
    /\ Unlocked /\ op = Idle /\ reviews[s] # None
    /\ op' = [Idle EXCEPT !.pc = "approve", !.slot = s,
                          !.found = reviews[s].utxos, !.change = reviews[s].change]
    /\ UNCHANGED <<sessionVars, disk, reviews, other, chainVars, historyVars>>

\* scan, and the observe it ends with: nothing is written when nothing is new.
Scan ==
    /\ At("scan") /\ ScanFits(mem)
    /\ LET next == Observe(mem, Found(mem))
           seen == IF op.cmd = "prepare"
                     THEN {c \in coins : c.at[2] < ScanEnd(mem, c.at[1])} ELSE {}
       IN \/ /\ next = mem
             /\ op' = [op EXCEPT !.pc = "scanned", !.found = seen]
             /\ UNCHANGED mem
          \/ /\ next # mem
             /\ mem' = next
             /\ op' = [op EXCEPT !.pc = "save", !.then = "observed",
                                 !.prev = mem.pending, !.found = seen]
    /\ UNCHANGED <<disk, off, reviews, other, loading, chainVars, historyVars>>

\* An address that is issued and unused is shown again.
HandOut ==
    /\ At("scanned") /\ op.cmd = "receive"
    /\ mem.pending = None
    /\ \E i \in Available(mem) :
          (\A k \in Available(mem) : k <= i) /\ handed' = handed \cup {i}
    /\ op' = Idle
    /\ UNCHANGED <<sessionVars, disk, reviews, other, chainVars, submitted, signed>>

IssueReceive ==
    /\ At("scanned")
    /\ op.cmd = "fresh" \/ (op.cmd = "receive" /\ Available(mem) = {})
    /\ mem.pending = None /\ GapOpen(mem, Receive)
    /\ StartSave(Issue(mem, Receive), "issued")
    /\ UNCHANGED <<disk, off, reviews, other, loading, chainVars, historyVars>>

\* p2shPrepare reserves the change address.
ReserveChange ==
    /\ At("scanned") /\ op.cmd = "prepare"
    /\ mem.pending = None /\ op.found # {}
    /\ \/ /\ ChangeReserved(mem)
          /\ op' = [op EXCEPT !.pc = "build"]
          /\ UNCHANGED mem
       \/ /\ ~ChangeReserved(mem) /\ GapOpen(mem, Change)
          /\ StartSave(Issue(mem, Change), "reserved")
    /\ UNCHANGED <<disk, off, reviews, other, loading, chainVars, historyVars>>

\* The request is verified and its review kept for the user.
KeepReview(s) ==
    /\ At("build") /\ reviews[s] = None
    /\ LET r == [utxos |-> op.found, change |-> mem.count[Change] - 1]
       IN VerifyRequest(mem, r) /\ reviews' = [reviews EXCEPT ![s] = r]
    /\ op' = Idle
    /\ UNCHANGED <<sessionVars, disk, other, chainVars, historyVars>>

\* A review expires after ten minutes.
ExpireReview(s) ==
    /\ reviews[s] # None
    /\ reviews' = [reviews EXCEPT ![s] = None]
    /\ UNCHANGED <<sessionVars, disk, op, other, chainVars, historyVars>>

\* Mutant: the retirement is not saved before signing.
RetireInMemory ==
    /\ At("approve")
    /\ VerifyRequest(mem, [utxos |-> op.found, change |-> op.change])
    /\ {c \in coins : c.at \in Signers(op.found)} = op.found
    /\ mem' = Observe(mem, Signers(op.found) \cup {<<Change, op.change>>})
    /\ Continue("sign")
    /\ UNCHANGED <<disk, off, reviews, other, loading, chainVars, historyVars>>

\* Mutant: the change address is forgotten among the retired keys.
RetireInputsOnly ==
    /\ At("approve")
    /\ VerifyRequest(mem, [utxos |-> op.found, change |-> op.change])
    /\ {c \in coins : c.at \in Signers(op.found)} = op.found
    /\ StartSave(Observe(mem, Signers(op.found)), "retired")
    /\ UNCHANGED <<disk, off, reviews, other, loading, chainVars, historyVars>>

\* The user approved: the request is verified again, the outputs of every
\* signing address must still be the reviewed ones, and the keys are retired.
Retire ==
    /\ At("approve")
    /\ VerifyRequest(mem, [utxos |-> op.found, change |-> op.change])
    /\ {c \in coins : c.at \in Signers(op.found)} = op.found
    /\ StartSave(Observe(mem, Signers(op.found) \cup {<<Change, op.change>>}), "retired")
    /\ UNCHANGED <<disk, off, reviews, other, loading, chainVars, historyVars>>

Sign(id) ==
    LET p == [id |-> id, utxos |-> op.found, change |-> op.change] IN
    /\ At("sign") /\ \A q \in signed : q.id # id
    /\ signed' = signed \cup {p}
    /\ op' = [Idle EXCEPT !.pc = "signed", !.pay = p]
    /\ UNCHANGED <<sessionVars, disk, reviews, other, chainVars, submitted, handed>>

SavePending ==
    /\ At("signed") /\ mem.pending = None
    /\ StartSave([mem EXCEPT !.pending = op.pay], "pended")
    /\ UNCHANGED <<disk, off, reviews, other, loading, chainVars, historyVars>>

(***************************************************************************)
(* Resuming the saved payment                                              *)
(***************************************************************************)

ResumeNothing ==
    /\ At("resume") /\ mem.pending = None
    /\ op' = Idle
    /\ UNCHANGED <<sessionVars, disk, reviews, other, chainVars, historyVars>>

Cleared(j) == [j EXCEPT !.pending = None]

\* confirmed: the node proves acceptance, the payment leaves the journal.
Confirm ==
    /\ At("resume") \/ At("posted")
    /\ mem.pending # None /\ mem.pending \in accepted
    /\ op.pc = "posted" => mem.pending = op.pay
    /\ StartSave(Cleared(mem), "cleared")
    /\ UNCHANGED <<disk, off, reviews, other, loading, chainVars, historyVars>>

\* Mutant: the payment in memory is trusted to be durable.
RecommitNothing ==
    /\ At("resume")
    /\ mem.pending # None /\ mem.pending \notin accepted
    /\ op' = [op EXCEPT !.pc = "post", !.pay = mem.pending]
    /\ UNCHANGED <<sessionVars, disk, reviews, other, chainVars, historyVars>>

\* The journal is committed again before every possible submission.
Recommit ==
    /\ At("resume")
    /\ mem.pending # None /\ mem.pending \notin accepted
    /\ mem' = mem
    /\ op' = [op EXCEPT !.pc = "save", !.then = "recommitted",
                        !.prev = mem.pending, !.pay = mem.pending]
    /\ UNCHANGED <<disk, off, reviews, other, loading, chainVars, historyVars>>

Post ==
    /\ At("post")
    /\ submitted' = submitted \cup {op.pay}
    /\ op' = [op EXCEPT !.pc = "posted"]
    /\ UNCHANGED <<sessionVars, disk, reviews, other, chainVars, signed, handed>>

\* Mutant: a rejected or unanswered payment is dropped from the journal.
StopPollingForgets ==
    /\ op.pc = "posted"
    /\ \/ mem = None /\ op' = Idle /\ UNCHANGED mem
       \/ mem # None /\ StartSave(Cleared(mem), "cleared")
    /\ UNCHANGED <<disk, off, reviews, other, loading, chainVars, historyVars>>

\* Rejection, a mismatched receipt, a lost answer or thirty seconds without
\* proof: the command ends and the payment stays saved.
StopPolling ==
    /\ op.pc = "posted"
    /\ op' = Idle
    /\ UNCHANGED <<sessionVars, disk, reviews, other, chainVars, historyVars>>

\* Any awaited call before that fails, the user declines, a check refuses.
Fail ==
    /\ op.pc \in {"scan", "scanned", "build", "approve", "sign", "signed", "resume", "post"}
    /\ op' = Idle
    /\ UNCHANGED <<sessionVars, disk, reviews, other, chainVars, historyVars>>

Unwind ==
    /\ op.pc = "doomed"
    /\ op' = Idle
    /\ UNCHANGED <<sessionVars, disk, reviews, other, chainVars, historyVars>>

(***************************************************************************)
(* The vault write of another feature: it serialises the session's vault,   *)
(* encrypts it, and stores the ciphertext later                             *)
(***************************************************************************)

OtherSeal ==
    /\ Unlocked /\ other = Quiet /\ op.pc # "stored"
    /\ other' = [stage |-> "sealed", buf |-> mem]
    /\ UNCHANGED <<sessionVars, disk, op, reviews, chainVars, historyVars>>

OtherDisk ==
    /\ other.stage = "sealed"
    /\ disk' = other.buf
    /\ other' = [stage |-> "stored", buf |-> None]
    /\ UNCHANGED <<sessionVars, op, reviews, chainVars, historyVars>>

OtherVolatile ==
    /\ other.stage = "stored"
    /\ off' = mem
    /\ other' = Quiet
    /\ UNCHANGED <<mem, disk, op, reviews, loading, chainVars, historyVars>>

OtherFails ==
    /\ other # Quiet
    /\ other' = Quiet
    /\ UNCHANGED <<sessionVars, disk, op, reviews, chainVars, historyVars>>

(***************************************************************************)
(* The session                                                             *)
(***************************************************************************)

\* The command in flight belongs to a session that no longer exists.
Orphan == IF op.pc = "idle" THEN Idle ELSE Doomed

\* The next guard of the command fails; a save still undoes what it must.
Interrupted == IF op.pc \in {"save", "stored"} THEN [op EXCEPT !.live = FALSE] ELSE Orphan

\* Lock, or the auto-lock: both volatile copies are dropped.
Lock ==
    /\ Unlocked
    /\ mem' = None /\ off' = None
    /\ op' = Orphan
    /\ reviews' = NoReviews
    /\ other' = Quiet
    /\ UNCHANGED <<disk, loading, chainVars, historyVars>>

\* Another account or network is selected: reviews are bound to the old one.
ChangeContext ==
    /\ Unlocked
    /\ op' = Interrupted
    /\ reviews' = NoReviews
    /\ UNCHANGED <<sessionVars, disk, other, chainVars, historyVars>>

\* The view that started the command is closed: its signal aborts.
CloseView ==
    /\ op.pc \notin {"idle", "doomed"} /\ op.live
    /\ op' = Interrupted
    /\ UNCHANGED <<sessionVars, disk, reviews, other, chainVars, historyVars>>

\* The service worker is stopped; with the browser the offscreen document goes.
Stop(withBrowser) ==
    /\ Unlocked \/ loading # NoLoads \/ (withBrowser /\ off # None)
    /\ mem' = None
    /\ off' = IF withBrowser THEN None ELSE off
    /\ op' = Idle
    /\ reviews' = NoReviews
    /\ other' = Quiet
    /\ loading' = NoLoads
    /\ UNCHANGED <<disk, chainVars, historyVars>>

\* A flow that finds no session asks the offscreen document (hydrateSession),
\* or reads the encrypted vault (unlock) when that document holds nothing.
Load(f) ==
    /\ mem = None /\ loading[f] = NoLoad
    /\ loading' = [loading EXCEPT ![f] =
                     IF off # None THEN [from |-> "offscreen", journal |-> off]
                                   ELSE [from |-> "vault", journal |-> disk]]
    /\ UNCHANGED <<mem, disk, off, op, reviews, other, chainVars, historyVars>>

\* The answer arrives and becomes the session, whatever happened since.  An
\* unlock starts a new generation and fills the offscreen document.
Install(f) ==
    /\ loading[f] # NoLoad
    /\ mem' = loading[f].journal
    /\ \/ loading[f].from = "vault" /\ off' = loading[f].journal /\ reviews' = NoReviews
       \/ loading[f].from = "offscreen" /\ UNCHANGED <<off, reviews>>
    /\ loading' = [loading EXCEPT ![f] = NoLoad]
    /\ op' = Orphan
    /\ other' = Quiet
    /\ UNCHANGED <<disk, chainVars, historyVars>>

\* A wrong password, or an answer that does not validate.
AbandonLoad(f) ==
    /\ loading[f] # NoLoad
    /\ loading' = [loading EXCEPT ![f] = NoLoad]
    /\ UNCHANGED <<mem, disk, off, op, reviews, other, chainVars, historyVars>>

(***************************************************************************)
(* The network                                                             *)
(***************************************************************************)

FreshCoin(id) ==
    /\ \A c \in coins : c.id # id
    /\ \A p \in signed : \A c \in p.utxos : c.id # id

\* Somebody pays an address that was shown or that is known from the chain.
Deposit(id, k) ==
    /\ FreshCoin(id)
    /\ k \in active \/ (k[1] = Receive /\ k[2] \in handed)
    /\ coins' = coins \cup {[id |-> id, at |-> k]}
    /\ active' = active \cup {k}
    /\ UNCHANGED <<sessionVars, disk, op, reviews, other, accepted, historyVars>>

\* A submitted payment spends its inputs, with or without a change output.
Accept(p, id) ==
    /\ p \in submitted \ accepted /\ p.utxos \subseteq coins
    /\ accepted' = accepted \cup {p}
    /\ \/ /\ coins' = coins \ p.utxos
          /\ UNCHANGED active
       \/ /\ FreshCoin(id)
          /\ coins' = (coins \ p.utxos) \cup {[id |-> id, at |-> <<Change, p.change>>]}
          /\ active' = active \cup {<<Change, p.change>>}
    /\ UNCHANGED <<sessionVars, disk, op, reviews, other, historyVars>>

(***************************************************************************)
(* Specification                                                           *)
(***************************************************************************)

ScanCommands == {"receive", "fresh", "prepare"}

Saving == SaveDisk \/ SaveVolatile \/ SaveFails

Paying ==
    \/ Retire \/ SavePending \/ (\E id \in PaymentIds : Sign(id))
    \/ ResumeNothing \/ Confirm \/ Recommit \/ Post \/ StopPolling

Working ==
    \/ Saving \/ Paying
    \/ Scan \/ HandOut \/ IssueReceive \/ ReserveChange
    \/ \E s \in ReviewSlots : KeepReview(s)
    \/ Fail \/ Unwind

OtherWrite == OtherSeal \/ OtherDisk \/ OtherVolatile \/ OtherFails

Beginning ==
    \/ \E cmd \in ScanCommands : BeginScan(cmd)
    \/ BeginResume
    \/ \E s \in ReviewSlots : BeginSubmit(s) \/ ExpireReview(s)

Session ==
    \/ Lock \/ ChangeContext \/ CloseView
    \/ \E withBrowser \in BOOLEAN : Stop(withBrowser)
    \/ \E f \in Flows : Load(f) \/ Install(f) \/ AbandonLoad(f)

Network ==
    \E id \in CoinIds :
        \/ \E k \in Key : Deposit(id, k)
        \/ \E p \in submitted : Accept(p, id)

Next == Working \/ OtherWrite \/ Beginning \/ Session \/ Network

Spec == Init /\ [][Next]_vars

(***************************************************************************)
(* Properties                                                              *)
(***************************************************************************)

OpType ==
    [pc     : {"idle", "doomed", "scan", "scanned", "build", "approve", "save", "stored",
               "sign", "signed", "resume", "post", "posted"},
     cmd    : ScanCommands \cup {"none"},
     then   : {"none", "observed", "issued", "reserved", "retired", "pended",
               "recommitted", "cleared"},
     found  : SUBSET Coin,
     change : (0 .. MaxIndex - 1) \cup {None},
     pay    : Payment \cup {None},
     prev   : Payment \cup {None},
     slot   : ReviewSlots \cup {None},
     live   : BOOLEAN]

\* The variables have their types (journals with the bounds of p2sh.ts:41).
TypeOK ==
    /\ mem \in Journal \cup {None}
    /\ disk \in Journal
    /\ off \in Journal \cup {None}
    /\ op \in OpType
    /\ reviews \in [ReviewSlots -> Request \cup {None}]
    /\ other \in [stage : {"quiet", "sealed", "stored"}, buf : Journal \cup {None}]
    /\ loading \in [Flows -> [from : {"nowhere", "vault", "offscreen"},
                              journal : Journal \cup {None}]]
    /\ coins \subseteq Coin
    /\ active \subseteq Key
    /\ accepted \subseteq Payment /\ submitted \subseteq Payment /\ signed \subseteq Payment
    /\ handed \subseteq 0 .. MaxIndex - 1

\* p2sh.ts:315 "Durable retirement BEFORE signing": whatever is lost afterwards,
\* every journal a session can start from knows the keys of every payment
\* that was ever signed as retired.
RetiredBeforeSigned ==
    \A p \in signed : \A j \in Copies : KeysOf(p) \subseteq j.exposed

\* A change address serves one signature: no two signed payments, submitted or
\* not, pay their change to the same address (verifyRequest, p2sh.ts:329).
ChangeNeverShared ==
    \A p, q \in signed : p.change = q.change => p = q

\* p2sh.ts:320 "Durable BEFORE any broadcast": as long as a submitted payment is
\* not accepted it is the saved payment of every journal a session can start
\* from, so that it is resumed and nothing else can be signed.
SubmittedIsJournaled ==
    \A p \in submitted \ accepted : \A j \in Copies : j.pending = p

\* Whatever the journal has forgotten, the discovery scan of any journal a
\* session can start from reaches every unspent output of the account.
EveryCoinIsFound ==
    \A c \in coins : \A j \in Copies : c.at[2] < ScanEnd(j, c.at[1])

\* No interruption leaves a journal that validateP2shState (p2sh.ts:38) refuses,
\* with the account out of reach: retired keys lie within the issued counts and
\* the saved payment uses retired keys only.
JournalsAreValid ==
    \A j \in Copies :
        /\ \A k \in j.exposed : k[2] < j.count[k[1]]
        /\ j.pending # None => KeysOf(j.pending) \subseteq j.exposed

\* docs/experimental-hidden-kas.md:258 "Commit issued addresses before UI
\* exposure": an address that was shown lies inside the durable count.
HandedOutIsDurable ==
    \A i \in handed : i < disk.count[Receive]

\* What the account promises: one payment at a time.
OnePayment == INSTANCE SinglePayment WITH
    Payments <- PaymentIds,
    sent     <- {p.id : p \in submitted},
    settled  <- {p.id : p \in accepted}

\* Every step of the controller is a step of the promise, or none.
PaysOneAtATime == OnePayment!Spec

(***************************************************************************)
(* The inductive invariant: what is true between any two steps of the      *)
(* controller, and why the properties of the account follow.               *)
(***************************************************************************)

\* The command waits in a save() that goes on to the step named by then.
SavingFor(then) == op.pc \in {"save", "stored"} /\ op.then = then

(***************************************************************************)
(* Types, with what the steps of a command need to find                    *)
(***************************************************************************)

Shape ==
    /\ op.pc \notin {"idle", "doomed"} => mem # None
    /\ other.stage = "sealed" => other.buf # None
    /\ op.pc \in {"approve", "sign"} \/ SavingFor("retired") => op.change # None
    /\ SavingFor("issued") => mem.count[Receive] > 0
    /\ op.pc = "build" \/ SavingFor("reserved") => mem.count[Change] > 0
    /\ op.pc = "post" \/ SavingFor("recommitted") => op.pay # None

TypeInv == TypeOK /\ Shape

(***************************************************************************)
(* Safety                                                                  *)
(***************************************************************************)

\* With one loader, a session is loaded only while there is none.
OneLoader == \A f, g \in Flows : f = g

LoadingAlone == \A f \in Flows : loading[f] # NoLoad => mem = None

\* Between its two writes a save() has the queue of vault writes to itself.
StoredAlone == op.pc = "stored" => other = Quiet /\ disk = mem

\* Every payment anyone remembers was signed, and signed once.
PaymentsAreSigned ==
    /\ accepted \subseteq submitted /\ submitted \subseteq signed
    /\ {op.pay, op.prev} \subseteq signed \cup {None}
    /\ \A j \in Copies : j.pending \in signed \cup {None}
    /\ \A p, q \in signed : p.id = q.id => p = q

OpKeys == Signers(op.found) \cup {<<Change, op.change>>}

\* Between the retirement and the signature the keys stay retired and unsigned.
RetirementHolds ==
    /\ SavingFor("retired") => OpKeys \subseteq mem.exposed
    /\ op.pc = "sign" => \A j \in Copies : OpKeys \subseteq j.exposed
    /\ SavingFor("retired") \/ op.pc = "sign" => \A q \in signed : q.change # op.change

\* Between the last commit and the submission every copy holds the payment.
CommitHolds ==
    /\ SavingFor("recommitted") => mem.pending = op.pay
    /\ op.pc = "post" => \A j \in Copies : j.pending = op.pay

ExposedIsIssued == \A j \in Copies : \A k \in j.exposed : k[2] < j.count[k[1]]

(***************************************************************************)
(* Discovery: why a scan of any copy gets as far as the outputs            *)
(***************************************************************************)

\* What a command, a review or the wallet holds was seen on the chain.
KnownCoins ==
    /\ \A c \in coins \cup op.found : c.at \in active
    /\ \A s \in ReviewSlots : reviews[s] # None => \A c \in reviews[s].utxos : c.at \in active

\* A scan that has come as far as index i does not stop in front of it.
Bridged(i) ==
    i < Gap \/ \E k \in active : k[1] = Receive /\ k[2] < i /\ i <= k[2] + Gap

\* Every index ever issued, shown or paid is bridged by the chain alone, so it is
\* reached from a copy that knows nothing of it.
AddressesBridged ==
    /\ \A j \in Copies : \A k \in j.exposed : k[1] = Receive => k \in active
    /\ \A j \in Copies : \A i \in 0 .. MaxIndex - 1 : i < j.count[Receive] => Bridged(i)
    /\ \A i \in handed : Bridged(i)
    /\ \A k \in active : k[1] = Receive => Bridged(k[2])

\* A change address on the chain belongs to an accepted payment.
ChangeIsAccepted ==
    \A k \in active : k[1] = Change => \E p \in accepted : p.change = k[2]

Discovery == KnownCoins /\ AddressesBridged /\ ChangeIsAccepted

IInv ==
    /\ TypeInv
    /\ LoadingAlone /\ StoredAlone
    /\ PaymentsAreSigned /\ RetirementHolds /\ CommitHolds
    /\ RetiredBeforeSigned /\ ChangeNeverShared /\ SubmittedIsJournaled
    /\ ExposedIsIssued
    /\ Discovery

=============================================================================
