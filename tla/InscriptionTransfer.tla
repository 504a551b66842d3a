------------------------ MODULE InscriptionTransfer ------------------------
(***************************************************************************)
(* Commit/reveal transfers of KRC-20, KRC-721 and KNS assets in the browser *)
(* extension (apps/browser_extension/src/background/index.ts).              *)
(*                                                                          *)
(* A transfer commits KAS to an address and then spends that output in the  *)
(* reveal.  Between the two the commit is remembered in one slot of local   *)
(* storage, from which an interrupted transfer is resumed.  A flag of the   *)
(* service worker is meant to keep operations apart; it is read before and  *)
(* written after a storage call.  The wallet is locked and unlocked, the    *)
(* worker stopped and answers of the network lost at any moment.            *)
(***************************************************************************)
EXTENDS Naturals

CONSTANTS
    Dapps,      \* sites that ask for transfers; each is an origin of its own
    Views,      \* open wallet views; their approvals share one origin
    Commits,    \* identities of commit transactions; their number is a bound
    Overlap,    \* whether a transfer may start while another one is running
    None        \* an empty slot

Flows == Dapps \cup Views

ASSUME FlowsAreApart == Dapps \cap Views = {}
ASSUME NoneIsNoCommit == None \notin Commits
ASSUME OverlapIsBoolean == Overlap \in BOOLEAN

VARIABLES
    inscriptionOperationInFlight,  \* the worker's flag
    pendingInscription,            \* local storage: the saved commit
    preparedAsset,                 \* session storage: the reviewed transfer
    unlocked,                      \* the wallet has a session
    flow,                          \* per caller, its operation
    committed,                     \* commits the network has accepted
    revealed                       \* commits whose reveal it has accepted

network == <<committed, revealed>>
stores == <<pendingInscription, preparedAsset>>
vars == <<inscriptionOperationInFlight, stores, unlocked, flow, network>>

\* pc: the step the operation waits in.  path: "direct" for
\* inscriptionTransferUnsafe, "recovery" once finishPendingInscription runs.
\* valid: the session generation captured by a recovery is still current.
\* bound: the generation kept with the approval is that of the present session.
Idle == [pc |-> "idle", path |-> "none", commit |-> None, read |-> None,
         bound |-> FALSE, valid |-> FALSE]

Steps == {"idle", "asking", "answered", "preparing", "commit?", "committing", "committed",
          "saved", "read", "waiting", "reveal?", "approved", "revealing", "revealed"}
Approving == {"commit?", "reveal?"}
Inside == Steps \ {"idle", "asking", "answered", "read"}

Init ==
    /\ inscriptionOperationInFlight = FALSE
    /\ pendingInscription = None
    /\ preparedAsset = None
    /\ unlocked = FALSE
    /\ flow = [f \in Flows |-> Idle]
    /\ committed = {} /\ revealed = {}

At(f, pc) == flow[f].pc = pc
GoTo(f, pc) == flow' = [flow EXCEPT ![f].pc = pc]

\* An operation ends: the finally block of whoever holds the flag clears it.
LeaveAll(F) ==
    /\ flow' = [f \in Flows |-> IF f \in F THEN Idle ELSE flow[f]]
    /\ inscriptionOperationInFlight' =
         (inscriptionOperationInFlight /\ \A f \in F : flow[f].pc \notin Inside)

Leave(f) == LeaveAll({f})

\* approve refuses a second approval for the same origin.
SameOrigin(f, g) == f = g \/ {f, g} \subseteq Views
CanAsk(f) == \A g \in Flows : SameOrigin(f, g) => flow[g].pc \notin Approving

Fresh(c) ==
    /\ c \notin committed /\ c # preparedAsset
    /\ \A f \in Flows : flow[f].commit # c

(***************************************************************************)
(* Starting a transfer                                                     *)
(***************************************************************************)

\* prepareAsset keeps one reviewed transfer for the user to confirm.
Prepare(c) ==
    /\ unlocked /\ Fresh(c)
    /\ preparedAsset' = c
    /\ UNCHANGED <<inscriptionOperationInFlight, pendingInscription, unlocked, flow, network>>

Transferring(f) == flow[f].path \in {"direct", "prepared"}

\* runExclusiveInscription reads the flag and then asks for the saved commit.
StartTransfer(f, path) ==
    /\ At(f, "idle") /\ unlocked
    /\ ~inscriptionOperationInFlight
    /\ path = "prepared" => f \in Views
    /\ Overlap \/ \A g \in Flows : ~Transferring(g)
    /\ flow' = [flow EXCEPT ![f].pc = "asking", ![f].path = path]
    /\ UNCHANGED <<inscriptionOperationInFlight, stores, unlocked, network>>

Answer(f) ==
    /\ At(f, "asking")
    /\ flow' = [flow EXCEPT ![f].pc = "answered", ![f].read = pendingInscription]
    /\ UNCHANGED <<inscriptionOperationInFlight, stores, unlocked, network>>

\* Mutant: a saved commit does not stop another transfer.
EnterRegardless(f) ==
    /\ At(f, "answered")
    /\ inscriptionOperationInFlight' = TRUE
    /\ GoTo(f, "preparing")
    /\ UNCHANGED <<stores, unlocked, network>>

\* Nothing was saved: the flag is set, without looking at it again.
Enter(f) ==
    /\ At(f, "answered") /\ flow[f].read = None
    /\ inscriptionOperationInFlight' = TRUE
    /\ GoTo(f, "preparing")
    /\ UNCHANGED <<stores, unlocked, network>>

(***************************************************************************)
(* The commit                                                              *)
(***************************************************************************)

\* The commit is built, or found among the prepared ones, and reviewed.
ReviewCommit(f, c) ==
    /\ At(f, "preparing") /\ CanAsk(f)
    /\ IF flow[f].path = "prepared" THEN c = preparedAsset ELSE Fresh(c)
    /\ flow' = [flow EXCEPT ![f].pc = "commit?", ![f].commit = c, ![f].bound = unlocked]
    /\ UNCHANGED <<inscriptionOperationInFlight, stores, unlocked, network>>

\* Mutant: the commit is saved without waiting for its broadcast.
ApproveUnposted(f) ==
    /\ At(f, "commit?")
    /\ GoTo(f, "committed")
    /\ UNCHANGED <<inscriptionOperationInFlight, stores, unlocked, network>>

ApproveCommit(f) ==
    /\ At(f, "commit?")
    /\ GoTo(f, "committing")
    /\ UNCHANGED <<inscriptionOperationInFlight, stores, unlocked, network>>

\* The node accepts a transaction once; its answer arrives or is lost.
PostCommit(f) ==
    /\ At(f, "committing") /\ flow[f].commit \notin committed
    /\ committed' = committed \cup {flow[f].commit}
    /\ \/ GoTo(f, "committed") /\ UNCHANGED inscriptionOperationInFlight
       \/ Leave(f)
    /\ UNCHANGED <<stores, unlocked, revealed>>

SaveCommit(f) ==
    /\ At(f, "committed")
    /\ pendingInscription' = flow[f].commit
    /\ GoTo(f, IF flow[f].path = "prepared" THEN "saved" ELSE "waiting")
    /\ UNCHANGED <<inscriptionOperationInFlight, preparedAsset, unlocked, network>>

\* confirmPreparedAsset drops its review and goes on as a recovery does, which
\* captures the generation of the moment, the wallet being locked or not.
DropPrepared(f) ==
    /\ At(f, "saved")
    /\ preparedAsset' = None
    /\ flow' = [flow EXCEPT ![f].pc = "waiting", ![f].path = "recovery", ![f].valid = TRUE]
    /\ UNCHANGED <<inscriptionOperationInFlight, pendingInscription, unlocked, network>>

(***************************************************************************)
(* The reveal                                                              *)
(***************************************************************************)

\* resumeInscription reads the saved commit first ...
ReadPending(f) ==
    /\ f \in Views /\ At(f, "idle") /\ unlocked
    /\ pendingInscription # None
    /\ flow' = [flow EXCEPT ![f].pc = "read", ![f].commit = pendingInscription]
    /\ UNCHANGED <<inscriptionOperationInFlight, stores, unlocked, network>>

\* ... and then tests and sets the flag in one step.
EnterResume(f) ==
    /\ At(f, "read") /\ ~inscriptionOperationInFlight /\ unlocked
    /\ inscriptionOperationInFlight' = TRUE
    /\ flow' = [flow EXCEPT ![f].pc = "waiting", ![f].path = "recovery", ![f].valid = TRUE]
    /\ UNCHANGED <<stores, unlocked, network>>

\* waitForUtxo finds the output; the reveal is built and reviewed.
ReviewReveal(f) ==
    /\ At(f, "waiting") /\ flow[f].commit \in committed /\ CanAsk(f)
    /\ flow' = [flow EXCEPT ![f].pc = "reveal?", ![f].bound = unlocked]
    /\ UNCHANGED <<inscriptionOperationInFlight, stores, unlocked, network>>

ApproveReveal(f) ==
    /\ At(f, "reveal?")
    /\ GoTo(f, "approved")
    /\ UNCHANGED <<inscriptionOperationInFlight, stores, unlocked, network>>

\* A recovery looks at the session again, after the approval was awaited.
SignReveal(f) ==
    /\ At(f, "approved")
    /\ flow[f].path = "recovery" => unlocked /\ flow[f].valid
    /\ GoTo(f, "revealing")
    /\ UNCHANGED <<inscriptionOperationInFlight, stores, unlocked, network>>

PostReveal(f) ==
    /\ At(f, "revealing") /\ flow[f].commit \notin revealed
    /\ revealed' = revealed \cup {flow[f].commit}
    /\ \/ GoTo(f, "revealed") /\ UNCHANGED inscriptionOperationInFlight
       \/ Leave(f)
    /\ UNCHANGED <<stores, unlocked, committed>>

\* The activity is recorded, the slot emptied and the operation over.
RemovePending(f) ==
    /\ At(f, "revealed")
    /\ pendingInscription' = None
    /\ Leave(f)
    /\ UNCHANGED <<preparedAsset, unlocked, network>>

\* Mutant: the flag is cleared on success only.
FailHoldingFlag(f) ==
    /\ flow[f].pc # "idle"
    /\ flow' = [flow EXCEPT ![f] = Idle]
    /\ UNCHANGED <<inscriptionOperationInFlight, stores, unlocked, network>>

\* A check refuses, the user declines, an approval or a poll times out, a call
\* of the network or of the storage fails.
Fail(f) ==
    /\ flow[f].pc # "idle"
    /\ Leave(f)
    /\ UNCHANGED <<stores, unlocked, network>>

(***************************************************************************)
(* The session and the worker                                              *)
(***************************************************************************)

\* A new generation: what an operation or an approval captured before is no longer
\* current.
NewGeneration(F) ==
    /\ flow' = [f \in Flows |-> IF f \in F THEN Idle
                                ELSE [flow[f] EXCEPT !.valid = FALSE, !.bound = FALSE]]
    /\ inscriptionOperationInFlight' =
         (inscriptionOperationInFlight /\ \A f \in F : flow[f].pc \notin Inside)

\* Locking rejects every open approval and forgets the prepared transfer.
Lock ==
    /\ unlocked
    /\ unlocked' = FALSE
    /\ NewGeneration({f \in Flows : flow[f].pc \in Approving})
    /\ preparedAsset' = None
    /\ UNCHANGED <<pendingInscription, network>>

\* Mutant: unlocking goes on with the generation of the lock.
UnlockQuietly ==
    /\ ~unlocked
    /\ unlocked' = TRUE
    /\ UNCHANGED <<inscriptionOperationInFlight, stores, flow, network>>

\* Unlocking rejects the approvals that belong to an earlier session; those opened
\* while the wallet was locked stay.
Unlock ==
    /\ ~unlocked
    /\ unlocked' = TRUE
    /\ NewGeneration({f \in Flows : flow[f].pc \in Approving /\ flow[f].bound})
    /\ UNCHANGED <<stores, network>>

\* The worker is stopped and later resumes its session; with the browser the
\* session and its storage go.
Stop(withBrowser) ==
    /\ flow # [f \in Flows |-> Idle] \/ withBrowser
    /\ flow' = [f \in Flows |-> Idle]
    /\ inscriptionOperationInFlight' = FALSE
    /\ IF withBrowser THEN unlocked' = FALSE /\ preparedAsset' = None
                      ELSE UNCHANGED <<unlocked, preparedAsset>>
    /\ UNCHANGED <<pendingInscription, network>>

(***************************************************************************)
(* Specification                                                           *)
(***************************************************************************)

Working(f) ==
    \/ Answer(f) \/ Enter(f)
    \/ \E c \in Commits : ReviewCommit(f, c)
    \/ ApproveCommit(f) \/ PostCommit(f) \/ SaveCommit(f) \/ DropPrepared(f)
    \/ EnterResume(f) \/ ReviewReveal(f) \/ ApproveReveal(f) \/ SignReveal(f)
    \/ PostReveal(f) \/ RemovePending(f)
    \/ Fail(f)

Asking ==
    \/ \E c \in Commits : Prepare(c)
    \/ \E f \in Flows : \/ \E path \in {"direct", "prepared"} : StartTransfer(f, path)
                        \/ ReadPending(f)

Session == Lock \/ Unlock \/ \E withBrowser \in BOOLEAN : Stop(withBrowser)

Next == (\E f \in Flows : Working(f)) \/ Asking \/ Session

\* Every call an operation awaits is answered, fails or runs into its limit:
\* an approval after ten minutes, a poll after forty attempts.
Fairness == \A f \in Flows : WF_vars(Working(f))

Spec == Init /\ [][Next]_vars /\ Fairness

(***************************************************************************)
(* Properties                                                              *)
(***************************************************************************)

\* The variables have their types; what is saved is a commit on the chain, as
\* its state "commit-accepted" (index.ts:4691) says.
TypeOK ==
    /\ inscriptionOperationInFlight \in BOOLEAN
    /\ pendingInscription \in committed \cup {None}
    /\ preparedAsset \in Commits \cup {None}
    /\ unlocked \in BOOLEAN
    /\ flow \in [Flows -> [pc : Steps, path : {"none", "direct", "prepared", "recovery"},
                           commit : Commits \cup {None}, read : Commits \cup {None},
                           bound : BOOLEAN, valid : BOOLEAN]]
    /\ committed \subseteq Commits /\ revealed \subseteq Commits

\* docs/release-extension-v0.5.6.md:7 "Resume the existing commit without
\* creating another commit or discarding recovery data": the slot gives up a
\* commit only once its reveal has been accepted.
SavedCommitStays ==
    [][pendingInscription # None /\ pendingInscription \notin revealed
         => pendingInscription' = pendingInscription]_vars

\* docs/release-extension-v0.5.6.md:12 "Reject signing if the wallet is locked
\* ... during recovery": the review of a reveal is opened minutes after the recovery
\* captured its session and answered minutes later still, and one that is opened
\* while the wallet is locked survives the next unlock (index.ts:2627).  A recovery
\* signs only what was put before the user in the session that signs.
RecoverySignsWhatItsSessionReviewed ==
    [][\A f \in Flows :
          flow[f].path = "recovery" /\ flow[f].pc = "approved" /\ flow'[f].pc = "revealing"
            => flow[f].bound]_vars

\* The flag is never left behind by an operation that ended, however it ended:
\* otherwise "Another inscription transfer is already in progress" (index.ts:285)
\* would refuse every transfer until the worker is stopped.
FlagIsReleased == inscriptionOperationInFlight ~> ~inscriptionOperationInFlight

\* README.md:453 "Kaspire saves recoverable pending state": the saved commit can
\* still be revealed, or the operation that revealed it is about to drop it.
SavedIsRecoverable ==
    pendingInscription \in revealed =>
        \E f \in Flows : At(f, "revealed") /\ flow[f].commit = pendingInscription

=============================================================================
