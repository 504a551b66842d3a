-------------------------- MODULE InscriptionProofs --------------------------
(***************************************************************************)
(* Proofs about InscriptionTransfer, for every number of sites, views and   *)
(* commits: its types, what a recovery signs, and that a saved commit is    *)
(* not lost as long as transfers do not overlap.                            *)
(***************************************************************************)
EXTENDS InscriptionTransfer, TLAPS

Operation == [pc : Steps, path : {"none", "direct", "prepared", "recovery"},
              commit : Commits \cup {None}, read : Commits \cup {None},
              bound : BOOLEAN, valid : BOOLEAN]

(***************************************************************************)
(* The inductive invariant                                                 *)
(***************************************************************************)

Committing == {"answered", "preparing", "commit?", "committing", "committed"}
Recovering == {"saved", "read", "waiting", "reveal?", "approved", "revealing"}

\* An operation that holds a commit built it, or found it on the chain.
CommitsAreKnown ==
    \A f \in Flows :
        /\ flow[f].pc \in {"commit?", "committing"} => flow[f].commit \in Commits
        /\ flow[f].pc \in Recovering \cup {"committed", "revealed"} => flow[f].commit \in committed

TypeInv == TypeOK /\ CommitsAreKnown

\* Before its commit is saved an operation is a transfer, and there is one.
OneTransfer ==
    /\ \A f, g \in Flows : Transferring(f) /\ Transferring(g) => f = g
    /\ \A f \in Flows : flow[f].pc \in Committing \cup {"asking"} => Transferring(f)

\* A transfer that was let in found the slot empty, and it is empty still.
SlotIsFree ==
    \A f \in Flows :
        flow[f].pc \in Committing /\ (At(f, "answered") => flow[f].read = None)
            => pendingInscription = None

\* Whoever could still reveal a commit works on the saved one.
SlotIsShared ==
    \A f \in Flows :
        flow[f].pc \in Recovering /\ flow[f].commit \notin revealed
            => pendingInscription = flow[f].commit

\* One operation is about to empty the slot, and of the commit it revealed.
SlotIsDone ==
    /\ \A f \in Flows :
          At(f, "revealed") => pendingInscription = flow[f].commit /\ flow[f].commit \in revealed
    /\ \A f, g \in Flows : At(f, "revealed") /\ At(g, "revealed") => f = g

IInv == TypeInv /\ OneTransfer /\ SlotIsFree /\ SlotIsShared /\ SlotIsDone

(***************************************************************************)
(* Types                                                                   *)
(***************************************************************************)

\* What a failure, the session or the worker does to the operations: they end or
\* keep everything but the validity of their session.
Ending ==
    \A f \in Flows :
        \/ flow'[f] = Idle
        \/ /\ flow'[f].pc = flow[f].pc /\ flow'[f].path = flow[f].path
           /\ flow'[f].commit = flow[f].commit /\ flow'[f].read = flow[f].read

LEMMA IdleIsOperation == Idle \in Operation
BY DEF Idle, Operation, Steps

\* Leaving and a new generation of the session end operations.
LEMMA LeaveEnds ==
    ASSUME flow \in [Flows -> Operation], inscriptionOperationInFlight \in BOOLEAN,
           NEW F, LeaveAll(F) \/ NewGeneration(F)
    PROVE  /\ flow' \in [Flows -> Operation] /\ inscriptionOperationInFlight' \in BOOLEAN
           /\ Ending
           /\ \A f \in F \cap Flows : flow'[f] = Idle
<1>1. ASSUME NEW f \in Flows
      PROVE  [flow[f] EXCEPT !.valid = FALSE, !.bound = FALSE] \in Operation
  BY <1>1 DEF Operation
<1>2. CASE LeaveAll(F)
  BY <1>2, IdleIsOperation DEF LeaveAll, Ending
<1>3. CASE NewGeneration(F)
  <2>1. flow' \in [Flows -> Operation]
    BY <1>1, <1>3, IdleIsOperation DEF NewGeneration
  <2>2. Ending /\ \A f \in F \cap Flows : flow'[f] = Idle
    BY <1>3 DEF NewGeneration, Ending, Operation
  <2>3. QED
    BY <1>3, <2>1, <2>2 DEF NewGeneration
<1>4. QED
  BY <1>2, <1>3

\* Next, action by action.
LEMMA Actions ==
    ASSUME [Next]_vars
    PROVE  \/ UNCHANGED vars \/ Lock \/ Unlock
           \/ \E withBrowser \in BOOLEAN : Stop(withBrowser)
           \/ \E c \in Commits : Prepare(c)
           \/ \E f \in Flows :
                 \/ \E path \in {"direct", "prepared"} : StartTransfer(f, path)
                 \/ \E c \in Commits : ReviewCommit(f, c)
                 \/ Answer(f) \/ Enter(f) \/ ApproveCommit(f) \/ PostCommit(f) \/ SaveCommit(f)
                 \/ DropPrepared(f) \/ ReadPending(f) \/ EnterResume(f) \/ ReviewReveal(f)
                 \/ ApproveReveal(f) \/ SignReveal(f) \/ PostReveal(f) \/ RemovePending(f)
                 \/ Fail(f)
BY DEF Next, Working, Asking, Session

\* The operation of f goes on to a step, with a path, a commit and what it read; the
\* others stay where they are.
Goes(f, pc, path, commit, read) ==
    /\ flow' \in [Flows -> Operation]
    /\ \A g \in Flows : g # f => flow'[g] = flow[g]
    /\ flow'[f].pc = pc /\ flow'[f].path = path
    /\ flow'[f].commit = commit /\ flow'[f].read = read

\* Where each action takes its operation.
LEMMA Moves ==
    ASSUME TypeInv, NEW f \in Flows
    PROVE  LET r == flow[f] IN
           /\ \A path \in {"direct", "prepared"} :
                  StartTransfer(f, path) => Goes(f, "asking", path, r.commit, r.read)
           /\ Answer(f) => Goes(f, "answered", r.path, r.commit, pendingInscription)
           /\ Enter(f) => Goes(f, "preparing", r.path, r.commit, r.read)
           /\ \A c \in Commits : ReviewCommit(f, c) => Goes(f, "commit?", r.path, c, r.read)
           /\ ApproveCommit(f) => Goes(f, "committing", r.path, r.commit, r.read)
           /\ GoTo(f, "committed") => Goes(f, "committed", r.path, r.commit, r.read)
           /\ SaveCommit(f) => Goes(f, IF r.path = "prepared" THEN "saved" ELSE "waiting",
                                    r.path, r.commit, r.read)
           /\ DropPrepared(f) => Goes(f, "waiting", "recovery", r.commit, r.read)
           /\ ReadPending(f) => Goes(f, "read", r.path, pendingInscription, r.read)
           /\ EnterResume(f) => Goes(f, "waiting", "recovery", r.commit, r.read)
           /\ ReviewReveal(f) => Goes(f, "reveal?", r.path, r.commit, r.read)
           /\ ApproveReveal(f) => Goes(f, "approved", r.path, r.commit, r.read)
           /\ SignReveal(f) => Goes(f, "revealing", r.path, r.commit, r.read)
           /\ GoTo(f, "revealed") => Goes(f, "revealed", r.path, r.commit, r.read)
<1> DEFINE r == flow[f]
<1>0. /\ flow \in [Flows -> Operation] /\ pendingInscription \in Commits \cup {None}
      /\ unlocked \in BOOLEAN
  BY DEF TypeInv, TypeOK, Operation
<1> USE <1>0 DEF Goes, Operation, Steps
<1>1. ASSUME NEW path \in {"direct", "prepared"}, StartTransfer(f, path)
      PROVE  Goes(f, "asking", path, r.commit, r.read)
  BY <1>1 DEF StartTransfer
<1>2. ASSUME Answer(f)
      PROVE  Goes(f, "answered", r.path, r.commit, pendingInscription)
  BY <1>2 DEF Answer
<1>3. ASSUME NEW pc \in Steps, GoTo(f, pc)
      PROVE  Goes(f, pc, r.path, r.commit, r.read)
  BY <1>3 DEF GoTo
<1>4. ASSUME NEW c \in Commits, ReviewCommit(f, c)
      PROVE  Goes(f, "commit?", r.path, c, r.read)
  <2>1. [r EXCEPT !.pc = "commit?", !.commit = c, !.bound = unlocked] \in Operation
    OBVIOUS
  <2>2. flow' = [flow EXCEPT ![f] = [r EXCEPT !.pc = "commit?", !.commit = c, !.bound = unlocked]]
    BY <1>4 DEF ReviewCommit
  <2>3. QED
    BY <2>1, <2>2
<1>5. ASSUME DropPrepared(f) \/ EnterResume(f)
      PROVE  Goes(f, "waiting", "recovery", r.commit, r.read)
  BY <1>5 DEF DropPrepared, EnterResume
<1>6. ASSUME ReadPending(f)
      PROVE  Goes(f, "read", r.path, pendingInscription, r.read)
  BY <1>6 DEF ReadPending
<1>7. ASSUME ReviewReveal(f)
      PROVE  Goes(f, "reveal?", r.path, r.commit, r.read)
  <2>1. [r EXCEPT !.pc = "reveal?", !.bound = unlocked] \in Operation
    OBVIOUS
  <2>2. flow' = [flow EXCEPT ![f] = [r EXCEPT !.pc = "reveal?", !.bound = unlocked]]
    BY <1>7 DEF ReviewReveal
  <2>3. QED
    BY <2>1, <2>2
<1> HIDE DEF Goes, Operation
<1>8. QED
  BY <1>1, <1>2, <1>3, <1>4, <1>5, <1>6, <1>7
     DEF Enter, ApproveCommit, SaveCommit, ApproveReveal, SignReveal

LEMMA TypeStep ==
    ASSUME TypeInv, [Next]_vars
    PROVE  TypeInv'
<1> USE NoneIsNoCommit DEF stores, network, At
<1>0. /\ TypeOK /\ CommitsAreKnown /\ flow \in [Flows -> Operation]
      /\ Idle \in Operation /\ Idle.pc = "idle"
  BY IdleIsOperation DEF TypeInv, TypeOK, Operation, Idle
<1>1. ASSUME flow' \in [Flows -> Operation], Ending, committed \subseteq committed'
      PROVE  CommitsAreKnown'
  BY <1>0, <1>1 DEF CommitsAreKnown, Ending, Recovering
<1>2. CASE UNCHANGED vars \/ \E c \in Commits : Prepare(c)
  <2>1. TypeOK'
    BY <1>0, <1>2 DEF TypeOK, vars, Prepare
  <2>2. CommitsAreKnown'
    BY <1>0, <1>2 DEF CommitsAreKnown, vars, Prepare
  <2>3. QED
    BY <2>1, <2>2 DEF TypeInv
<1>3. ASSUME NEW f \in Flows, Leave(f), UNCHANGED <<preparedAsset, unlocked>>,
             committed \subseteq committed', committed' \subseteq Commits,
             revealed' \subseteq Commits, pendingInscription' \in {pendingInscription, None}
      PROVE  TypeInv'
  <2>1. flow' \in [Flows -> Operation] /\ inscriptionOperationInFlight' \in BOOLEAN /\ Ending
    BY <1>0, <1>3, LeaveEnds DEF TypeOK, Leave
  <2>2. QED
    BY <1>0, <1>1, <1>3, <2>1 DEF TypeInv, TypeOK, Operation
<1>4. CASE Lock \/ Unlock
  <2>1. \E F \in SUBSET Flows : NewGeneration(F)
    BY <1>4 DEF Lock, Unlock
  <2>2. flow' \in [Flows -> Operation] /\ inscriptionOperationInFlight' \in BOOLEAN /\ Ending
    BY <1>0, <2>1, LeaveEnds DEF TypeOK
  <2>3. QED
    BY <1>0, <1>1, <1>4, <2>2 DEF TypeInv, TypeOK, Operation, Lock, Unlock
<1>5. CASE \E withBrowser \in BOOLEAN : Stop(withBrowser)
  <2>1. flow' \in [Flows -> Operation] /\ inscriptionOperationInFlight' \in BOOLEAN /\ Ending
    BY <1>0, <1>5 DEF Stop, Ending
  <2>2. QED
    BY <1>0, <1>1, <1>5, <2>1 DEF TypeInv, TypeOK, Operation, Stop
<1>6. ASSUME NEW f \in Flows, NEW pc, NEW path, NEW commit, NEW read,
             Goes(f, pc, path, commit, read),
             committed \subseteq committed',
             pc \in {"commit?", "committing"} => commit \in Commits,
             pc \in Recovering \cup {"committed", "revealed"} => commit \in committed'
      PROVE  flow' \in [Flows -> Operation] /\ CommitsAreKnown'
  BY <1>0, <1>6 DEF CommitsAreKnown, Goes
<1>7. ASSUME NEW f \in Flows,
             \/ \E path \in {"direct", "prepared"} : StartTransfer(f, path)
             \/ Answer(f) \/ Enter(f) \/ (\E c \in Commits : ReviewCommit(f, c)) \/ ApproveCommit(f)
      PROVE  TypeInv'
  <2>1. /\ UNCHANGED <<stores, unlocked, network>>
        /\ inscriptionOperationInFlight' \in BOOLEAN
        /\ ApproveCommit(f) => flow[f].pc = "commit?"
    BY <1>0, <1>7 DEF StartTransfer, Answer, Enter, ReviewCommit, ApproveCommit, TypeOK
  <2>2. ApproveCommit(f) => flow[f].commit \in Commits
    BY <1>0, <2>1 DEF CommitsAreKnown
  <2>3. flow' \in [Flows -> Operation] /\ CommitsAreKnown'
    BY <1>6, <1>7, <2>1, <2>2, Moves DEF Recovering
  <2>4. QED
    BY <1>0, <2>1, <2>3 DEF TypeInv, TypeOK, Operation
<1>8. ASSUME NEW f \in Flows, PostCommit(f)
      PROVE  TypeInv'
  <2>1. /\ flow[f].commit \in Commits /\ committed' = committed \cup {flow[f].commit}
        /\ UNCHANGED <<stores, unlocked, revealed>>
    BY <1>0, <1>8 DEF PostCommit, CommitsAreKnown
  <2>2. CASE GoTo(f, "committed") /\ UNCHANGED inscriptionOperationInFlight
    <3>1. flow' \in [Flows -> Operation] /\ CommitsAreKnown'
      BY <1>6, <2>1, <2>2, Moves
    <3>2. QED
      BY <1>0, <2>1, <2>2, <3>1 DEF TypeInv, TypeOK, Operation
  <2>3. CASE Leave(f)
    BY <1>0, <1>3, <2>1, <2>3 DEF TypeOK
  <2>4. QED
    BY <1>8, <2>2, <2>3 DEF PostCommit
<1>9. ASSUME NEW f \in Flows,
             \/ SaveCommit(f) \/ DropPrepared(f) \/ ReadPending(f) \/ EnterResume(f)
             \/ ReviewReveal(f) \/ ApproveReveal(f) \/ SignReveal(f)
      PROVE  TypeInv'
  <2>1. /\ inscriptionOperationInFlight' \in BOOLEAN /\ UNCHANGED <<unlocked, network>>
        /\ preparedAsset' \in {preparedAsset, None}
        /\ SaveCommit(f) => flow[f].commit \in committed
        /\ ~ ReadPending(f) => flow[f].commit \in committed
        /\ ReadPending(f) => pendingInscription \in committed
        /\ pendingInscription' \in {pendingInscription, flow[f].commit}
        /\ ~ SaveCommit(f) => UNCHANGED pendingInscription
    BY <1>0, <1>9 DEF SaveCommit, DropPrepared, ReadPending, EnterResume, ReviewReveal, ApproveReveal,
                       SignReveal, TypeOK, CommitsAreKnown, Recovering
  <2>2. flow' \in [Flows -> Operation] /\ CommitsAreKnown'
    BY <1>6, <1>9, <2>1, Moves DEF Recovering
  <2>3. QED
    BY <1>0, <2>1, <2>2 DEF TypeInv, TypeOK, Operation
<1>10. ASSUME NEW f \in Flows, PostReveal(f)
       PROVE  TypeInv'
  <2>1. /\ flow[f].commit \in committed /\ revealed' = revealed \cup {flow[f].commit}
        /\ UNCHANGED <<stores, unlocked, committed>>
    BY <1>0, <1>10 DEF PostReveal, CommitsAreKnown, Recovering
  <2>2. CASE GoTo(f, "revealed") /\ UNCHANGED inscriptionOperationInFlight
    <3>1. flow' \in [Flows -> Operation] /\ CommitsAreKnown'
      BY <1>6, <2>1, <2>2, Moves
    <3>2. QED
      BY <1>0, <2>1, <2>2, <3>1 DEF TypeInv, TypeOK, Operation
  <2>3. CASE Leave(f)
    BY <1>0, <1>3, <2>1, <2>3 DEF TypeOK
  <2>4. QED
    BY <1>10, <2>2, <2>3 DEF PostReveal
<1>11. ASSUME NEW f \in Flows, RemovePending(f) \/ Fail(f)
       PROVE  TypeInv'
  BY <1>0, <1>3, <1>11 DEF TypeOK, RemovePending, Fail
<1>12. QED
  BY <1>2, <1>4, <1>5, <1>7, <1>8, <1>9, <1>10, <1>11, Actions

LEMMA TypeInit == Init => TypeInv
<1>1. Init => TypeOK
  BY IdleIsOperation DEF Init, TypeOK, Operation
<1>2. Init => CommitsAreKnown
  BY DEF Init, CommitsAreKnown, Idle, Recovering
<1>3. QED
  BY <1>1, <1>2 DEF TypeInv

\* Every variable keeps its type, whether transfers overlap or not; in particular
\* what is saved (index.ts:4691) is a commit that the network has accepted.
THEOREM TypeCorrect == Spec => []TypeOK
<1>1. TypeInv => TypeOK
  BY DEF TypeInv
<1>2. QED
  BY <1>1, TypeInit, TypeStep, PTL DEF Spec

(***************************************************************************)
(* What a recovery signs                                                   *)
(***************************************************************************)

Reviewing == {"reveal?", "approved"}

\* A review of a recovery whose session is current was opened in that session.
ReviewedNow ==
    \A f \in Flows : flow[f].pc \in Reviewing /\ flow[f].valid /\ unlocked => flow[f].bound

LEMMA ReviewedStep ==
    ASSUME TypeInv, ReviewedNow, [Next]_vars
    PROVE  ReviewedNow'
<1>0. flow \in [Flows -> Operation] /\ Idle.pc = "idle" /\ "idle" \notin Reviewing
  BY DEF TypeInv, TypeOK, Operation, Idle, Reviewing
<1>1. ASSUME UNCHANGED unlocked, \A f \in Flows : flow'[f] \in {flow[f], Idle}
      PROVE  ReviewedNow'
  BY <1>0, <1>1 DEF ReviewedNow
<1>2. ASSUME NEW f \in Flows, Leave(f), UNCHANGED unlocked
      PROVE  ReviewedNow'
  BY <1>1, <1>2 DEF Leave, LeaveAll
<1>3. CASE UNCHANGED vars \/ \E c \in Commits : Prepare(c)
  BY <1>1, <1>3 DEF vars, Prepare
<1>4. CASE Lock
  BY <1>4 DEF Lock, ReviewedNow
<1>5. CASE Unlock
  <2>1. \A f \in Flows : flow'[f] = Idle \/ ~ flow'[f].valid
    BY <1>0, <1>5 DEF Unlock, NewGeneration, Operation
  <2>2. QED
    BY <1>0, <2>1 DEF ReviewedNow
<1>6. CASE \E withBrowser \in BOOLEAN : Stop(withBrowser)
  BY <1>0, <1>6 DEF Stop, ReviewedNow
<1>7. ASSUME NEW f \in Flows, NEW pc, NEW path, NEW commit, NEW read,
             Goes(f, pc, path, commit, read), pc \notin Reviewing, UNCHANGED unlocked
      PROVE  ReviewedNow'
  BY <1>7 DEF ReviewedNow, Goes
<1>8. ASSUME NEW f \in Flows,
             \/ \E path \in {"direct", "prepared"} : StartTransfer(f, path)
             \/ \E c \in Commits : ReviewCommit(f, c)
             \/ Answer(f) \/ Enter(f) \/ ApproveCommit(f) \/ SaveCommit(f) \/ DropPrepared(f)
             \/ ReadPending(f) \/ EnterResume(f) \/ SignReveal(f)
      PROVE  ReviewedNow'
  <2>1. UNCHANGED unlocked
    BY <1>8 DEF StartTransfer, ReviewCommit, Answer, Enter, ApproveCommit, SaveCommit, DropPrepared,
                ReadPending, EnterResume, SignReveal
  <2>2. \E pc \in Steps \ Reviewing, path \in {"direct", "prepared", "recovery", flow[f].path},
           commit \in Commits \cup {flow[f].commit, pendingInscription},
           read \in {flow[f].read, pendingInscription} : Goes(f, pc, path, commit, read)
    BY <1>8, Moves DEF Steps, Reviewing
  <2>3. QED
    BY <1>7, <2>1, <2>2
<1>9. ASSUME NEW f \in Flows, PostCommit(f) \/ PostReveal(f)
      PROVE  ReviewedNow'
  <2>1. /\ UNCHANGED unlocked
        /\ Leave(f) \/ GoTo(f, "committed") \/ GoTo(f, "revealed")
    BY <1>9 DEF PostCommit, PostReveal
  <2>2. GoTo(f, "committed") => Goes(f, "committed", flow[f].path, flow[f].commit, flow[f].read)
    BY Moves
  <2>3. GoTo(f, "revealed") => Goes(f, "revealed", flow[f].path, flow[f].commit, flow[f].read)
    BY Moves
  <2>4. QED
    BY <1>2, <1>7, <2>1, <2>2, <2>3 DEF Reviewing
<1>10. ASSUME NEW f \in Flows, ReviewReveal(f)
       PROVE  ReviewedNow'
  <2>1. UNCHANGED unlocked /\ flow'[f].bound = unlocked
    BY <1>0, <1>10 DEF ReviewReveal, Operation
  <2>2. \A g \in Flows : g # f => flow'[g] = flow[g]
    BY <1>10, Moves DEF Goes
  <2>3. QED
    BY <2>1, <2>2 DEF ReviewedNow
<1>11. ASSUME NEW f \in Flows, ApproveReveal(f)
       PROVE  ReviewedNow'
  <2>1. /\ UNCHANGED unlocked /\ flow[f].pc \in Reviewing
        /\ flow'[f].bound = flow[f].bound /\ flow'[f].valid = flow[f].valid
    BY <1>0, <1>11 DEF ApproveReveal, GoTo, At, Operation, Reviewing
  <2>2. \A g \in Flows : g # f => flow'[g] = flow[g]
    BY <1>11, Moves DEF Goes
  <2>3. QED
    BY <2>1, <2>2 DEF ReviewedNow
<1>12. ASSUME NEW f \in Flows, RemovePending(f) \/ Fail(f)
       PROVE  ReviewedNow'
  BY <1>2, <1>12 DEF RemovePending, Fail
<1>13. QED
  BY <1>3, <1>4, <1>5, <1>6, <1>8, <1>9, <1>10, <1>11, <1>12, Actions

\* docs/release-extension-v0.5.6.md:12 "Reject signing if the wallet is locked ...
\* during recovery": a recovery signs only what was reviewed in the session that
\* signs, however many locks and unlocks lie between its capture of the session,
\* the review, the approval and the signature, and whatever the others do.
THEOREM RecoveriesSignWhatWasReviewed == Spec => RecoverySignsWhatItsSessionReviewed
<1>1. Init => ReviewedNow
  BY DEF Init, ReviewedNow, Idle, Reviewing
<1>2. ASSUME TypeInv, ReviewedNow, [Next]_vars, NEW f \in Flows,
             flow[f].path = "recovery", flow[f].pc = "approved", flow'[f].pc = "revealing"
      PROVE  flow[f].bound
  <2>0. flow \in [Flows -> Operation] /\ inscriptionOperationInFlight \in BOOLEAN
    BY <1>2 DEF TypeInv, TypeOK, Operation
  <2>1. flow'[f].pc # flow[f].pc /\ flow'[f] # Idle
    BY <1>2 DEF Idle
  <2>2. ~ Ending /\ ~ UNCHANGED flow
    BY <2>0, <2>1 DEF Ending
  <2>3. ASSUME NEW g \in Flows, GoTo(g, "committed") \/ GoTo(g, "revealed")
        PROVE  FALSE
    BY <1>2, <2>0, <2>1, <2>3, Moves DEF Goes
  <2>4. ASSUME NEW F, LeaveAll(F) \/ NewGeneration(F)
        PROVE  FALSE
    BY <2>0, <2>2, <2>4, LeaveEnds
  <2>5. PICK g \in Flows :
           \/ \E path \in {"direct", "prepared"} : StartTransfer(g, path)
           \/ \E c \in Commits : ReviewCommit(g, c)
           \/ Answer(g) \/ Enter(g) \/ ApproveCommit(g) \/ SaveCommit(g)
           \/ DropPrepared(g) \/ ReadPending(g) \/ EnterResume(g) \/ ReviewReveal(g)
           \/ ApproveReveal(g) \/ SignReveal(g)
    BY <1>2, <2>2, <2>3, <2>4, Actions
       DEF vars, Lock, Unlock, Stop, Ending, Prepare, PostCommit, PostReveal, RemovePending, Fail, Leave
  <2>6. g = f
    BY <1>2, <2>0, <2>1, <2>5, Moves DEF Goes
  <2>7. SignReveal(f)
    BY <1>2, <2>5, <2>6, Moves DEF Goes
  <2>8. QED
    BY <1>2, <2>7 DEF SignReveal, ReviewedNow, Reviewing
<1>3. TypeInv /\ ReviewedNow /\ [Next]_vars => [\A f \in Flows :
          flow[f].path = "recovery" /\ flow[f].pc = "approved" /\ flow'[f].pc = "revealing"
            => flow[f].bound]_vars
  BY <1>2
<1>4. QED
  BY <1>1, <1>3, TypeInit, TypeStep, ReviewedStep, PTL DEF Spec, RecoverySignsWhatItsSessionReviewed

(***************************************************************************)
(* The saved commit                                                        *)
(***************************************************************************)

SlotInv == OneTransfer /\ SlotIsFree /\ SlotIsShared /\ SlotIsDone

\* An operation that ends takes nothing from the others.
LEMMA EndingKeepsSlot ==
    ASSUME TypeInv, SlotInv, Ending, UNCHANGED pendingInscription, revealed \subseteq revealed'
    PROVE  SlotInv'
<1> USE DEF At, Transferring, Idle, SlotInv
<1>1. OneTransfer'
  BY DEF OneTransfer, Ending, Committing
<1>2. SlotIsFree'
  BY DEF SlotIsFree, Ending, Committing
<1>3. SlotIsShared'
  BY DEF SlotIsShared, Ending, Recovering
<1>4. SlotIsDone'
  BY DEF SlotIsDone, Ending
<1>5. QED
  BY <1>1, <1>2, <1>3, <1>4

\* An operation that goes on leaves the slot consistent if it is so for itself.
LEMMA MoveKeepsSlot ==
    ASSUME SlotInv, UNCHANGED <<pendingInscription, revealed>>,
           NEW f \in Flows, NEW pc, NEW path, NEW commit, NEW read,
           Goes(f, pc, path, commit, read),
           path \in {"direct", "prepared"} => \A g \in Flows : Transferring(g) => g = f,
           pc \in Committing \cup {"asking"} => path \in {"direct", "prepared"},
           pc \in Committing /\ (pc = "answered" => read = None) => pendingInscription = None,
           pc \in Recovering /\ commit \notin revealed => pendingInscription = commit,
           pc # "revealed"
    PROVE  SlotInv'
<1> USE DEF At, Transferring, Goes, SlotInv
<1>1. OneTransfer'
  BY DEF OneTransfer
<1>2. SlotIsFree'
  BY DEF SlotIsFree
<1>3. SlotIsShared'
  BY DEF SlotIsShared
<1>4. SlotIsDone'
  BY DEF SlotIsDone
<1>5. QED
  BY <1>1, <1>2, <1>3, <1>4

LEMMA SlotStep ==
    ASSUME ~ Overlap, TypeInv, SlotInv, [Next]_vars
    PROVE  SlotInv'
<1> USE DEF stores, network, At
<1>0. /\ OneTransfer /\ SlotIsFree /\ SlotIsShared /\ SlotIsDone /\ CommitsAreKnown
      /\ flow \in [Flows -> Operation] /\ inscriptionOperationInFlight \in BOOLEAN
      /\ committed \subseteq Commits /\ None \notin committed
  BY NoneIsNoCommit DEF SlotInv, TypeInv, TypeOK, Operation
<1>1. ASSUME NEW f \in Flows, Leave(f)
      PROVE  Ending
  BY <1>0, <1>1, LeaveEnds DEF Leave
<1>2. CASE UNCHANGED vars \/ (\E c \in Commits : Prepare(c)) \/ Lock \/ Unlock
           \/ (\E withBrowser \in BOOLEAN : Stop(withBrowser))
  <2>1. UNCHANGED <<pendingInscription, revealed>>
    BY <1>2 DEF vars, Prepare, Lock, Unlock, Stop
  <2>2. Ending
    <3>1. CASE UNCHANGED flow
      BY <3>1 DEF Ending
    <3>2. CASE \E F \in SUBSET Flows : NewGeneration(F)
      BY <1>0, <3>2, LeaveEnds
    <3>3. CASE flow' = [f \in Flows |-> Idle]
      BY <3>3 DEF Ending
    <3>4. QED
      BY <1>2, <3>1, <3>2, <3>3 DEF vars, Prepare, Lock, Unlock, Stop
  <2>3. QED
    BY <2>1, <2>2, EndingKeepsSlot
<1>3. ASSUME NEW f \in Flows, NEW path \in {"direct", "prepared"}, StartTransfer(f, path)
      PROVE  SlotInv'
  <2>1. /\ \A g \in Flows : ~ Transferring(g)
        /\ UNCHANGED <<pendingInscription, revealed>>
        /\ Goes(f, "asking", path, flow[f].commit, flow[f].read)
    BY <1>3, Moves DEF StartTransfer
  <2>2. QED
    BY <2>1, MoveKeepsSlot DEF Committing, Recovering
<1>4. ASSUME NEW f \in Flows, Transferring(f)
      PROVE  \A g \in Flows : Transferring(g) => g = f
  BY <1>0, <1>4 DEF OneTransfer
<1>5. ASSUME NEW f \in Flows, Answer(f)
      PROVE  SlotInv'
  <2>1. /\ Transferring(f) /\ UNCHANGED <<pendingInscription, revealed>>
        /\ Goes(f, "answered", flow[f].path, flow[f].commit, pendingInscription)
    BY <1>0, <1>5, Moves DEF Answer, OneTransfer
  <2>2. QED
    BY <1>4, <2>1, MoveKeepsSlot DEF Committing, Recovering, Transferring
<1>6. ASSUME NEW f \in Flows,
             Enter(f) \/ (\E c \in Commits : ReviewCommit(f, c)) \/ ApproveCommit(f)
      PROVE  SlotInv'
  <2>1. /\ flow[f].pc \in Committing /\ UNCHANGED <<pendingInscription, revealed>>
        /\ flow[f].pc = "answered" => flow[f].read = None
    BY <1>6 DEF Enter, ReviewCommit, ApproveCommit, Committing
  <2>2. Transferring(f) /\ pendingInscription = None
    BY <1>0, <2>1 DEF OneTransfer, SlotIsFree
  <2>3. \E pc \in {"preparing", "commit?", "committing"}, commit \in Commits \cup {flow[f].commit} :
           Goes(f, pc, flow[f].path, commit, flow[f].read)
    BY <1>6, Moves
  <2>4. QED
    BY <1>4, <2>1, <2>2, <2>3, MoveKeepsSlot DEF Committing, Recovering, Transferring
<1>7. ASSUME NEW f \in Flows, PostCommit(f)
      PROVE  SlotInv'
  <2>1. UNCHANGED <<pendingInscription, revealed>> /\ flow[f].pc = "committing"
    BY <1>7 DEF PostCommit
  <2>2. CASE GoTo(f, "committed")
    <3>1. Transferring(f) /\ pendingInscription = None
      BY <1>0, <2>1 DEF OneTransfer, SlotIsFree, Committing
    <3>2. Goes(f, "committed", flow[f].path, flow[f].commit, flow[f].read)
      BY <2>2, Moves
    <3>3. QED
      BY <1>4, <2>1, <3>1, <3>2, MoveKeepsSlot DEF Committing, Recovering, Transferring
  <2>3. CASE Leave(f)
    BY <1>1, <2>1, <2>3, EndingKeepsSlot
  <2>4. QED
    BY <1>7, <2>2, <2>3 DEF PostCommit
<1>8. ASSUME NEW f \in Flows, SaveCommit(f)
      PROVE  SlotInv'
  <2>1. /\ flow[f].pc = "committed" /\ pendingInscription' = flow[f].commit
        /\ flow[f].commit \in committed /\ UNCHANGED <<committed, revealed>>
    BY <1>0, <1>8 DEF SaveCommit, CommitsAreKnown
  <2>2. Transferring(f) /\ pendingInscription = None
    BY <1>0, <2>1 DEF OneTransfer, SlotIsFree, Committing
  <2>3. PICK pc \in {"saved", "waiting"} :
           Goes(f, pc, flow[f].path, flow[f].commit, flow[f].read)
    BY <1>8, Moves
  <2>4. OneTransfer'
    BY <1>0, <2>2, <2>3 DEF OneTransfer, Transferring, Goes, Committing
  <2>5. SlotIsFree'
    <3>1. \A g \in Flows : g # f => flow[g].pc \notin Committing
      BY <1>0, <2>2 DEF OneTransfer
    <3>2. QED
      BY <2>3, <3>1 DEF SlotIsFree, Goes, Committing
  <2>6. SlotIsShared'
    <3>1. \A g \in Flows : flow[g].pc \in Recovering => flow[g].commit \in revealed
      BY <1>0, <2>2 DEF SlotIsShared, CommitsAreKnown
    <3>2. QED
      BY <2>1, <2>3, <3>1 DEF SlotIsShared, Goes
  <2>7. SlotIsDone'
    <3>1. \A g \in Flows : flow[g].pc # "revealed"
      BY <1>0, <2>2 DEF SlotIsDone, CommitsAreKnown
    <3>2. QED
      BY <2>3, <3>1 DEF SlotIsDone, Goes
  <2>8. QED
    BY <2>4, <2>5, <2>6, <2>7 DEF SlotInv
<1>9. ASSUME NEW f \in Flows,
             \/ DropPrepared(f) \/ ReadPending(f) \/ EnterResume(f)
             \/ ReviewReveal(f) \/ ApproveReveal(f) \/ SignReveal(f)
      PROVE  SlotInv'
  <2>1. UNCHANGED <<pendingInscription, revealed>>
    BY <1>9 DEF DropPrepared, ReadPending, EnterResume, ReviewReveal, ApproveReveal, SignReveal
  <2>2. PICK pc \in Recovering, path \in {flow[f].path, "recovery"} :
             \/ Goes(f, pc, path, pendingInscription, flow[f].read)
             \/ flow[f].pc \in Recovering /\ Goes(f, pc, path, flow[f].commit, flow[f].read)
    <3>1. CASE ReadPending(f)
      BY <3>1, Moves DEF Recovering
    <3>2. CASE ~ ReadPending(f)
      <4>1. flow[f].pc \in Recovering
        BY <1>9, <3>2 DEF DropPrepared, EnterResume, ReviewReveal, ApproveReveal, SignReveal, Recovering
      <4>2. QED
        BY <1>9, <3>2, <4>1, Moves DEF Recovering
    <3>3. QED
      BY <3>1, <3>2
  <2>3. path \in {"direct", "prepared"} => \A g \in Flows : Transferring(g) => g = f
    BY <1>4 DEF Transferring
  <2>4. pc \notin Committing \cup {"asking", "revealed"}
    BY DEF Committing, Recovering
  <2>5. flow[f].pc \in Recovering /\ flow[f].commit \notin revealed
           => pendingInscription = flow[f].commit
    BY <1>0 DEF SlotIsShared
  <2>6. QED
    BY <2>1, <2>2, <2>3, <2>4, <2>5, MoveKeepsSlot
<1>10. ASSUME NEW f \in Flows, PostReveal(f)
       PROVE  SlotInv'
  <2>1. /\ flow[f].pc = "revealing" /\ flow[f].commit \notin revealed
        /\ revealed' = revealed \cup {flow[f].commit} /\ UNCHANGED pendingInscription
    BY <1>10 DEF PostReveal
  <2>2. CASE GoTo(f, "revealed")
    <3>1. Goes(f, "revealed", flow[f].path, flow[f].commit, flow[f].read)
      BY <2>2, Moves
    <3>2. pendingInscription = flow[f].commit
      BY <1>0, <2>1 DEF SlotIsShared, Recovering
    <3>3. \A g \in Flows : flow[g].pc # "revealed"
      BY <1>0, <2>1, <3>2 DEF SlotIsDone
    <3>4. OneTransfer' /\ SlotIsFree'
      BY <1>0, <2>1, <3>1 DEF OneTransfer, SlotIsFree, Goes, Transferring, Committing
    <3>5. SlotIsShared' /\ SlotIsDone'
      BY <1>0, <2>1, <3>1, <3>2, <3>3 DEF SlotIsShared, SlotIsDone, Goes, Recovering
    <3>6. QED
      BY <3>4, <3>5 DEF SlotInv
  <2>3. CASE Leave(f)
    BY <1>1, <2>1, <2>3, EndingKeepsSlot
  <2>4. QED
    BY <1>10, <2>2, <2>3 DEF PostReveal
<1>11. ASSUME NEW f \in Flows, RemovePending(f)
       PROVE  SlotInv'
  <2>1. /\ flow[f].pc = "revealed" /\ pendingInscription' = None /\ UNCHANGED revealed
        /\ flow'[f] = Idle /\ Ending
    BY <1>0, <1>1, <1>11, LeaveEnds DEF RemovePending, Leave
  <2>2. pendingInscription = flow[f].commit /\ flow[f].commit \in revealed
    BY <1>0, <2>1 DEF SlotIsDone
  <2>3. \A g \in Flows : flow[g].pc \in Recovering => flow[g].commit \in revealed
    BY <1>0, <2>2 DEF SlotIsShared
  <2>4. \A g \in Flows : flow'[g].pc # "revealed"
    BY <1>0, <2>1 DEF SlotIsDone, Ending, Idle
  <2>5. OneTransfer'
    BY <1>0, <2>1 DEF OneTransfer, Ending, Idle, Transferring, Committing
  <2>6. SlotIsFree' /\ SlotIsDone'
    BY <2>1, <2>4 DEF SlotIsFree, SlotIsDone
  <2>7. SlotIsShared'
    BY <2>1, <2>3 DEF SlotIsShared, Ending, Idle, Recovering
  <2>8. QED
    BY <2>5, <2>6, <2>7 DEF SlotInv
<1>12. ASSUME NEW f \in Flows, Fail(f)
       PROVE  SlotInv'
  BY <1>1, <1>12, EndingKeepsSlot DEF Fail
<1>13. QED
  BY <1>2, <1>3, <1>5, <1>6, <1>7, <1>8, <1>9, <1>10, <1>11, <1>12, Actions

\* With transfers that do not overlap the invariant holds in every reachable state.
LEMMA Invariance ==
    ASSUME ~ Overlap
    PROVE  Spec => []IInv
<1>1. Init => SlotInv
  BY DEF Init, SlotInv, OneTransfer, SlotIsFree, SlotIsShared, SlotIsDone, At, Transferring, Idle,
         Committing, Recovering
<1>2. Init => IInv
  BY <1>1, TypeInit DEF IInv, SlotInv
<1>3. IInv /\ [Next]_vars => IInv'
  BY TypeStep, SlotStep DEF IInv, SlotInv
<1>4. QED
  BY <1>2, <1>3, PTL DEF Spec

\* docs/release-extension-v0.5.6.md:7 "Resume the existing commit without creating
\* another commit or discarding recovery data": as long as no transfer starts while
\* another one runs, the slot keeps a commit until its reveal is accepted, over
\* any number of failures, locks, restarts and competing recoveries.
THEOREM SavedCommitsStay ==
    ASSUME ~ Overlap
    PROVE  Spec => SavedCommitStays
<1>1. ASSUME IInv, [Next]_vars, pendingInscription # None, pendingInscription \notin revealed
      PROVE  pendingInscription' = pendingInscription
  <2>1. ASSUME NEW f \in Flows, SaveCommit(f)
        PROVE  FALSE
    BY <1>1, <2>1 DEF IInv, SlotIsFree, SaveCommit, At, Committing
  <2>2. ASSUME NEW f \in Flows, RemovePending(f)
        PROVE  FALSE
    BY <1>1, <2>2 DEF IInv, SlotIsDone, RemovePending, At
  <2>3. QED
    BY <1>1, <2>1, <2>2, Actions
       DEF vars, stores, Lock, Unlock, Stop, Prepare, StartTransfer, ReviewCommit, Answer, Enter,
           ApproveCommit, PostCommit, DropPrepared, ReadPending, EnterResume, ReviewReveal,
           ApproveReveal, SignReveal, PostReveal, Fail
<1>2. IInv /\ [Next]_vars => [pendingInscription # None /\ pendingInscription \notin revealed
                                => pendingInscription' = pendingInscription]_vars
  BY <1>1
<1>3. QED
  BY <1>2, Invariance, PTL DEF Spec, SavedCommitStays

==============================================================================
