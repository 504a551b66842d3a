-------------------------- MODULE P2shAccountProofs --------------------------
(***************************************************************************)
(* Proofs about P2shAccount, for every number of payments, outputs, reviews *)
(* and addresses and every discovery gap.                                   *)
(***************************************************************************)
EXTENDS P2shAccount, FiniteSetTheorems, WellFoundedInduction, TLAPS

(***************************************************************************)
(* Operators                                                               *)
(***************************************************************************)

\* A non-empty set of natural numbers has a least element, and Least is one.
LEMMA LeastProperties ==
    ASSUME NEW S \in SUBSET Nat, S # {}
    PROVE  Least(S) \in S /\ \A m \in S : Least(S) <= m
<1> DEFINE Below(n) == 0 .. (n - 1)
           T == {Below(n) : n \in S}
<1>1. T \subseteq FiniteSubsetsOf(Nat) /\ T # {}
  <2>1. ASSUME NEW n \in S
        PROVE  Below(n) \subseteq Nat /\ IsFiniteSet(Below(n))
    <3>1. 0 \in Int /\ n - 1 \in Int
      OBVIOUS
    <3>2. IsFiniteSet(Below(n))
      BY <3>1, FS_Interval
    <3>3. QED
      BY <3>2
  <2>2. QED
    BY <2>1 DEF FiniteSubsetsOf
<1>2. PICK t \in T : \A u \in T : ~ (<<u, t>> \in StrictSubsetOrdering(Nat))
  BY <1>1, FS_StrictSubsetOrderingWellFounded, WFMin
<1>3. PICK n \in S : t = Below(n)
  BY <1>2
<1>4. ASSUME NEW m \in S, m < n
      PROVE  FALSE
  <2>1. Below(m) \subseteq Below(n) /\ Below(n) \subseteq Nat
    BY <1>4
  <2>2. m \in Below(n) /\ m \notin Below(m)
    BY <1>4
  <2>3. <<Below(m), Below(n)>> \in StrictSubsetOrdering(Nat)
    BY <2>1, <2>2 DEF StrictSubsetOrdering
  <2>4. QED
    BY <1>2, <1>3, <2>3
<1>5. \A m \in S : n <= m
  BY <1>4
<1>6. QED
  BY <1>5 DEF Least

\* observe (p2sh.ts:101): a raised count stays in range, never falls, and
\* covers every key seen in use.
LEMMA RaisedProperties ==
    ASSUME NEW n \in 0 .. MaxIndex, NEW b \in Branch, NEW used \in SUBSET Key
    PROVE  /\ Raised(n, b, used) \in n .. MaxIndex
           /\ \A k \in used : k[1] = b => k[2] < Raised(n, b, used)
<1> DEFINE S == {m \in n .. MaxIndex : \A k \in used : k[1] = b => k[2] < m}
<1>1. MaxIndex \in S
  BY BoundsAreNatural DEF Key, Branch
<1>2. S \in SUBSET Nat
  BY BoundsAreNatural
<1>3. Least(S) \in S
  BY <1>1, <1>2, LeastProperties
<1>4. QED
  BY <1>3 DEF Raised

\* Observing keys yields a journal with the same saved payment.
LEMMA ObserveProperties ==
    ASSUME NEW j \in Journal, NEW used \in SUBSET Key
    PROVE  /\ Observe(j, used) \in Journal
           /\ Observe(j, used).exposed = j.exposed \cup used
           /\ Observe(j, used).pending = j.pending
           /\ \A b \in Branch : j.count[b] <= Observe(j, used).count[b]
           /\ \A k \in used : k[2] < Observe(j, used).count[k[1]]
           /\ \A k \in Key : k[2] < j.count[k[1]] => k[2] < Observe(j, used).count[k[1]]
<1>1. \A b \in Branch : /\ j.count[b] \in 0 .. MaxIndex
                        /\ Raised(j.count[b], b, used) \in j.count[b] .. MaxIndex
  BY RaisedProperties DEF Journal
<1>2. \A b \in Branch : /\ Raised(j.count[b], b, used) \in 0 .. MaxIndex
                        /\ j.count[b] <= Raised(j.count[b], b, used)
  BY <1>1, BoundsAreNatural
<1>3. /\ Observe(j, used) \in Journal
      /\ Observe(j, used).exposed = j.exposed \cup used
      /\ Observe(j, used).pending = j.pending
      /\ \A b \in Branch : Observe(j, used).count[b] = Raised(j.count[b], b, used)
  BY <1>2 DEF Observe, Journal
<1>4. \A k \in Key : k[1] \in Branch /\ k[2] \in Int
  BY BoundsAreNatural DEF Key
<1>5. \A b \in Branch : \A k \in used : k[1] = b => k[2] < Observe(j, used).count[b]
  BY <1>1, <1>3, RaisedProperties
<1>6. \A b \in Branch : j.count[b] \in Int /\ Observe(j, used).count[b] \in Int
  BY <1>1, <1>2, <1>3, BoundsAreNatural
<1>7. \A k \in Key : k[2] < j.count[k[1]] => k[2] < Observe(j, used).count[k[1]]
  BY <1>2, <1>3, <1>4, <1>6
<1>8. QED
  BY <1>2, <1>3, <1>4, <1>5, <1>7

\* issue (p2sh.ts:121) advances one count by one within the address limit.
LEMMA IssueProperties ==
    ASSUME NEW j \in Journal, NEW b \in Branch, GapOpen(j, b)
    PROVE  /\ Issue(j, b) \in Journal
           /\ Issue(j, b).exposed = j.exposed
           /\ Issue(j, b).pending = j.pending
           /\ Issue(j, b).count[b] = j.count[b] + 1
           /\ \A k \in Key : k[2] < j.count[k[1]] => k[2] < Issue(j, b).count[k[1]]
<1>1. j.count[b] + 1 \in 0 .. MaxIndex
  BY BoundsAreNatural DEF GapOpen, Journal
<1>2. /\ Issue(j, b) \in Journal
      /\ Issue(j, b).exposed = j.exposed
      /\ Issue(j, b).pending = j.pending
      /\ Issue(j, b).count = [j.count EXCEPT ![b] = @ + 1]
  BY <1>1 DEF Issue, Journal
<1>3. ASSUME NEW k \in Key, k[2] < j.count[k[1]]
      PROVE  k[2] < Issue(j, b).count[k[1]]
  <2>1. k[1] \in Branch /\ k[2] \in Int /\ j.count[k[1]] \in Int
    BY BoundsAreNatural DEF Key, Journal
  <2>2. Issue(j, b).count[k[1]] \in {j.count[k[1]], j.count[k[1]] + 1}
    BY <1>2, <2>1 DEF Journal
  <2>3. QED
    BY <1>3, <2>1, <2>2
<1>4. QED
  BY <1>2, <1>3 DEF Journal

LEMMA ClearedProperties ==
    ASSUME NEW j \in Journal
    PROVE  /\ Cleared(j) \in Journal
           /\ Cleared(j).exposed = j.exposed
           /\ Cleared(j).pending = None
           /\ Cleared(j).count = j.count
BY DEF Cleared, Journal

LEMMA ExposedAreKeys ==
    ASSUME NEW j \in Journal
    PROVE  j.exposed \in SUBSET Key
BY DEF Journal

\* The keys of a set of outputs are keys of the account.
LEMMA SignersType ==
    ASSUME NEW u \in SUBSET Coin
    PROVE  Signers(u) \in SUBSET Key
BY DEF Signers, Coin

\* A command that ends, waits for its save or goes on is still a command.
LEMMA EndedType ==
    ASSUME op \in OpType
    PROVE  /\ Idle \in OpType /\ Orphan \in OpType
           /\ Idle.pc = "idle" /\ Orphan.pc \in {"idle", "doomed"}
BY DEF OpType, Idle, Orphan, Doomed

LEMMA InterruptedType ==
    ASSUME op \in OpType
    PROVE  /\ Interrupted \in OpType
           /\ \/ Interrupted.pc \in {"idle", "doomed"}
              \/ /\ op.pc \in {"save", "stored"} /\ Interrupted.pc = op.pc
                 /\ Interrupted.then = op.then /\ Interrupted.change = op.change
                 /\ Interrupted.pay = op.pay /\ Interrupted.prev = op.prev
                 /\ Interrupted.found = op.found
<1>1. CASE op.pc \in {"save", "stored"}
  BY <1>1 DEF Interrupted, OpType
<1>2. CASE op.pc \notin {"save", "stored"}
  BY <1>2, EndedType DEF Interrupted
<1>3. QED
  BY <1>1, <1>2

LEMMA StartSaveType ==
    ASSUME op \in OpType, mem \in Journal, NEW j,
           NEW then \in {"observed", "issued", "reserved", "retired", "pended", "cleared"},
           StartSave(j, then)
    PROVE  /\ mem' = j
           /\ op' \in OpType
           /\ op'.pc = "save" /\ op'.then = then
           /\ op'.change = op.change /\ op'.pay = op.pay /\ op'.found = op.found
           /\ op'.prev = mem.pending
<1>1. mem.pending \in Payment \cup {None}
  BY DEF Journal
<1>2. QED
  BY <1>1 DEF StartSave, OpType

LEMMA ContinueType ==
    ASSUME op \in OpType, NEW pc \in {"scanned", "build", "sign", "post"}, Continue(pc)
    PROVE  /\ op' \in OpType
           /\ op'.pc = pc /\ op'.then = "none" /\ op'.prev = None
           /\ op'.change = op.change /\ op'.pay = op.pay /\ op'.found = op.found
BY DEF Continue, OpType

LEMMA ScannedType ==
    ASSUME op \in OpType, mem \in Journal, NEW seen \in SUBSET Coin
    PROVE  LET wait == [op EXCEPT !.pc = "save", !.then = "observed",
                                  !.prev = mem.pending, !.found = seen]
               next == [op EXCEPT !.pc = "scanned", !.found = seen]
           IN  /\ wait \in OpType /\ wait.pc = "save" /\ wait.then = "observed"
               /\ wait.prev = mem.pending
               /\ next \in OpType /\ next.pc = "scanned"
<1>1. mem.pending \in Payment \cup {None}
  BY DEF Journal
<1>2. QED
  BY <1>1 DEF OpType

(***************************************************************************)
(* Types                                                                   *)
(***************************************************************************)

\* Reading a journal and the in-flight command stays within their types.
LEMMA TypeStep ==
    ASSUME TypeInv, [Next]_vars
    PROVE  TypeInv'
<1> USE DEF TypeInv, TypeOK, Shape, SavingFor, At, Unlocked,
            sessionVars, chainVars, historyVars
<1>0. mem # None => mem \in Journal
  OBVIOUS
<1>1. ASSUME SaveDisk
      PROVE  TypeInv'
  BY <1>0, <1>1 DEF SaveDisk, OpType
<1>2. ASSUME SaveVolatile
      PROVE  TypeInv'
  <2>1. CASE op.then = "observed" /\ Continue("scanned") /\ UNCHANGED <<reviews, handed>>
    BY <1>2, <2>1, ContinueType DEF SaveVolatile
  <2>2. CASE op.then = "issued" /\ op' = Idle /\ UNCHANGED reviews
             /\ handed' = handed \cup {mem.count[Receive] - 1}
    <3>1. mem.count[Receive] - 1 \in 0 .. MaxIndex - 1
      BY <1>0, <1>2, <2>2, BoundsAreNatural DEF SaveVolatile, Journal, Branch
    <3>2. QED
      BY <1>2, <2>2, <3>1, EndedType DEF SaveVolatile
  <2>3. CASE op.then = "reserved" /\ Continue("build") /\ UNCHANGED <<reviews, handed>>
    BY <1>2, <2>3, ContinueType DEF SaveVolatile
  <2>4. CASE op.then = "retired" /\ Continue("sign") /\ UNCHANGED handed
             /\ reviews' = [reviews EXCEPT ![op.slot] = None]
    BY <1>2, <2>4, ContinueType DEF SaveVolatile
  <2>5. CASE op.then = "pended" /\ op' = [Idle EXCEPT !.pc = "resume"]
             /\ UNCHANGED <<reviews, handed>>
    BY <1>2, <2>5 DEF SaveVolatile, Idle, OpType
  <2>6. CASE op.then = "recommitted" /\ Continue("post") /\ UNCHANGED <<reviews, handed>>
    BY <1>2, <2>6, ContinueType DEF SaveVolatile
  <2>7. CASE op.then = "cleared" /\ op' = Idle /\ UNCHANGED <<reviews, handed>>
    BY <1>2, <2>7, EndedType DEF SaveVolatile
  <2>8. QED
    BY <1>2, <2>1, <2>2, <2>3, <2>4, <2>5, <2>6, <2>7 DEF SaveVolatile
<1>3. ASSUME SaveFails
      PROVE  TypeInv'
  <2>1. [mem EXCEPT !.pending = op.prev] \in Journal
    BY <1>0, <1>3 DEF SaveFails, Journal, OpType
  <2>2. QED
    BY <1>3, <2>1, EndedType DEF SaveFails
<1>4. ASSUME Retire
      PROVE  TypeInv'
  <2> DEFINE keys == Signers(op.found) \cup {<<Change, op.change>>}
  <2>1. op.change \in 0 .. MaxIndex - 1 /\ op.found \in SUBSET Coin
    BY <1>4 DEF Retire, OpType
  <2>2. keys \in SUBSET Key
    BY <2>1, SignersType DEF Key, Branch
  <2>3. mem \in Journal /\ Observe(mem, keys) \in Journal
    BY <1>0, <1>4, <2>2, ObserveProperties DEF Retire
  <2>4. /\ mem' = Observe(mem, keys)
        /\ op' \in OpType /\ op'.pc = "save" /\ op'.then = "retired" /\ op'.change = op.change
    BY <1>4, <2>3, StartSaveType DEF Retire
  <2>5. QED
    BY <1>4, <2>1, <2>3, <2>4, NoneIsNothing DEF Retire
<1>5. ASSUME SavePending
      PROVE  TypeInv'
  <2>1. mem \in Journal /\ [mem EXCEPT !.pending = op.pay] \in Journal
    BY <1>0, <1>5 DEF SavePending, Journal, OpType
  <2>2. /\ mem' = [mem EXCEPT !.pending = op.pay]
        /\ op' \in OpType /\ op'.pc = "save" /\ op'.then = "pended"
    BY <1>5, <2>1, StartSaveType DEF SavePending
  <2>3. QED
    BY <1>5, <2>1, <2>2, NoneIsNothing DEF SavePending
<1>6. ASSUME NEW id \in PaymentIds, Sign(id)
      PROVE  TypeInv'
  <2> DEFINE p == [id |-> id, utxos |-> op.found, change |-> op.change]
  <2>1. p \in Payment
    BY <1>6 DEF Sign, Payment, OpType
  <2>2. op' \in OpType /\ op'.pc = "signed"
    BY <1>6, <2>1 DEF Sign, OpType, Idle
  <2>3. QED
    BY <1>6, <2>1, <2>2 DEF Sign
<1>7. ASSUME ResumeNothing
      PROVE  TypeInv'
  BY <1>7, EndedType DEF ResumeNothing
<1>8. ASSUME Confirm
      PROVE  TypeInv'
  <2>1. mem \in Journal /\ Cleared(mem) \in Journal
    BY <1>0, <1>8, ClearedProperties DEF Confirm
  <2>2. mem' = Cleared(mem) /\ op' \in OpType /\ op'.pc = "save" /\ op'.then = "cleared"
    BY <1>8, <2>1, StartSaveType DEF Confirm
  <2>3. QED
    BY <1>8, <2>1, <2>2, NoneIsNothing DEF Confirm
<1>9. ASSUME Recommit
      PROVE  TypeInv'
  <2>1. mem.pending \in Payment
    BY <1>0, <1>9 DEF Recommit, Journal
  <2>2. op' \in OpType /\ op'.pc = "save" /\ op'.then = "recommitted" /\ op'.pay = mem.pending
    BY <1>9, <2>1 DEF Recommit, OpType
  <2>3. QED
    BY <1>9, <2>1, <2>2, NoneIsNothing DEF Recommit
<1>10. ASSUME Post
      PROVE  TypeInv'
  BY <1>10 DEF Post, OpType
<1>11. ASSUME StopPolling
      PROVE  TypeInv'
  BY <1>11, EndedType DEF StopPolling
<1>12. ASSUME Scan
      PROVE  TypeInv'
  <2> DEFINE next == Observe(mem, Found(mem))
             seen == IF op.cmd = "prepare"
                       THEN {c \in coins : c.at[2] < ScanEnd(mem, c.at[1])} ELSE {}
  <2>1. mem \in Journal /\ seen \in SUBSET Coin
    BY <1>0, <1>12 DEF Scan
  <2>2. Found(mem) \in SUBSET Key
    BY <2>1 DEF Found, Journal
  <2>3. next \in Journal
    BY <2>1, <2>2, ObserveProperties
  <2>4. CASE next = mem /\ op' = [op EXCEPT !.pc = "scanned", !.found = seen] /\ UNCHANGED mem
    <3>1. op' \in OpType /\ op'.pc = "scanned"
      BY <2>1, <2>4, ScannedType
    <3>2. QED
      BY <1>12, <2>4, <3>1 DEF Scan
  <2>5. CASE /\ next # mem
             /\ mem' = next
             /\ op' = [op EXCEPT !.pc = "save", !.then = "observed",
                                 !.prev = mem.pending, !.found = seen]
    <3>1. op' \in OpType /\ op'.pc = "save" /\ op'.then = "observed"
      BY <2>1, <2>5, ScannedType
    <3>2. QED
      BY <1>12, <2>3, <2>5, <3>1, NoneIsNothing DEF Scan
  <2>6. QED
    BY <1>12, <2>4, <2>5 DEF Scan
<1>13. ASSUME HandOut
      PROVE  TypeInv'
  BY <1>13, EndedType DEF HandOut, Available
<1>14. ASSUME IssueReceive
      PROVE  TypeInv'
  <2>1. mem \in Journal /\ Receive \in Branch /\ GapOpen(mem, Receive)
    BY <1>0, <1>14 DEF IssueReceive, Branch
  <2>2. Issue(mem, Receive) \in Journal /\ Issue(mem, Receive).count[Receive] > 0
    BY <2>1, IssueProperties DEF Journal
  <2>3. mem' = Issue(mem, Receive) /\ op' \in OpType /\ op'.pc = "save" /\ op'.then = "issued"
    BY <1>14, <2>1, StartSaveType DEF IssueReceive
  <2>4. QED
    BY <1>14, <2>2, <2>3, NoneIsNothing DEF IssueReceive
<1>15. ASSUME ReserveChange
      PROVE  TypeInv'
  <2>1. mem \in Journal /\ Change \in Branch
    BY <1>0, <1>15 DEF ReserveChange, Branch
  <2>2. CASE ChangeReserved(mem) /\ op' = [op EXCEPT !.pc = "build"] /\ UNCHANGED mem
    <3>1. op' \in OpType /\ op'.pc = "build"
      BY <2>2 DEF OpType
    <3>2. QED
      BY <1>15, <2>2, <3>1 DEF ReserveChange, ChangeReserved
  <2>3. CASE GapOpen(mem, Change) /\ StartSave(Issue(mem, Change), "reserved")
    <3>1. Issue(mem, Change) \in Journal /\ Issue(mem, Change).count[Change] > 0
      BY <2>1, <2>3, IssueProperties DEF Journal
    <3>2. mem' = Issue(mem, Change) /\ op' \in OpType /\ op'.pc = "save" /\ op'.then = "reserved"
      BY <2>1, <2>3, StartSaveType
    <3>3. QED
      BY <1>15, <3>1, <3>2, NoneIsNothing DEF ReserveChange
  <2>4. QED
    BY <1>15, <2>2, <2>3 DEF ReserveChange
<1>16. ASSUME NEW s \in ReviewSlots, KeepReview(s)
      PROVE  TypeInv'
  <2> DEFINE r == [utxos |-> op.found, change |-> mem.count[Change] - 1]
  <2>1. mem.count[Change] - 1 \in 0 .. MaxIndex - 1
    BY <1>0, <1>16, BoundsAreNatural DEF KeepReview, Journal, Branch
  <2>2. r \in Request
    BY <2>1 DEF OpType, Request
  <2>3. QED
    BY <1>16, <2>2, EndedType DEF KeepReview
<1>17. ASSUME Fail
      PROVE  TypeInv'
  BY <1>17, EndedType DEF Fail
<1>18. ASSUME Unwind
      PROVE  TypeInv'
  BY <1>18, EndedType DEF Unwind
<1>19. ASSUME OtherSeal
      PROVE  TypeInv'
  BY <1>19 DEF OtherSeal
<1>20. ASSUME OtherDisk
      PROVE  TypeInv'
  BY <1>20 DEF OtherDisk
<1>21. ASSUME OtherVolatile
      PROVE  TypeInv'
  BY <1>21 DEF OtherVolatile, Quiet
<1>22. ASSUME OtherFails
      PROVE  TypeInv'
  BY <1>22 DEF OtherFails, Quiet
<1>23. ASSUME NEW cmd \in ScanCommands, BeginScan(cmd)
      PROVE  TypeInv'
  <2>1. op' \in OpType /\ op'.pc = "scan"
    BY <1>23 DEF BeginScan, Idle, OpType
  <2>2. QED
    BY <1>23, <2>1 DEF BeginScan
<1>24. ASSUME BeginResume
      PROVE  TypeInv'
  <2>1. op' \in OpType /\ op'.pc = "resume"
    BY <1>24 DEF BeginResume, Idle, OpType
  <2>2. QED
    BY <1>24, <2>1 DEF BeginResume
<1>25. ASSUME NEW s \in ReviewSlots, BeginSubmit(s)
      PROVE  TypeInv'
  <2>1. /\ reviews[s].utxos \in SUBSET Coin
        /\ reviews[s].change \in 0 .. MaxIndex - 1 /\ reviews[s].change # None
    BY <1>25, NoneIsNothing DEF BeginSubmit, Request
  <2>2. op' \in OpType /\ op'.pc = "approve" /\ op'.change = reviews[s].change
    BY <1>25, <2>1 DEF BeginSubmit, Idle, OpType
  <2>3. QED
    BY <1>25, <2>1, <2>2 DEF BeginSubmit
<1>26. ASSUME NEW s \in ReviewSlots, ExpireReview(s)
      PROVE  TypeInv'
  BY <1>26 DEF ExpireReview
<1>27. ASSUME Lock
      PROVE  TypeInv'
  BY <1>27, EndedType DEF Lock, NoReviews, Quiet
<1>28. ASSUME ChangeContext
      PROVE  TypeInv'
  BY <1>28, InterruptedType DEF ChangeContext, NoReviews
<1>29. ASSUME CloseView
      PROVE  TypeInv'
  BY <1>29, InterruptedType DEF CloseView
<1>30. ASSUME NEW w \in BOOLEAN, Stop(w)
      PROVE  TypeInv'
  BY <1>30, EndedType DEF Stop, NoReviews, Quiet, NoLoads, NoLoad
<1>31. ASSUME NEW f \in Flows, Load(f)
      PROVE  TypeInv'
  BY <1>31 DEF Load
<1>32. ASSUME NEW f \in Flows, Install(f)
      PROVE  TypeInv'
  <2>1. loading[f].journal \in Journal \cup {None}
    OBVIOUS
  <2>2. QED
    BY <1>32, <2>1, EndedType DEF Install, NoReviews, NoLoad, Quiet
<1>33. ASSUME NEW f \in Flows, AbandonLoad(f)
      PROVE  TypeInv'
  BY <1>33 DEF AbandonLoad, NoLoad
<1>34. ASSUME NEW id \in CoinIds, NEW k \in Key, Deposit(id, k)
      PROVE  TypeInv'
  BY <1>34 DEF Deposit, Coin
<1>35. ASSUME NEW p \in submitted, NEW id \in CoinIds, Accept(p, id)
      PROVE  TypeInv'
  BY <1>35 DEF Accept, Coin, Key, Payment, Branch
<1>36. ASSUME UNCHANGED vars
      PROVE  TypeInv'
  BY <1>36 DEF vars
<1>37. QED
  BY <1>1, <1>2, <1>3, <1>4, <1>5, <1>6, <1>7, <1>8, <1>9, <1>10, <1>11, <1>12, <1>13, <1>14,
     <1>15, <1>16, <1>17, <1>18, <1>19, <1>20, <1>21, <1>22, <1>23, <1>24, <1>25, <1>26,
     <1>27, <1>28, <1>29, <1>30, <1>31, <1>32, <1>33, <1>34, <1>35, <1>36 DEF Next, Working,
     Saving, Paying, OtherWrite, Beginning, Session, Network

LEMMA TypeInit == Init => TypeInv
<1>1. EmptyJournal \in Journal
  BY BoundsAreNatural DEF EmptyJournal, Journal
<1>2. QED
  BY <1>1 DEF Init, TypeInv, TypeOK, Shape, SavingFor, Idle, OpType, Quiet, NoLoads, NoLoad,
              NoReviews

\* Every variable keeps its type, whatever is interrupted, stopped or lost: the
\* counts of every journal that is saved and restored stay within the limit
\* and its retired keys are keys (the bounds of p2sh.ts:41).
THEOREM TypeCorrect == Spec => []TypeOK
<1>1. Init => TypeInv
  BY TypeInit
<1>2. TypeInv /\ [Next]_vars => TypeInv'
  BY TypeStep
<1>3. TypeInv => TypeOK
  BY DEF TypeInv
<1>4. QED
  BY <1>1, <1>2, <1>3, PTL DEF Spec

(***************************************************************************)
(* What a step can do to the journals and to the history                   *)
(***************************************************************************)

\* Only these steps change the live journal.
LEMMA LiveChanges ==
    ASSUME [Next]_vars
    PROVE  \/ UNCHANGED mem
           \/ SaveFails \/ Scan \/ IssueReceive \/ ReserveChange \/ Retire \/ SavePending
           \/ Confirm \/ Lock
           \/ \E w \in BOOLEAN : Stop(w)
           \/ \E f \in Flows : Install(f)
<1> USE DEF sessionVars, chainVars, historyVars
<1>1. ASSUME Working
      PROVE  UNCHANGED mem \/ SaveFails \/ Scan \/ IssueReceive \/ ReserveChange \/ Retire
             \/ SavePending \/ Confirm
  BY <1>1 DEF Working, Saving, Paying, SaveDisk, SaveVolatile, Sign, ResumeNothing, Recommit,
              Post, StopPolling, HandOut, KeepReview, Fail, Unwind
<1>2. ASSUME OtherWrite \/ Beginning \/ Network
      PROVE  UNCHANGED mem
  BY <1>2 DEF OtherWrite, OtherSeal, OtherDisk, OtherVolatile, OtherFails, Beginning, BeginScan,
              BeginResume, BeginSubmit, ExpireReview, Network, Deposit, Accept
<1>3. ASSUME Session
      PROVE  \/ UNCHANGED mem \/ Lock
             \/ \E w \in BOOLEAN : Stop(w)
             \/ \E f \in Flows : Install(f)
  BY <1>3 DEF Session, ChangeContext, CloseView, Load, AbandonLoad
<1>4. QED
  BY <1>1, <1>2, <1>3 DEF Next, vars

\* Signing, submission and acceptance are the only steps of the history.
LEMMA HistoryChanges ==
    ASSUME [Next]_vars
    PROVE  /\ UNCHANGED signed \/ \E id \in PaymentIds : Sign(id)
           /\ UNCHANGED submitted \/ Post
           /\ UNCHANGED accepted
              \/ \E p \in submitted, id \in CoinIds : Accept(p, id)
<1> USE DEF sessionVars, chainVars, historyVars
<1>1. ASSUME Working
      PROVE  /\ UNCHANGED signed \/ \E id \in PaymentIds : Sign(id)
             /\ UNCHANGED submitted \/ Post
             /\ UNCHANGED accepted
  BY <1>1 DEF Working, Saving, Paying, SaveDisk, SaveVolatile, SaveFails, Retire, SavePending,
              Sign, ResumeNothing, Confirm, Recommit, Post, StopPolling, Scan, HandOut,
              IssueReceive, ReserveChange, KeepReview, Fail, Unwind
<1>2. ASSUME OtherWrite \/ Beginning \/ Session
      PROVE  UNCHANGED <<signed, submitted, accepted>>
  BY <1>2 DEF OtherWrite, OtherSeal, OtherDisk, OtherVolatile, OtherFails, Beginning, BeginScan,
              BeginResume, BeginSubmit, ExpireReview, Session, Lock, ChangeContext, CloseView,
              Stop, Load, Install, AbandonLoad
<1>3. ASSUME Network
      PROVE  /\ UNCHANGED <<signed, submitted>>
             /\ UNCHANGED accepted
                \/ \E p \in submitted, id \in CoinIds : Accept(p, id)
  BY <1>3 DEF Network, Deposit, Accept
<1>4. QED
  BY <1>1, <1>2, <1>3 DEF Next, vars

\* How the live journal moves: it is one of the copies, or it has grown from
\* the previous one and forgets no payment that is not accepted.
LEMMA LiveStep ==
    ASSUME TypeInv, [Next]_vars
    PROVE  \/ mem' \in Copies \cup {None}
           \/ /\ mem \in Journal /\ mem' \in Journal
              /\ mem.exposed \subseteq mem'.exposed
              /\ \/ mem'.pending = mem.pending
                 \/ mem.pending = None /\ mem'.pending \in {op.pay, op.prev}
                 \/ mem.pending \in accepted /\ mem'.pending = None
              /\ \A k \in mem'.exposed :
                    k[2] < mem'.count[k[1]] \/ (k \in mem.exposed /\ ~ k[2] < mem.count[k[1]])
<1> USE DEF TypeInv, TypeOK, Unlocked, At
<1>0. mem # None => mem \in Journal
  OBVIOUS
<1>1. CASE UNCHANGED mem
  BY <1>1 DEF Copies
<1>2. CASE SaveFails
  <2>1. mem \in Journal
    BY <1>0, <1>2 DEF SaveFails, Shape
  <2>2. CASE mem' = mem
    BY <2>2 DEF Copies
  <2>3. CASE mem.pending = None /\ mem' = [mem EXCEPT !.pending = op.prev]
    BY <2>1, <2>3 DEF Journal, OpType
  <2>4. QED
    BY <1>2, <2>2, <2>3 DEF SaveFails
<1>3. CASE Scan
  <2>1. mem \in Journal
    BY <1>0, <1>3 DEF Scan, Shape
  <2>2. Found(mem) \in SUBSET Key
    BY <2>1 DEF Found, Journal
  <2>3. mem' = mem \/ mem' = Observe(mem, Found(mem))
    BY <1>3 DEF Scan
  <2>4. QED
    BY <2>1, <2>2, <2>3, ObserveProperties, ExposedAreKeys DEF Copies
<1>4. CASE IssueReceive
  <2>1. mem \in Journal /\ Receive \in Branch /\ GapOpen(mem, Receive)
    BY <1>0, <1>4 DEF IssueReceive, Branch, Shape
  <2>2. mem' = Issue(mem, Receive)
    BY <1>4 DEF IssueReceive, StartSave
  <2>3. QED
    BY <2>1, <2>2, IssueProperties, ExposedAreKeys
<1>5. CASE ReserveChange
  <2>1. mem \in Journal /\ Change \in Branch
    BY <1>0, <1>5 DEF ReserveChange, Branch, Shape
  <2>2. mem' = mem \/ (GapOpen(mem, Change) /\ mem' = Issue(mem, Change))
    BY <1>5 DEF ReserveChange, StartSave
  <2>3. QED
    BY <2>1, <2>2, IssueProperties, ExposedAreKeys DEF Copies
<1>6. CASE Retire
  <2>1. mem \in Journal
    BY <1>0, <1>6 DEF Retire, Shape
  <2>2. Signers(op.found) \in SUBSET Key /\ <<Change, op.change>> \in Key
    BY <1>6, SignersType DEF Retire, OpType, Shape, Key, Branch
  <2>3. mem' = Observe(mem, Signers(op.found) \cup {<<Change, op.change>>})
    BY <1>6 DEF Retire, StartSave
  <2>4. QED
    BY <2>1, <2>2, <2>3, ObserveProperties, ExposedAreKeys
<1>7. CASE SavePending
  <2>1. mem \in Journal /\ mem.pending = None
    BY <1>0, <1>7 DEF SavePending, Shape
  <2>2. mem' = [mem EXCEPT !.pending = op.pay]
    BY <1>7 DEF SavePending, StartSave
  <2>3. QED
    BY <2>1, <2>2 DEF Journal, OpType
<1>8. CASE Confirm
  <2>1. mem \in Journal /\ mem.pending \in accepted
    BY <1>0, <1>8 DEF Confirm, Shape
  <2>2. mem' = Cleared(mem)
    BY <1>8 DEF Confirm, StartSave
  <2>3. QED
    BY <2>1, <2>2, ClearedProperties
<1>9. CASE Lock \/ \E w \in BOOLEAN : Stop(w)
  BY <1>9 DEF Lock, Stop
<1>10. ASSUME NEW f \in Flows, Install(f)
       PROVE  mem' \in Copies \cup {None}
  BY <1>10 DEF Install, Copies
<1>11. QED
  BY <1>1, <1>2, <1>3, <1>4, <1>5, <1>6, <1>7, <1>8, <1>9, <1>10, LiveChanges

\* No step brings back a journal that is gone: every copy is an earlier copy or
\* the live journal.
LEMMA CopiesStep ==
    ASSUME TypeInv, [Next]_vars
    PROVE  Copies' \subseteq Copies \cup {mem'}
<1> USE DEF TypeInv, TypeOK, Shape, Copies, sessionVars, chainVars, historyVars
<1>1. CASE UNCHANGED <<disk, off, other, loading>>
  BY <1>1
<1>2. CASE SaveDisk \/ SaveVolatile \/ SaveFails
  BY <1>2 DEF SaveDisk, SaveVolatile, SaveFails, At
<1>3. CASE OtherWrite
  BY <1>3 DEF OtherWrite, OtherSeal, OtherDisk, OtherVolatile, OtherFails, Quiet
<1>4. CASE Lock \/ \E w \in BOOLEAN : Stop(w)
  BY <1>4 DEF Lock, Stop, NoLoads, NoLoad, Quiet
<1>5. ASSUME NEW f \in Flows, Load(f) \/ Install(f) \/ AbandonLoad(f)
      PROVE  Copies' \subseteq Copies \cup {mem'}
  <2>1. \A g \in Flows : loading'[g].journal \in {loading[g].journal, disk, off, None}
    BY <1>5 DEF Load, Install, AbandonLoad, NoLoad
  <2>2. other'.buf \in {other.buf, None} /\ off' \in {off, loading[f].journal} /\ disk' = disk
    BY <1>5 DEF Load, Install, AbandonLoad, Quiet
  <2>3. QED
    BY <2>1, <2>2
<1>6. [Next]_vars => \/ UNCHANGED <<disk, off, other, loading>>
                     \/ SaveDisk \/ SaveVolatile \/ SaveFails \/ OtherWrite \/ Lock
                     \/ \E w \in BOOLEAN : Stop(w)
                     \/ \E f \in Flows : Load(f) \/ Install(f) \/ AbandonLoad(f)
  <2>1. Working => UNCHANGED <<disk, off, other, loading>> \/ SaveDisk \/ SaveVolatile \/ SaveFails
    BY DEF Working, Saving, Paying, Retire, SavePending, Sign, ResumeNothing, Confirm, Recommit,
           Post, StopPolling, Scan, HandOut, IssueReceive, ReserveChange, KeepReview, Fail, Unwind
  <2>2. Beginning \/ Network => UNCHANGED <<disk, off, other, loading>>
    BY DEF Beginning, BeginScan, BeginResume, BeginSubmit, ExpireReview, Network, Deposit, Accept
  <2>3. Session => \/ UNCHANGED <<disk, off, other, loading>> \/ Lock
                   \/ \E w \in BOOLEAN : Stop(w)
                   \/ \E f \in Flows : Load(f) \/ Install(f) \/ AbandonLoad(f)
    BY DEF Session, ChangeContext, CloseView
  <2>4. QED
    BY <2>1, <2>2, <2>3 DEF Next, vars
<1>7. QED
  BY <1>1, <1>2, <1>3, <1>4, <1>5, <1>6

\* When a save() returns, the saved journal is the only one there is.
LEMMA AfterSave ==
    ASSUME TypeInv, LoadingAlone, StoredAlone, SaveVolatile
    PROVE  Copies' \subseteq {mem}
<1>1. mem # None
  BY DEF TypeInv, Shape, SaveVolatile, At
<1>2. \A f \in Flows : loading[f].journal = None
  BY <1>1 DEF LoadingAlone, NoLoad
<1>3. disk = mem /\ other.buf = None
  BY DEF StoredAlone, SaveVolatile, At, Quiet
<1>4. QED
  BY <1>2, <1>3 DEF SaveVolatile, Copies

\* A command on its way to a critical step was just started on it, saves, or is
\* left alone together with the live journal and the history.
LEMMA CommandStep ==
    ASSUME TypeInv, [Next]_vars
    PROVE  \/ op'.pc \notin {"save", "stored", "sign", "post"}
           \/ Retire \/ Recommit \/ SaveDisk \/ SaveVolatile
           \/ op'.pc = "save" /\ op'.then \notin {"retired", "recommitted"}
              /\ UNCHANGED disk
           \/ /\ op'.pc = op.pc /\ op'.then = op.then
              /\ op'.found = op.found /\ op'.change = op.change /\ op'.pay = op.pay
              /\ UNCHANGED <<mem, signed, submitted>>
              /\ UNCHANGED <<disk, other>> \/ OtherWrite
<1> USE DEF sessionVars, chainVars, historyVars
<1>0. op \in OpType
  BY DEF TypeInv, TypeOK
<1> DEFINE Left == /\ op'.pc = op.pc /\ op'.then = op.then
                   /\ op'.found = op.found /\ op'.change = op.change /\ op'.pay = op.pay
                   /\ UNCHANGED <<mem, signed, submitted>>
                   /\ UNCHANGED <<disk, other>> \/ OtherWrite
           Ended == op'.pc \notin {"save", "stored", "sign", "post"}
           Saves == op'.pc = "save" /\ op'.then \notin {"retired", "recommitted"}
                    /\ UNCHANGED disk
<1>1. Scan \/ ReserveChange \/ IssueReceive \/ SavePending \/ Confirm => Saves \/ Ended
  <2>1. Scan => Saves \/ Ended
    BY <1>0 DEF Scan, OpType
  <2>2. IssueReceive \/ SavePending \/ Confirm => Saves
    BY <1>0 DEF IssueReceive, SavePending, Confirm, StartSave, OpType
  <2>3. ReserveChange => Saves \/ Ended
    BY <1>0 DEF ReserveChange, StartSave, OpType
  <2>4. QED
    BY <2>1, <2>2, <2>3
<1>2. SaveFails \/ ResumeNothing \/ StopPolling \/ HandOut \/ Fail \/ Unwind => Ended
  BY <1>0, EndedType DEF SaveFails, ResumeNothing, StopPolling, HandOut, Fail, Unwind
<1>3. Post => Ended
  BY <1>0 DEF Post, OpType
<1>4. ASSUME NEW id \in PaymentIds, Sign(id)
      PROVE  Ended
  BY <1>4 DEF Sign, Idle
<1>5. ASSUME NEW s \in ReviewSlots, KeepReview(s) \/ BeginSubmit(s)
      PROVE  Ended
  <2>1. KeepReview(s) => Ended
    BY <1>0, EndedType DEF KeepReview
  <2>2. BeginSubmit(s) => Ended
    BY DEF BeginSubmit, Idle
  <2>3. QED
    BY <1>5, <2>1, <2>2
<1>6. ASSUME NEW s \in ReviewSlots, ExpireReview(s)
      PROVE  Left
  BY <1>6 DEF ExpireReview
<1>7. BeginResume => Ended
  BY DEF BeginResume, Idle
<1>8. ASSUME NEW cmd \in ScanCommands, BeginScan(cmd)
      PROVE  Ended
  BY <1>8 DEF BeginScan, Idle
<1>9. OtherWrite => Left
  BY DEF OtherWrite, OtherSeal, OtherDisk, OtherVolatile, OtherFails
<1>10. Lock => Ended
  BY <1>0, EndedType DEF Lock
<1>11. ASSUME NEW w \in BOOLEAN, Stop(w)
       PROVE  Ended
  BY <1>0, <1>11, EndedType DEF Stop
<1>12. ASSUME NEW f \in Flows, Load(f) \/ Install(f) \/ AbandonLoad(f)
       PROVE  Left \/ Ended
  BY <1>0, <1>12, EndedType DEF Load, Install, AbandonLoad
<1>13. ChangeContext \/ CloseView => Left \/ Ended
  BY <1>0, InterruptedType DEF ChangeContext, CloseView
<1>14. Network \/ UNCHANGED vars => Left
  BY DEF Network, Deposit, Accept, vars
<1> HIDE DEF Left, Saves, Ended
<1>15. Left \/ Saves \/ Ended \/ Retire \/ Recommit \/ SaveDisk \/ SaveVolatile
  <2>1. Working => Saves \/ Ended \/ Retire \/ Recommit \/ SaveDisk \/ SaveVolatile
    BY <1>1, <1>2, <1>3, <1>4, <1>5 DEF Working, Saving, Paying
  <2>2. Beginning => Left \/ Ended
    BY <1>5, <1>6, <1>7, <1>8 DEF Beginning
  <2>3. Session => Left \/ Ended
    BY <1>10, <1>11, <1>12, <1>13 DEF Session
  <2>4. QED
    BY <2>1, <2>2, <2>3, <1>9, <1>14 DEF Next
<1>16. QED
  BY <1>15 DEF Left, Saves, Ended

\* The payments a command carries are the one it signed and the saved one.
LEMMA PayStep ==
    ASSUME TypeInv, [Next]_vars
    PROVE  /\ \/ op'.pay \in {op.pay, None}
              \/ \E id \in PaymentIds : Sign(id)
              \/ mem # None /\ op'.pay = mem.pending
           /\ op'.prev \in {op.prev, None} \/ (mem # None /\ op'.prev = mem.pending)
<1> USE DEF TypeInv, TypeOK, Shape, At, sessionVars, chainVars, historyVars
<1> DEFINE Kept == op'.pay \in {op.pay, None}
                   /\ (op'.prev \in {op.prev, None} \/ (mem # None /\ op'.prev = mem.pending))
<1>1. Scan \/ IssueReceive \/ ReserveChange \/ Retire \/ SavePending \/ Confirm => Kept
  <2>1. Scan => Kept
    BY DEF Scan, OpType
  <2>2. IssueReceive \/ Retire \/ SavePending \/ Confirm => Kept
    BY DEF IssueReceive, Retire, SavePending, Confirm, StartSave, OpType
  <2>3. ReserveChange => Kept
    BY DEF ReserveChange, StartSave, OpType
  <2>4. QED
    BY <2>1, <2>2, <2>3
<1>2. Recommit => mem # None /\ op'.pay = mem.pending /\ op'.prev = mem.pending
  BY DEF Recommit, OpType
<1>3. ASSUME NEW id \in PaymentIds, Sign(id)
      PROVE  op'.prev \in {op.prev, None}
  BY <1>3 DEF Sign, Idle
<1>4. SaveDisk \/ SaveVolatile \/ SaveFails => Kept
  <2>1. SaveDisk \/ SaveFails => Kept
    BY DEF SaveDisk, SaveFails, OpType, Idle
  <2>2. ASSUME SaveVolatile
        PROVE  Kept
    <3>1. CASE \E pc \in {"scanned", "build", "sign", "post"} : Continue(pc)
      BY <3>1, ContinueType
    <3>2. CASE op' = Idle \/ op' = [Idle EXCEPT !.pc = "resume"]
      BY <3>2 DEF Idle
    <3>3. QED
      BY <2>2, <3>1, <3>2 DEF SaveVolatile
  <2>3. QED
    BY <2>1, <2>2
<1>5. \/ ResumeNothing \/ Post \/ StopPolling \/ HandOut
      \/ (\E s \in ReviewSlots : KeepReview(s)) \/ Fail \/ Unwind
      => Kept
  BY DEF ResumeNothing, Post, StopPolling, HandOut, KeepReview, Fail, Unwind, Idle, OpType
<1>6. OtherWrite \/ Network \/ UNCHANGED vars => Kept
  BY DEF OtherWrite, OtherSeal, OtherDisk, OtherVolatile, OtherFails, Network, Deposit, Accept, vars
<1>7. Beginning => Kept
  BY DEF Beginning, BeginScan, BeginResume, BeginSubmit, ExpireReview, Idle
<1>8. Session => Kept
  BY InterruptedType
     DEF Session, Lock, ChangeContext, CloseView, Stop, Load, Install, AbandonLoad, Orphan,
         Interrupted, Idle, Doomed, OpType
<1>9. QED
  BY <1>1, <1>2, <1>3, <1>4, <1>5, <1>6, <1>7, <1>8 DEF Next, Working, Saving, Paying

(***************************************************************************)
(* Safety                                                                  *)
(***************************************************************************)

LEMMA LoadingStep ==
    ASSUME OneLoader, TypeInv, LoadingAlone, [Next]_vars
    PROVE  LoadingAlone'
<1> USE DEF TypeInv, Shape, sessionVars, chainVars, historyVars
<1>1. mem = None => mem' = None \/ \E f \in Flows : Install(f)
  BY LiveChanges DEF SaveFails, Scan, IssueReceive, ReserveChange, Retire, SavePending, Confirm,
                     At, Lock, Stop
<1>2. ASSUME NEW f \in Flows, Install(f)
      PROVE  LoadingAlone'
  <2>1. \A g \in Flows : g = f
    BY DEF OneLoader
  <2>2. loading'[f] = NoLoad
    BY <1>2 DEF Install, TypeOK
  <2>3. QED
    BY <2>1, <2>2 DEF LoadingAlone
<1>3. ASSUME NEW f \in Flows, Load(f)
      PROVE  LoadingAlone'
  BY <1>3 DEF Load, LoadingAlone
<1>4. ASSUME NEW f \in Flows, AbandonLoad(f)
      PROVE  \A g \in Flows : loading'[g] \in {NoLoad, loading[g]}
  BY <1>4 DEF AbandonLoad, TypeOK
<1>5. \/ \A g \in Flows : loading'[g] \in {NoLoad, loading[g]}
      \/ \E f \in Flows : Install(f) \/ Load(f)
  <2>1. Working => UNCHANGED loading
    BY DEF Working, Saving, Paying, SaveDisk, SaveVolatile, SaveFails, Retire, SavePending, Sign,
           ResumeNothing, Confirm, Recommit, Post, StopPolling, Scan, HandOut, IssueReceive,
           ReserveChange, KeepReview, Fail, Unwind
  <2>2. OtherWrite \/ Beginning \/ Network => UNCHANGED loading
    BY DEF OtherWrite, OtherSeal, OtherDisk, OtherVolatile, OtherFails, Beginning, BeginScan,
           BeginResume, BeginSubmit, ExpireReview, Network, Deposit, Accept
  <2>3. Session => \/ UNCHANGED loading
                   \/ \A g \in Flows : loading'[g] = NoLoad
                   \/ \E f \in Flows : Install(f) \/ Load(f) \/ AbandonLoad(f)
    BY DEF Session, Lock, ChangeContext, CloseView, Stop, NoLoads
  <2>4. QED
    BY <1>4, <2>1, <2>2, <2>3 DEF Next, vars
<1>6. CASE mem # None /\ ~ \E f \in Flows : Install(f) \/ Load(f)
  BY <1>5, <1>6 DEF LoadingAlone
<1>7. CASE mem = None /\ ~ \E f \in Flows : Install(f) \/ Load(f)
  BY <1>1, <1>5, <1>7 DEF LoadingAlone
<1>8. QED
  BY <1>2, <1>3, <1>6, <1>7

LEMMA StoredStep ==
    ASSUME TypeInv, StoredAlone, [Next]_vars
    PROVE  StoredAlone'
<1> USE DEF sessionVars, chainVars, historyVars
<1>0. op \in OpType
  BY DEF TypeInv, TypeOK
<1>1. CASE op'.pc # "stored"
  BY <1>1 DEF StoredAlone
<1>2. CASE SaveDisk
  BY <1>2 DEF SaveDisk, At, StoredAlone
<1>3. CASE SaveVolatile
  <2>1. op'.pc # "stored"
    BY <1>0, <1>3, ContinueType DEF SaveVolatile, Idle
  <2>2. QED
    BY <2>1, <1>1
<1>4. CASE Retire \/ Recommit
  <2>1. op'.pc = "save"
    BY <1>0, <1>4 DEF Retire, Recommit, StartSave, OpType
  <2>2. QED
    BY <2>1, <1>1
<1>5. CASE /\ op'.pc = op.pc /\ UNCHANGED mem
           /\ UNCHANGED <<disk, other>> \/ OtherWrite
  BY <1>5 DEF StoredAlone, OtherWrite, OtherSeal, OtherDisk, OtherVolatile, OtherFails, Quiet
<1>6. QED
  BY <1>1, <1>2, <1>3, <1>4, <1>5, CommandStep

LEMMA RetirementStep ==
    ASSUME IInv, [Next]_vars
    PROVE  RetirementHolds'
<1> USE DEF sessionVars, chainVars, historyVars
<1>0. TypeInv /\ op \in OpType /\ RetirementHolds /\ (mem # None => mem \in Journal)
  BY DEF IInv, TypeInv, TypeOK
<1>1. CASE op'.pc \notin {"save", "stored", "sign"}
  BY <1>1 DEF RetirementHolds, SavingFor
<1>2. CASE op'.pc = "save" /\ op'.then # "retired"
  BY <1>2 DEF RetirementHolds, SavingFor
<1>3. CASE Retire
  <2>1. mem \in Journal /\ mem \in Copies
    BY <1>0, <1>3 DEF TypeInv, Shape, Retire, At, Copies
  <2>2. Signers(op.found) \in SUBSET Key /\ <<Change, op.change>> \in Key
    BY <1>0, <1>3, SignersType DEF Retire, At, OpType, TypeInv, Shape, Key, Branch
  <2>3. mem' = Observe(mem, OpKeys) /\ op'.pc = "save" /\ op'.then = "retired"
        /\ op'.found = op.found /\ op'.change = op.change
    BY <1>0, <1>3, <2>1, StartSaveType DEF Retire, OpKeys
  <2>4. OpKeys \subseteq mem'.exposed /\ OpKeys' = OpKeys
    BY <2>1, <2>2, <2>3, ObserveProperties DEF OpKeys
  <2>5. \A q \in signed : q.change # op.change
    BY <1>3, <2>1 DEF IInv, RetiredBeforeSigned, KeysOf, Retire, VerifyRequest
  <2>6. UNCHANGED signed
    BY <1>3 DEF Retire
  <2>7. QED
    BY <2>3, <2>4, <2>5, <2>6 DEF RetirementHolds, SavingFor
<1>4. CASE Recommit
  BY <1>0, <1>4 DEF Recommit, OpType, RetirementHolds, SavingFor
<1>5. CASE SaveDisk
  BY <1>0, <1>5 DEF SaveDisk, At, OpType, RetirementHolds, SavingFor, OpKeys
<1>6. CASE SaveVolatile
  <2>1. CASE op'.pc # "sign"
    BY <1>0, <1>6, <2>1, ContinueType DEF SaveVolatile, RetirementHolds, SavingFor, Idle
  <2>2. CASE op'.pc = "sign"
    <3>1. op.then = "retired" /\ op'.found = op.found /\ op'.change = op.change
      BY <1>0, <1>6, <2>2, ContinueType DEF SaveVolatile, Idle
    <3>2. OpKeys \subseteq mem.exposed /\ OpKeys' = OpKeys
          /\ \A q \in signed : q.change # op.change
      BY <1>0, <1>6, <3>1 DEF SaveVolatile, At, RetirementHolds, SavingFor, OpKeys
    <3>3. Copies' \subseteq {mem} /\ UNCHANGED signed
      BY <1>6, AfterSave DEF IInv, SaveVolatile
    <3>4. QED
      BY <2>2, <3>1, <3>2, <3>3 DEF RetirementHolds, SavingFor
  <2>3. QED
    BY <2>1, <2>2
<1>7. CASE /\ op'.pc = op.pc /\ op'.then = op.then
           /\ op'.found = op.found /\ op'.change = op.change
           /\ UNCHANGED <<mem, signed>>
  <2>1. OpKeys' = OpKeys /\ Copies' \subseteq Copies \cup {mem}
    BY <1>0, <1>7, CopiesStep DEF OpKeys
  <2>2. op.pc = "sign" => mem \in Copies
    BY <1>0 DEF TypeInv, Shape, Copies
  <2>3. QED
    BY <1>0, <1>7, <2>1, <2>2 DEF RetirementHolds, SavingFor
<1>8. QED
  BY <1>0, <1>1, <1>2, <1>3, <1>4, <1>5, <1>6, <1>7, CommandStep

LEMMA CommitStep ==
    ASSUME IInv, [Next]_vars
    PROVE  CommitHolds'
<1> USE DEF sessionVars, chainVars, historyVars
<1>0. TypeInv /\ op \in OpType /\ CommitHolds
  BY DEF IInv, TypeInv, TypeOK
<1>1. CASE op'.pc \notin {"save", "stored", "post"}
  BY <1>1 DEF CommitHolds, SavingFor
<1>2. CASE op'.pc = "save" /\ op'.then # "recommitted"
  BY <1>2 DEF CommitHolds, SavingFor
<1>3. CASE Retire
  BY <1>0, <1>3 DEF Retire, StartSave, OpType, CommitHolds, SavingFor
<1>4. CASE Recommit
  BY <1>0, <1>4 DEF Recommit, OpType, CommitHolds, SavingFor
<1>5. CASE SaveDisk
  BY <1>0, <1>5 DEF SaveDisk, At, OpType, CommitHolds, SavingFor
<1>6. CASE SaveVolatile
  <2>1. CASE op'.pc # "post"
    BY <1>0, <1>6, <2>1, ContinueType DEF SaveVolatile, CommitHolds, SavingFor, Idle
  <2>2. CASE op'.pc = "post"
    <3>1. op.then = "recommitted" /\ op'.pay = op.pay
      BY <1>0, <1>6, <2>2, ContinueType DEF SaveVolatile, Idle
    <3>2. mem.pending = op.pay
      BY <1>0, <1>6, <3>1 DEF SaveVolatile, At, CommitHolds, SavingFor
    <3>3. Copies' \subseteq {mem}
      BY <1>6, AfterSave DEF IInv
    <3>4. QED
      BY <2>2, <3>1, <3>2, <3>3 DEF CommitHolds, SavingFor
  <2>3. QED
    BY <2>1, <2>2
<1>7. CASE /\ op'.pc = op.pc /\ op'.then = op.then /\ op'.pay = op.pay
           /\ UNCHANGED mem
  <2>1. Copies' \subseteq Copies \cup {mem}
    BY <1>0, <1>7, CopiesStep
  <2>2. op.pc = "post" => mem \in Copies
    BY <1>0 DEF TypeInv, Shape, Copies
  <2>3. QED
    BY <1>0, <1>7, <2>1, <2>2 DEF CommitHolds, SavingFor
<1>8. QED
  BY <1>0, <1>1, <1>2, <1>3, <1>4, <1>5, <1>6, <1>7, CommandStep

\* Signing takes a new identity and the reserved change address.
LEMMA SignStep ==
    ASSUME IInv, NEW id \in PaymentIds, Sign(id)
    PROVE  \E p \in Payment :
              /\ signed' = signed \cup {p} /\ op'.pay = p
              /\ KeysOf(p) = OpKeys
              /\ \A q \in signed : q.id # p.id /\ q.change # p.change
<1> DEFINE p == [id |-> id, utxos |-> op.found, change |-> op.change]
<1>1. op.change \in 0 .. MaxIndex - 1 /\ op.found \in SUBSET Coin
  BY DEF IInv, TypeInv, TypeOK, Shape, OpType, Sign, At
<1>2. p \in Payment
  BY <1>1 DEF Payment
<1>3. signed' = signed \cup {p} /\ op'.pay = p
  BY DEF Sign, Idle
<1>4. KeysOf(p) = OpKeys
  BY DEF KeysOf, OpKeys
<1>5. \A q \in signed : q.id # p.id /\ q.change # p.change
  BY DEF Sign, At, IInv, RetirementHolds
<1>6. QED
  BY <1>2, <1>3, <1>4, <1>5

LEMMA PaymentsStep ==
    ASSUME IInv, [Next]_vars
    PROVE  PaymentsAreSigned'
<1>0. TypeInv /\ PaymentsAreSigned /\ signed \subseteq Payment /\ (mem # None => mem \in Copies)
  BY DEF IInv, TypeInv, TypeOK, Copies
<1>1. signed \subseteq signed'
  BY HistoryChanges DEF Sign, historyVars
<1>2. \A p, q \in signed' : p.id = q.id => p = q
  BY <1>0, HistoryChanges, SignStep DEF PaymentsAreSigned
<1>3. submitted' \subseteq signed'
  <2>1. CASE UNCHANGED submitted
    BY <1>0, <1>1, <2>1 DEF PaymentsAreSigned
  <2>2. CASE Post
    BY <1>0, <1>1, <2>2 DEF PaymentsAreSigned, Post, At, TypeInv, Shape
  <2>3. QED
    BY <2>1, <2>2, HistoryChanges
<1>4. accepted' \subseteq submitted'
  <2>1. submitted \subseteq submitted'
    BY HistoryChanges DEF Post
  <2>2. QED
    BY <1>0, <2>1, HistoryChanges DEF PaymentsAreSigned, Accept
<1>5. op'.pay \in signed' \cup {None}
  BY <1>0, <1>1, PayStep, SignStep DEF PaymentsAreSigned
<1>6. op'.prev \in signed' \cup {None}
  BY <1>0, <1>1, PayStep DEF PaymentsAreSigned
<1>7. mem' # None => mem'.pending \in signed' \cup {None}
  <2>1. CASE mem' \in Copies \cup {None}
    BY <1>0, <1>1, <2>1 DEF PaymentsAreSigned
  <2>2. CASE mem \in Journal /\ mem'.pending \in {mem.pending, op.pay, op.prev, None}
    BY <1>0, <1>1, <2>2, NoneIsNothing DEF PaymentsAreSigned
  <2>3. QED
    BY <1>0, <2>1, <2>2, LiveStep
<1>8. \A j \in Copies' : j.pending \in signed' \cup {None}
  <2>1. \A j \in Copies' : j # None
    BY DEF Copies
  <2>2. QED
    BY <1>0, <1>1, <1>7, <2>1, CopiesStep DEF PaymentsAreSigned
<1>9. QED
  BY <1>2, <1>3, <1>4, <1>5, <1>6, <1>8 DEF PaymentsAreSigned

\* What the safety properties say of the journals follows every step.
LEMMA SafetyStep ==
    ASSUME IInv, [Next]_vars
    PROVE  RetiredBeforeSigned' /\ ChangeNeverShared' /\ SubmittedIsJournaled' /\ ExposedIsIssued'
<1>0. /\ TypeInv /\ PaymentsAreSigned
      /\ RetiredBeforeSigned /\ ChangeNeverShared /\ SubmittedIsJournaled /\ ExposedIsIssued
      /\ mem \in Journal => mem \in Copies
  BY NoneIsNothing DEF IInv, Copies
<1>1. \A j \in Copies' : j \in Copies \/ (j = mem' /\ j # None)
  BY <1>0, CopiesStep DEF Copies
<1>2. RetiredBeforeSigned'
  <2>1. ASSUME NEW p \in signed, NEW j \in Copies'
        PROVE  KeysOf(p) \subseteq j.exposed
    BY <1>0, <1>1, <2>1, LiveStep DEF RetiredBeforeSigned
  <2>2. ASSUME NEW id \in PaymentIds, Sign(id), NEW p, KeysOf(p) = OpKeys, NEW j \in Copies'
        PROVE  KeysOf(p) \subseteq j.exposed
    <3>1. j \in Copies
      BY <1>1, <2>2 DEF Sign, sessionVars, Copies
    <3>2. QED
      BY <2>2, <3>1 DEF IInv, RetirementHolds, Sign, At
  <2>3. QED
    BY <2>1, <2>2, HistoryChanges, SignStep DEF RetiredBeforeSigned
<1>3. ChangeNeverShared'
  BY <1>0, HistoryChanges, SignStep DEF ChangeNeverShared
<1>4. SubmittedIsJournaled'
  <2>1. ASSUME NEW p \in submitted \ accepted, NEW j \in Copies'
        PROVE  j.pending = p
    <3>1. p # None
      BY <1>0, NoneIsNothing DEF TypeInv, TypeOK
    <3>2. CASE j \in Copies
      BY <1>0, <3>2 DEF SubmittedIsJournaled
    <3>3. CASE j = mem' /\ j \notin Copies /\ j # None
      BY <1>0, <3>1, <3>3, LiveStep DEF SubmittedIsJournaled
    <3>4. QED
      BY <1>1, <3>2, <3>3
  <2>2. ASSUME Post, NEW j \in Copies'
        PROVE  submitted' = submitted \cup {op.pay} /\ j.pending = op.pay
    <3>1. j \in Copies
      BY <1>1, <2>2 DEF Post, sessionVars, Copies
    <3>2. QED
      BY <2>2, <3>1 DEF IInv, CommitHolds, Post, At
  <2>3. accepted \subseteq accepted'
    BY HistoryChanges DEF Accept
  <2>4. QED
    BY <2>1, <2>2, <2>3, HistoryChanges DEF SubmittedIsJournaled
<1>5. ExposedIsIssued'
  BY <1>0, <1>1, LiveStep DEF ExposedIsIssued
<1>6. QED
  BY <1>2, <1>3, <1>4, <1>5

(***************************************************************************)
(* Discovery                                                               *)
(***************************************************************************)

\* Deposits and acceptances are the only steps of the chain.
LEMMA ChainChanges ==
    ASSUME [Next]_vars
    PROVE  \/ UNCHANGED <<coins, active>>
           \/ \E id \in CoinIds, k \in Key : Deposit(id, k)
           \/ \E id \in CoinIds, p \in submitted : Accept(p, id)
<1> USE DEF chainVars
<1>1. ASSUME Working
      PROVE  UNCHANGED <<coins, active>>
  BY <1>1 DEF Working, Saving, Paying, SaveDisk, SaveVolatile, SaveFails, Retire, SavePending,
              Sign, ResumeNothing, Confirm, Recommit, Post, StopPolling, Scan, HandOut,
              IssueReceive, ReserveChange, KeepReview, Fail, Unwind
<1>2. ASSUME OtherWrite \/ Beginning \/ Session
      PROVE  UNCHANGED <<coins, active>>
  BY <1>2 DEF OtherWrite, OtherSeal, OtherDisk, OtherVolatile, OtherFails, Beginning, BeginScan,
              BeginResume, BeginSubmit, ExpireReview, Session, Lock, ChangeContext, CloseView,
              Stop, Load, Install, AbandonLoad
<1>3. QED
  BY <1>1, <1>2 DEF Next, Network, vars

\* An index is shown only when it is an issued one of the live journal.
LEMMA HandedStep ==
    ASSUME TypeInv, [Next]_vars
    PROVE  \/ UNCHANGED handed
           \/ /\ mem \in Journal
              /\ \E i \in 0 .. MaxIndex - 1 :
                    i < mem.count[Receive] /\ handed' = handed \cup {i}
<1> USE DEF historyVars
<1>0. /\ mem # None => mem \in Journal
      /\ op.pc \notin {"idle", "doomed"} => mem # None
  BY DEF TypeInv, TypeOK, Shape
<1>1. CASE HandOut
  BY <1>0, <1>1 DEF HandOut, At, Available
<1>2. CASE SaveVolatile
  <2>1. CASE UNCHANGED handed
    BY <2>1
  <2>2. CASE op.then = "issued" /\ handed' = handed \cup {mem.count[Receive] - 1}
    <3>1. mem \in Journal /\ SavingFor("issued")
      BY <1>0, <1>2, <2>2 DEF SaveVolatile, At, SavingFor
    <3>2. mem.count[Receive] \in 0 .. MaxIndex /\ mem.count[Receive] > 0
      BY <3>1 DEF TypeInv, Shape, Journal, Branch
    <3>3. mem.count[Receive] - 1 \in 0 .. MaxIndex - 1
          /\ mem.count[Receive] - 1 < mem.count[Receive]
      BY <3>2, BoundsAreNatural
    <3>4. QED
      BY <2>2, <3>1, <3>3
  <2>3. QED
    BY <1>2, <2>1, <2>2 DEF SaveVolatile
<1>3. [Next]_vars => UNCHANGED handed \/ HandOut \/ SaveVolatile
  <2>1. Working => UNCHANGED handed \/ HandOut \/ SaveVolatile
    BY DEF Working, Saving, Paying, SaveDisk, SaveFails, Retire, SavePending,
           Sign, ResumeNothing, Confirm, Recommit, Post, StopPolling, Scan,
           IssueReceive, ReserveChange, KeepReview, Fail, Unwind
  <2>2. OtherWrite \/ Beginning \/ Session => UNCHANGED handed
    BY DEF OtherWrite, OtherSeal, OtherDisk, OtherVolatile, OtherFails, Beginning, BeginScan,
           BeginResume, BeginSubmit, ExpireReview, Session, Lock, ChangeContext, CloseView,
           Stop, Load, Install, AbandonLoad
  <2>3. Network => UNCHANGED handed
    BY DEF Network, Deposit, Accept
  <2>4. QED
    BY <2>1, <2>2, <2>3 DEF Next, vars
<1>4. QED
  BY <1>1, <1>2, <1>3

\* A command takes its outputs from the chain or from a review ...
LEMMA FoundStep ==
    ASSUME TypeInv, [Next]_vars
    PROVE  \/ op'.found \subseteq op.found \cup coins
           \/ \E s \in ReviewSlots : reviews[s] # None /\ op'.found = reviews[s].utxos
<1>0. op \in OpType /\ Idle.found = {} /\ Orphan.found = {}
      /\ Interrupted.found \subseteq op.found
  BY InterruptedType DEF TypeInv, TypeOK, Idle, Orphan, Doomed, Interrupted, OpType
<1>1. ASSUME Saving
      PROVE  op'.found \subseteq op.found
  BY <1>0, <1>1, ContinueType
     DEF Saving, SaveDisk, SaveVolatile, SaveFails, OpType, Idle
<1>2. ASSUME Paying
      PROVE  op'.found \subseteq op.found
  BY <1>0, <1>2 DEF Paying, Retire, SavePending, Sign, ResumeNothing, Confirm, Recommit, Post,
                    StopPolling, StartSave, OpType, Idle
<1>3. ASSUME Scan
      PROVE  op'.found \subseteq coins
  <2> DEFINE seen == IF op.cmd = "prepare"
                       THEN {c \in coins : c.at[2] < ScanEnd(mem, c.at[1])} ELSE {}
  <2>1. op'.found = seen
    BY <1>0, <1>3 DEF Scan, OpType
  <2>2. seen \subseteq coins
    OBVIOUS
  <2>3. QED
    BY <2>1, <2>2
<1>4. ASSUME \/ HandOut \/ IssueReceive \/ ReserveChange \/ Fail \/ Unwind
             \/ \E s \in ReviewSlots : KeepReview(s)
      PROVE  op'.found \subseteq op.found
  BY <1>0, <1>4 DEF HandOut, IssueReceive, ReserveChange, KeepReview, Fail, Unwind, StartSave, OpType
<1>5. ASSUME OtherWrite \/ Network
      PROVE  op' = op
  BY <1>5 DEF OtherWrite, OtherSeal, OtherDisk, OtherVolatile, OtherFails, Network, Deposit, Accept
<1>6. ASSUME Session
      PROVE  op'.found \subseteq op.found
  BY <1>0, <1>6 DEF Session, Lock, ChangeContext, CloseView, Stop, Load, Install, AbandonLoad
<1>7. ASSUME Beginning
      PROVE  \/ op'.found \subseteq op.found
             \/ \E s \in ReviewSlots : reviews[s] # None /\ op'.found = reviews[s].utxos
  <2>1. ASSUME NEW cmd \in ScanCommands, BeginScan(cmd)
        PROVE  op'.found = {}
    BY <2>1 DEF BeginScan, Idle
  <2>2. ASSUME BeginResume
        PROVE  op'.found = {}
    BY <2>2 DEF BeginResume, Idle
  <2>3. ASSUME NEW s \in ReviewSlots, BeginSubmit(s)
        PROVE  reviews[s] # None /\ op'.found = reviews[s].utxos
    BY <2>3 DEF BeginSubmit, Idle
  <2>4. ASSUME NEW s \in ReviewSlots, ExpireReview(s)
        PROVE  op' = op
    BY <2>4 DEF ExpireReview
  <2>5. QED
    BY <1>7, <2>1, <2>2, <2>3, <2>4 DEF Beginning
<1>8. QED
  BY <1>1, <1>2, <1>3, <1>4, <1>5, <1>6, <1>7 DEF Next, Working, vars

\* ... and a review from the command that keeps it.
LEMMA ReviewStep ==
    ASSUME TypeInv, [Next]_vars
    PROVE  \A s \in ReviewSlots :
              reviews'[s] \in {None, reviews[s]} \/ reviews'[s].utxos = op.found
<1>0. reviews \in [ReviewSlots -> Request \cup {None}]
  BY DEF TypeInv, TypeOK
<1>1. ASSUME Working
      PROVE  \A s \in ReviewSlots :
                reviews'[s] \in {None, reviews[s]} \/ reviews'[s].utxos = op.found
  <2>1. CASE UNCHANGED reviews
    BY <2>1
  <2>2. CASE SaveVolatile
    BY <1>0, <2>2 DEF SaveVolatile
  <2>3. ASSUME NEW t \in ReviewSlots, KeepReview(t)
        PROVE  \A s \in ReviewSlots :
                  reviews'[s] \in {None, reviews[s]} \/ reviews'[s].utxos = op.found
    BY <1>0, <2>3 DEF KeepReview
  <2>4. Working => UNCHANGED reviews \/ SaveVolatile \/ \E t \in ReviewSlots : KeepReview(t)
    BY DEF Working, Saving, Paying, SaveDisk, SaveFails, Retire, SavePending,
           Sign, ResumeNothing, Confirm, Recommit, Post, StopPolling, Scan, HandOut,
           IssueReceive, ReserveChange, Fail, Unwind
  <2>5. QED
    BY <1>1, <2>1, <2>2, <2>3, <2>4
<1>2. ASSUME OtherWrite \/ Network
      PROVE  UNCHANGED reviews
  BY <1>2 DEF OtherWrite, OtherSeal, OtherDisk, OtherVolatile, OtherFails, Network, Deposit, Accept
<1>3. ASSUME Beginning \/ Session
      PROVE  \A s \in ReviewSlots : reviews'[s] \in {None, reviews[s]}
  BY <1>0, <1>3
     DEF Beginning, BeginScan, BeginResume, BeginSubmit, ExpireReview, Session, Lock, ChangeContext,
         CloseView, Stop, Load, Install, AbandonLoad, NoReviews
<1>4. QED
  BY <1>1, <1>2, <1>3 DEF Next, vars

LEMMA KnownCoinsStep ==
    ASSUME TypeInv, KnownCoins, [Next]_vars
    PROVE  KnownCoins' /\ active \subseteq active'
<1>1. active \subseteq active' /\ \A c \in coins' : c.at \in active'
  <2>1. ASSUME NEW id \in CoinIds, NEW k \in Key, Deposit(id, k)
        PROVE  active \subseteq active' /\ \A c \in coins' : c.at \in active'
    BY <2>1 DEF Deposit, KnownCoins
  <2>2. ASSUME NEW id \in CoinIds, NEW p \in submitted, Accept(p, id)
        PROVE  active \subseteq active' /\ \A c \in coins' : c.at \in active'
    BY <2>2 DEF Accept, KnownCoins
  <2>3. QED
    BY <2>1, <2>2, ChainChanges DEF KnownCoins
<1>2. \A c \in op'.found : c.at \in active'
  BY <1>1, FoundStep DEF KnownCoins
<1>3. \A s \in ReviewSlots : reviews'[s] # None => \A c \in reviews'[s].utxos : c.at \in active'
  BY <1>1, ReviewStep DEF KnownCoins
<1>4. QED
  BY <1>1, <1>2, <1>3 DEF KnownCoins

\* observe (p2sh.ts:101) raises a count to the last key seen, not beyond it.
LEMMA ObserveIsTight ==
    ASSUME NEW j \in Journal, NEW used \in SUBSET Key, NEW b \in Branch,
           NEW i \in 0 .. MaxIndex - 1, i < Observe(j, used).count[b]
    PROVE  i < j.count[b] \/ \E k \in used : k[1] = b /\ i <= k[2]
<1> DEFINE n == j.count[b]
           S == {m \in n .. MaxIndex : \A k \in used : k[1] = b => k[2] < m}
<1>1. n \in 0 .. MaxIndex /\ Observe(j, used).count[b] = Raised(n, b, used)
  BY DEF Journal, Observe
<1>2. ASSUME ~ i < n, \A k \in used : k[1] = b => ~ i <= k[2]
      PROVE  FALSE
  <2>1. \A k \in used : k[1] = b => k[2] \in Int
    BY BoundsAreNatural DEF Key
  <2>2. i \in S
    BY <1>1, <1>2, <2>1, BoundsAreNatural
  <2>3. S \in SUBSET Nat
    BY <1>1, BoundsAreNatural
  <2>4. Least(S) <= i /\ Least(S) \in Nat
    BY <2>2, <2>3, LeastProperties
  <2>5. Least(S) = Raised(n, b, used)
    BY DEF Raised
  <2>6. i < Raised(n, b, used)
    BY <1>1
  <2>7. QED
    BY <2>4, <2>5, <2>6
<1>3. QED
  BY <1>2

\* How the receive addresses of the live journal grow: up to an address on the
\* chain, or by the one that issue allows.
LEMMA ReceiveStep ==
    ASSUME TypeInv, KnownCoins, [Next]_vars
    PROVE  \/ mem' \in Copies \cup {None}
           \/ /\ mem \in Journal /\ mem \in Copies
              /\ \A k \in mem'.exposed : k[1] = Receive => k \in active \cup mem.exposed
              /\ \A i \in 0 .. MaxIndex - 1 : i < mem'.count[Receive] =>
                    \/ i < mem.count[Receive]
                    \/ \E k \in active \cup mem.exposed : k[1] = Receive /\ i <= k[2]
                    \/ i = mem.count[Receive] /\ GapOpen(mem, Receive)
<1> USE DEF TypeInv, TypeOK, Unlocked, At
<1>0. /\ mem # None => mem \in Journal
      /\ mem \in Journal => mem \in Copies
      /\ Receive \in Branch /\ Change \in Branch /\ Receive # Change
      /\ active \in SUBSET Key
  BY NoneIsNothing DEF Copies, Branch, Receive, Change
<1>1. CASE mem' \in Copies \cup {None}
  BY <1>1
<1>2. CASE SaveFails \/ SavePending \/ Confirm
  <2>1. mem \in Journal
    BY <1>0, <1>2 DEF SaveFails, SavePending, Confirm, Shape
  <2>2. mem'.exposed = mem.exposed /\ mem'.count = mem.count
    BY <1>2, <2>1 DEF SaveFails, SavePending, Confirm, StartSave, Cleared, Journal
  <2>3. QED
    BY <1>0, <2>1, <2>2
<1>3. ASSUME NEW used \in SUBSET Key, mem \in Journal, mem' = Observe(mem, used),
             \A k \in used : k[1] = Receive => k \in active \cup mem.exposed
      PROVE  /\ \A k \in mem'.exposed : k[1] = Receive => k \in active \cup mem.exposed
             /\ \A i \in 0 .. MaxIndex - 1 : i < mem'.count[Receive] =>
                    \/ i < mem.count[Receive]
                    \/ \E k \in active \cup mem.exposed : k[1] = Receive /\ i <= k[2]
  <2>1. mem'.exposed = mem.exposed \cup used
    BY <1>3, ObserveProperties
  <2>2. \A i \in 0 .. MaxIndex - 1 : i < mem'.count[Receive] =>
            i < mem.count[Receive] \/ \E k \in used : k[1] = Receive /\ i <= k[2]
    BY <1>0, <1>3, ObserveIsTight
  <2>3. QED
    BY <1>3, <2>1, <2>2
<1>4. CASE Scan
  <2>1. mem \in Journal
    BY <1>0, <1>4 DEF Scan, Shape
  <2>2. Found(mem) \in SUBSET Key /\ Found(mem) \subseteq active \cup mem.exposed
    BY <2>1 DEF Found, Journal
  <2>3. mem' = mem \/ mem' = Observe(mem, Found(mem))
    BY <1>4 DEF Scan
  <2>4. QED
    BY <1>0, <1>3, <2>1, <2>2, <2>3
<1>5. CASE Retire
  <2>1. mem \in Journal
    BY <1>0, <1>5 DEF Retire, Shape
  <2>2. Signers(op.found) \in SUBSET Key /\ <<Change, op.change>> \in Key
    BY <1>5, SignersType DEF Retire, OpType, Shape, Key, Branch
  <2>3. Signers(op.found) \subseteq active
    BY DEF Signers, KnownCoins
  <2>4. mem' = Observe(mem, Signers(op.found) \cup {<<Change, op.change>>})
    BY <1>5 DEF Retire, StartSave
  <2>5. \A k \in Signers(op.found) \cup {<<Change, op.change>>} :
            k[1] = Receive => k \in active \cup mem.exposed
    BY <1>0, <2>3
  <2>6. QED
    BY <1>0, <1>3, <2>1, <2>2, <2>4, <2>5
<1>6. ASSUME NEW b \in Branch, mem \in Journal, GapOpen(mem, b), mem' = Issue(mem, b)
      PROVE  /\ mem'.exposed = mem.exposed
             /\ \A i \in 0 .. MaxIndex - 1 : i < mem'.count[Receive] =>
                    \/ i < mem.count[Receive]
                    \/ i = mem.count[Receive] /\ GapOpen(mem, Receive)
  <2>1. mem'.exposed = mem.exposed /\ mem'.count = [mem.count EXCEPT ![b] = @ + 1]
    BY <1>6 DEF Issue, Journal
  <2>2. CASE b = Receive
    <3>1. mem'.count[Receive] = mem.count[Receive] + 1 /\ mem.count[Receive] \in Nat
      BY <1>0, <1>6, <2>1, <2>2, BoundsAreNatural DEF Journal
    <3>2. QED
      BY <1>6, <2>1, <2>2, <3>1, BoundsAreNatural
  <2>3. CASE b # Receive
    BY <1>0, <1>6, <2>1, <2>3 DEF Journal
  <2>4. QED
    BY <2>2, <2>3
<1>7. CASE IssueReceive \/ ReserveChange
  <2>1. mem \in Journal
    BY <1>0, <1>7 DEF IssueReceive, ReserveChange, Shape
  <2>2. mem' = mem \/ \E b \in Branch : GapOpen(mem, b) /\ mem' = Issue(mem, b)
    BY <1>0, <1>7 DEF IssueReceive, ReserveChange, StartSave
  <2>3. QED
    BY <1>0, <1>6, <2>1, <2>2
<1>8. UNCHANGED mem \/ Lock \/ (\E w \in BOOLEAN : Stop(w)) \/ (\E f \in Flows : Install(f))
         => mem' \in Copies \cup {None}
  BY DEF Copies, Lock, Stop, Install
<1>9. QED
  BY <1>1, <1>2, <1>4, <1>5, <1>7, <1>8, LiveChanges

\* Between two used addresses with a bridge to the later one, every index has one.
LEMMA BridgedBelow ==
    ASSUME active \in SUBSET Key,
           \A k \in active : k[1] = Receive => Bridged(k[2]),
           NEW k \in active, k[1] = Receive, NEW i \in Nat, i <= k[2]
    PROVE  Bridged(i)
<1> DEFINE S == {l[2] : l \in {l \in active : l[1] = Receive /\ i <= l[2]}}
<1>1. \A l \in active : l[2] \in Nat
  BY BoundsAreNatural DEF Key
<1>2. S \in SUBSET Nat /\ S # {}
  BY <1>1
<1> HIDE DEF S
<1>3. Least(S) \in S /\ \A m \in S : Least(S) <= m
  BY <1>2, LeastProperties
<1>4. PICK l \in active : l[1] = Receive /\ i <= l[2] /\ l[2] = Least(S)
  BY <1>3 DEF S
<1>5. CASE l[2] < Gap
  BY <1>1, <1>4, <1>5, BoundsAreNatural DEF Bridged
<1>6. CASE ~ l[2] < Gap
  <2>1. PICK m \in active : m[1] = Receive /\ m[2] < l[2] /\ l[2] <= m[2] + Gap
    BY <1>4, <1>6 DEF Bridged
  <2>2. m[2] < i
    <3>1. SUFFICES ASSUME i <= m[2] PROVE FALSE
      BY <1>1
    <3>2. m[2] \in S
      BY <2>1, <3>1 DEF S
    <3>3. QED
      BY <1>1, <1>3, <1>4, <2>1, <3>2
  <2>3. i <= m[2] + Gap
    BY <1>1, <1>4, <2>1, BoundsAreNatural
  <2>4. QED
    BY <2>1, <2>2, <2>3 DEF Bridged
<1>7. QED
  BY <1>5, <1>6

LEMMA DiscoveryStep ==
    ASSUME IInv, [Next]_vars
    PROVE  Discovery'
<1>0. /\ TypeInv /\ KnownCoins /\ AddressesBridged /\ ChangeIsAccepted
      /\ ExposedIsIssued /\ active \in SUBSET Key
  BY DEF IInv, Discovery, TypeInv, TypeOK
<1>1. KnownCoins' /\ active \subseteq active'
  BY <1>0, KnownCoinsStep
<1>2. \A i : Bridged(i) => Bridged(i)'
  BY <1>1 DEF Bridged
<1>3. \A j \in Copies' : j \in Copies \/ (j = mem' /\ j # None)
  BY <1>0, CopiesStep DEF Copies
<1>4. \A j \in Copies' : \A k \in j.exposed : k[1] = Receive => k \in active'
  BY <1>0, <1>1, <1>3, ReceiveStep DEF AddressesBridged
<1>5. ASSUME NEW j \in Copies', NEW i \in 0 .. MaxIndex - 1, i < j.count[Receive]
      PROVE  Bridged(i)
  <2>1. CASE j \in Copies
    BY <1>0, <1>5, <2>1 DEF AddressesBridged
  <2>2. CASE j = mem' /\ j \notin Copies
    <3>1. mem \in Journal /\ mem \in Copies
      BY <1>0, <1>3, <2>2, ReceiveStep
    <3>2. CASE i < mem.count[Receive]
      BY <1>0, <3>1, <3>2 DEF AddressesBridged
    <3>3. ASSUME NEW k \in active \cup mem.exposed, k[1] = Receive, i <= k[2]
          PROVE  Bridged(i)
      <4>1. k \in active
        BY <1>0, <3>1, <3>3 DEF AddressesBridged
      <4>2. i \in Nat
        OBVIOUS
      <4>3. QED
        BY <1>0, <3>3, <4>1, <4>2, BridgedBelow DEF AddressesBridged
    <3>4. CASE i = mem.count[Receive] /\ GapOpen(mem, Receive)
      BY <1>0, <3>1, <3>4 DEF GapOpen, Bridged, AddressesBridged, ExposedIsIssued
    <3>5. QED
      BY <1>0, <1>3, <1>5, <2>2, <3>2, <3>3, <3>4, ReceiveStep
  <2>3. QED
    BY <1>3, <2>1, <2>2
<1>6. \A i \in handed' : Bridged(i)
  <2>1. mem \in Journal => mem \in Copies
    BY NoneIsNothing DEF Copies
  <2>2. QED
    BY <1>0, <2>1, HandedStep DEF AddressesBridged
<1>7. \A k \in active' : k[1] = Receive => Bridged(k[2])
  <2>1. ASSUME NEW id \in CoinIds, NEW k \in Key, Deposit(id, k)
        PROVE  active' = active \cup {k} /\ (k[1] = Receive => Bridged(k[2]))
    BY <1>0, <2>1 DEF Deposit, AddressesBridged
  <2>2. ASSUME NEW id \in CoinIds, NEW p \in submitted, Accept(p, id)
        PROVE  active' \subseteq active \cup {<<Change, p.change>>}
    BY <2>2 DEF Accept
  <2>3. QED
    BY <1>0, <2>1, <2>2, ChainChanges DEF AddressesBridged, Receive, Change
<1>8. ChangeIsAccepted'
  <2>1. accepted \subseteq accepted'
    BY HistoryChanges DEF Accept
  <2>2. ASSUME NEW id \in CoinIds, NEW k \in Key, Deposit(id, k)
        PROVE  active' = active \cup {k} /\ (k \in active \/ k[1] = Receive)
    BY <2>2 DEF Deposit
  <2>3. ASSUME NEW id \in CoinIds, NEW p \in submitted, Accept(p, id)
        PROVE  active' \subseteq active \cup {<<Change, p.change>>} /\ p \in accepted'
    BY <2>3 DEF Accept
  <2>4. QED
    BY <1>0, <2>1, <2>2, <2>3, ChainChanges DEF ChangeIsAccepted, Receive, Change
<1>9. QED
  BY <1>1, <1>2, <1>4, <1>5, <1>6, <1>7, <1>8 DEF Discovery, AddressesBridged

LEMMA IInvInit == Init => IInv
<1> USE DEF Init
<1>1. Init => TypeInv
  BY TypeInit
<1>2. Init => Copies = {EmptyJournal} \ {None}
  BY DEF Copies, NoLoads, NoLoad, Quiet
<1>3. Init => Discovery
  BY <1>2 DEF Discovery, KnownCoins, AddressesBridged, ChangeIsAccepted, NoReviews, EmptyJournal,
              Receive, Branch, Idle
<1>4. QED
  BY <1>1, <1>2, <1>3
     DEF IInv, LoadingAlone, StoredAlone, PaymentsAreSigned, RetirementHolds, CommitHolds, SavingFor,
         RetiredBeforeSigned, ChangeNeverShared, SubmittedIsJournaled, ExposedIsIssued, EmptyJournal,
         NoLoads, Idle

LEMMA IInvStep ==
    ASSUME OneLoader, IInv, [Next]_vars
    PROVE  IInv'
<1>1. TypeInv'
  BY TypeStep DEF IInv
<1>2. LoadingAlone' /\ StoredAlone'
  BY LoadingStep, StoredStep DEF IInv
<1>3. QED
  BY <1>1, <1>2, PaymentsStep, RetirementStep, CommitStep, SafetyStep, DiscoveryStep DEF IInv

\* Everything the invariant says (P2shAccount) is true in every reachable
\* state, for every value of the bounds.
THEOREM Invariance ==
    ASSUME OneLoader
    PROVE  Spec => []IInv
<1>1. Init => IInv
  BY IInvInit
<1>2. IInv /\ [Next]_vars => IInv'
  BY IInvStep
<1>3. QED
  BY <1>1, <1>2, PTL DEF Spec

(***************************************************************************)
(* Theorems                                                                *)
(***************************************************************************)

\* The end of a scan (p2sh.ts:106-120) exists and lies behind every key in use that
\* has a bridge.
LEMMA ScanEndProperties ==
    ASSUME NEW j \in Journal, NEW b \in Branch, active \in SUBSET Key
    PROVE  /\ ScanEnd(j, b) \in Nat
           /\ j.count[b] <= ScanEnd(j, b) /\ Gap <= ScanEnd(j, b)
           /\ \A k \in InUse(j, b) : k[2] < ScanEnd(j, b) => k[2] + Gap < ScanEnd(j, b)
<1> DEFINE S == {n \in j.count[b] .. MaxIndex + Gap + 1 :
                   n >= Gap /\ \A k \in InUse(j, b) : k[2] < n => k[2] + Gap < n}
<1>1. j.count[b] \in 0 .. MaxIndex /\ InUse(j, b) \in SUBSET Key
  BY DEF Journal, InUse
<1>2. \A k \in InUse(j, b) : k[2] \in Nat /\ k[2] < MaxIndex
  BY <1>1, BoundsAreNatural DEF Key
<1>3. MaxIndex + Gap + 1 \in S
  BY <1>1, <1>2, BoundsAreNatural
<1>4. S \in SUBSET Nat
  BY <1>1, BoundsAreNatural
<1>5. Least(S) \in S
  BY <1>3, <1>4, LeastProperties
<1>6. ScanEnd(j, b) \in S
  BY <1>5 DEF ScanEnd
<1>7. QED
  BY <1>1, <1>4, <1>6, BoundsAreNatural

\* A scan of any copy passes every receive address on the chain.
LEMMA ReceiveIsFound ==
    ASSUME IInv, NEW j \in Copies, NEW k \in active, k[1] = Receive
    PROVE  k[2] < ScanEnd(j, Receive)
<1> DEFINE n == ScanEnd(j, Receive)
           S == {l[2] : l \in {l \in active : l[1] = Receive /\ n <= l[2]}}
<1>0. /\ AddressesBridged /\ ExposedIsIssued /\ active \in SUBSET Key
      /\ j \in Journal /\ Receive \in Branch
  BY DEF IInv, Discovery, TypeInv, TypeOK, Copies, Branch
<1>1. \A l \in active : l[2] \in Nat
  BY <1>0, BoundsAreNatural DEF Key
<1>2. /\ n \in Nat /\ Gap <= n /\ j.count[Receive] <= n
      /\ \A l \in InUse(j, Receive) : l[2] < n => l[2] + Gap < n
  BY <1>0, ScanEndProperties
<1> HIDE DEF n
<1>3. SUFFICES ASSUME n <= k[2] PROVE FALSE
  BY <1>1, <1>2 DEF n
<1>4. S \in SUBSET Nat /\ S # {}
  BY <1>1, <1>3
<1> HIDE DEF S
<1>5. Least(S) \in S /\ \A m \in S : Least(S) <= m
  BY <1>4, LeastProperties
<1>6. PICK l \in active : l[1] = Receive /\ n <= l[2] /\ l[2] = Least(S)
  BY <1>5 DEF S
<1>7. PICK m \in active : m[1] = Receive /\ m[2] < l[2] /\ l[2] <= m[2] + Gap
  <2>1. Bridged(l[2])
    BY <1>0, <1>6 DEF AddressesBridged
  <2>2. ~ l[2] < Gap
    BY <1>1, <1>2, <1>6, BoundsAreNatural
  <2>3. QED
    BY <2>1, <2>2 DEF Bridged
<1>8. CASE n <= m[2]
  <2>1. m[2] \in S
    BY <1>7, <1>8 DEF S
  <2>2. QED
    BY <1>1, <1>5, <1>6, <1>7, <2>1
<1>9. CASE m[2] < n
  <2>1. m \in InUse(j, Receive)
    BY <1>7 DEF InUse
  <2>2. QED
    BY <1>1, <1>2, <1>6, <1>7, <1>9, <2>1, BoundsAreNatural
<1>10. QED
  BY <1>1, <1>2, <1>8, <1>9

\* The discovery scan (p2sh.ts:106) of any journal a session can start from, however
\* old, reaches every unspent output: nothing the account owns is lost to a crash.
THEOREM CoinsStayFound ==
    ASSUME OneLoader
    PROVE  Spec => []EveryCoinIsFound
<1>1. ASSUME IInv, NEW c \in coins, NEW j \in Copies
      PROVE  c.at[2] < ScanEnd(j, c.at[1])
  <2>0. /\ j \in Journal /\ active \in SUBSET Key /\ coins \in SUBSET Coin
        /\ KnownCoins /\ ChangeIsAccepted /\ PaymentsAreSigned
    BY <1>1 DEF IInv, TypeInv, TypeOK, Copies, Discovery
  <2>1. c.at \in active
    BY <2>0 DEF KnownCoins
  <2>2. CASE c.at[1] = Receive
    BY <1>1, <2>1, <2>2, ReceiveIsFound
  <2>3. CASE c.at[1] = Change
    <3>1. PICK p \in accepted : p.change = c.at[2]
      BY <2>0, <2>1, <2>3 DEF ChangeIsAccepted
    <3>2. c.at = <<Change, p.change>>
      BY <2>0, <2>1, <2>3, <3>1 DEF Key
    <3>3. c.at \in j.exposed
      BY <1>1, <2>0, <3>2 DEF IInv, PaymentsAreSigned, RetiredBeforeSigned, KeysOf
    <3>4. c.at[2] < j.count[Change]
      BY <1>1, <2>3, <3>3 DEF IInv, ExposedIsIssued
    <3>5. Change \in Branch /\ j.count[Change] \in 0 .. MaxIndex /\ c.at[2] \in 0 .. MaxIndex - 1
      BY <2>0, <2>1 DEF Journal, Branch, Key
    <3>6. ScanEnd(j, Change) \in Nat /\ j.count[Change] <= ScanEnd(j, Change)
      BY <2>0, <3>5, ScanEndProperties
    <3>7. QED
      BY <2>3, <3>4, <3>5, <3>6, BoundsAreNatural
  <2>4. c.at[1] \in Branch
    BY <2>0, <2>1 DEF Key
  <2>5. QED
    BY <2>2, <2>3, <2>4 DEF Branch
<1>2. IInv => EveryCoinIsFound
  BY <1>1 DEF EveryCoinIsFound
<1>3. QED
  BY <1>2, Invariance, PTL

\* Durable retirement before signing (p2sh.ts:315): no crash, lock or failed
\* write brings back a journal that would reuse the keys of a signed payment.
THEOREM SignedKeysStayRetired ==
    ASSUME OneLoader
    PROVE  Spec => []RetiredBeforeSigned
<1>1. IInv => RetiredBeforeSigned
  BY DEF IInv
<1>2. QED
  BY <1>1, Invariance, PTL

\* A change address appears in one signed payment only (p2sh.ts:329).
THEOREM ChangeIsUsedOnce ==
    ASSUME OneLoader
    PROVE  Spec => []ChangeNeverShared
<1>1. IInv => ChangeNeverShared
  BY DEF IInv
<1>2. QED
  BY <1>1, Invariance, PTL

\* Durable before any broadcast (p2sh.ts:210, 320): a submitted payment is saved
\* in every journal a session can start from until it is accepted.
THEOREM SubmittedStaysSaved ==
    ASSUME OneLoader
    PROVE  Spec => []SubmittedIsJournaled
<1>1. IInv => SubmittedIsJournaled
  BY DEF IInv
<1>2. QED
  BY <1>1, Invariance, PTL

\* validateP2shState (p2sh.ts:38) accepts every journal that is ever saved,
\* restored or held: the account cannot lock itself out.
THEOREM JournalsStayValid ==
    ASSUME OneLoader
    PROVE  Spec => []JournalsAreValid
<1>1. IInv => JournalsAreValid
  BY DEF IInv, ExposedIsIssued, PaymentsAreSigned, RetiredBeforeSigned, JournalsAreValid
<1>2. QED
  BY <1>1, Invariance, PTL

LEMMA OnePaymentStep ==
    ASSUME IInv, [Next]_vars
    PROVE  [OnePayment!Next]_<<{p.id : p \in submitted}, {p.id : p \in accepted}>>
<1> DEFINE sent == {p.id : p \in submitted}
           settled == {p.id : p \in accepted}
<1>0. /\ accepted \subseteq submitted /\ submitted \subseteq signed /\ signed \subseteq Payment
      /\ \A p, q \in signed : p.id = q.id => p = q
  BY DEF IInv, TypeInv, TypeOK, PaymentsAreSigned
<1>1. CASE UNCHANGED <<submitted, accepted>>
  BY <1>1
<1>2. CASE Post
  <2>1. /\ mem \in Copies /\ mem.pending = op.pay /\ op.pay \in signed
        /\ submitted' = submitted \cup {op.pay} /\ UNCHANGED accepted
    BY <1>2 DEF IInv, TypeInv, Shape, CommitHolds, PaymentsAreSigned, Post, At, chainVars, Copies
  <2>2. CASE op.pay \in submitted
    BY <2>1, <2>2
  <2>3. CASE op.pay \notin submitted
    <3>1. submitted = accepted
      BY <1>0, <2>1, <2>3 DEF IInv, SubmittedIsJournaled
    <3>2. op.pay.id \in PaymentIds \ sent
      BY <1>0, <2>1, <2>3 DEF Payment
    <3>3. sent = settled /\ sent' = sent \cup {op.pay.id} /\ settled' = settled
      BY <2>1, <3>1
    <3>4. QED
      BY <3>2, <3>3 DEF OnePayment!Next, OnePayment!Send
  <2>4. QED
    BY <2>2, <2>3
<1>3. ASSUME NEW p \in submitted, NEW id \in CoinIds, Accept(p, id)
      PROVE  OnePayment!Settle
  <2>1. p \in submitted \ accepted /\ accepted' = accepted \cup {p} /\ UNCHANGED submitted
    BY <1>3 DEF Accept, historyVars
  <2>2. p.id \in sent \ settled
    BY <1>0, <2>1
  <2>3. settled' = settled \cup {p.id} /\ sent' = sent
    BY <2>1
  <2>4. QED
    BY <2>2, <2>3 DEF OnePayment!Settle
<1>4. QED
  <2>1. UNCHANGED accepted \/ ~Post
    BY DEF Post, chainVars
  <2>2. CASE \E p \in submitted, id \in CoinIds : Accept(p, id)
    BY <1>3, <2>2 DEF OnePayment!Next
  <2>3. QED
    BY <1>1, <1>2, <2>1, <2>2, HistoryChanges

\* The controller implements one payment at a time: no second payment reaches
\* the network before the first is accepted, over any number of crashes.
THEOREM OnePaymentAtATime ==
    ASSUME OneLoader
    PROVE  Spec => PaysOneAtATime
<1>1. Init => OnePayment!Init
  BY DEF Init, OnePayment!Init
<1>2. IInv /\ [Next]_vars => [OnePayment!Next]_<<{p.id : p \in submitted}, {p.id : p \in accepted}>>
  BY OnePaymentStep
<1>3. QED
  BY <1>1, <1>2, Invariance, PTL DEF Spec, PaysOneAtATime, OnePayment!Spec
=============================================================================
