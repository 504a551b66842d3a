-------------------------- MODULE ApprovalsProofs --------------------------
(***************************************************************************)
(* Theorems about WalletApprovals, for every number of sites, requests,     *)
(* windows, panels and approvals.                                           *)
(*                                                                          *)
(* Whatever becomes of a panel disposes of its reviews: each one stays      *)
(* shown, has been answered, or is denied.  The inductive invariant is the  *)
(* conjunction of the properties with what a panel that is off shows and    *)
(* whose request a pending approval belongs to.                             *)
(***************************************************************************)
EXTENDS WalletApprovals, FiniteSetTheorems, SequenceTheorems, TLAPS

RequestType == [origin : Origins, window : Windows \cup {None}] \cup {None}
ApprovalType == [state : {"unused", "pending", "approved", "denied"},
                 request : Requests \cup {None},
                 generation : 0 .. MaxGeneration, inPanel : BOOLEAN]
PanelType == [on : BOOLEAN, alive : BOOLEAN, window : Windows \cup {None},
              queue : Seq(Ids), active : Ids \cup {None}]
DecisionType == [id : Ids, approved : BOOLEAN, from : Panels \cup {None}]

\* A panel that is off shows nothing.
Orderly(rec) ==
    /\ rec \in PanelType /\ IsInjective(rec.queue)
    /\ ~rec.on => rec.queue = <<>> /\ rec.active = None

\* Nothing waits behind an empty place.
Busy(rec) == rec.queue = <<>> \/ rec.active # None

\* What is shown and not answered stays shown or is denied.
Disposes(rec, gone, out) ==
    /\ Orderly(out.panel) /\ out.denied \subseteq Ids
    /\ Shown(out.panel) \subseteq Shown(rec) \ gone
    /\ Shown(rec) \ gone \subseteq Shown(out.panel) \cup out.denied
    /\ Shown(out.panel) # {} => out.panel.window = rec.window
    /\ Busy(rec) => Busy(out.panel)

(***************************************************************************)
(* The inductive invariant                                                 *)
(***************************************************************************)

PanelsAreOrderly == \A p \in Panels : Orderly(panel[p])

\* End waits for the approvals of its request.
PendingAreAsked ==
    \A id \in Pending : approval[id].request \in Requests /\ request[approval[id].request] # None

IInv ==
    /\ TypeOK /\ PanelsAreOrderly /\ PendingAreAsked
    /\ ApprovalsEndWithSession /\ PanelsShowPending /\ NoApprovalIsLost
    /\ QueuesAdvance /\ ShownInItsWindow

(***************************************************************************)
(* Queues                                                                  *)
(***************************************************************************)

\* The places of the kept positions are 1 to their number.
LEMMA PlacesAreDense ==
    ASSUME NEW n \in Nat, NEW kept \in SUBSET (1 .. n)
    PROVE  /\ Cardinality(kept) \in Nat
           /\ \A k \in 1 .. Cardinality(kept) :
                \E i \in kept : Cardinality({j \in kept : j <= i}) = k
           /\ \A i \in kept : Cardinality({j \in kept : j <= i}) \in 1 .. Cardinality(kept)
           /\ \A i, k \in kept :
                Cardinality({j \in kept : j <= i}) = Cardinality({j \in kept : j <= k}) => i = k
<1> DEFINE upTo(i) == {j \in kept : j <= i}
           place == [i \in kept |-> Cardinality(upTo(i))]
           c == Cardinality(kept)
<1>1. IsFiniteSet(kept) /\ c \in Nat
  <2>1. 1 \in Int /\ n \in Int
    OBVIOUS
  <2>2. IsFiniteSet(1 .. n)
    BY <2>1, FS_Interval
  <2>3. QED
    BY <2>2, FS_Subset, FS_CardinalityType
<1>2. \A i \in kept : /\ IsFiniteSet(upTo(i)) /\ Cardinality(upTo(i)) \in Nat
                      /\ Cardinality(upTo(i)) <= c /\ Cardinality(upTo(i)) # 0
  <2> TAKE i \in kept
  <2>1. upTo(i) \in SUBSET kept /\ i \in upTo(i)
    OBVIOUS
  <2>2. IsFiniteSet(upTo(i)) /\ Cardinality(upTo(i)) <= c /\ Cardinality(upTo(i)) \in Nat
    BY <1>1, <2>1, FS_Subset, FS_CardinalityType
  <2>3. QED
    BY <2>1, <2>2, FS_EmptySet
<1>3. place \in [kept -> 1 .. c]
  BY <1>1, <1>2
<1>4. \A i, k \in kept : i < k => place[i] # place[k]
  <2> SUFFICES ASSUME NEW i \in kept, NEW k \in kept, i < k, place[i] = place[k]
               PROVE  FALSE
    OBVIOUS
  <2>1. i \in Int /\ k \in Int /\ \A j \in kept : j \in Int
    OBVIOUS
  <2>2. ~(k <= i) /\ k <= k /\ \A j \in kept : j <= i => j <= k
    BY <2>1
  <2>3. upTo(i) \in SUBSET upTo(k) /\ k \in upTo(k) /\ k \notin upTo(i)
    BY ONLY <2>2, k \in kept, i \in kept
  <2>4. IsFiniteSet(upTo(k)) /\ Cardinality(upTo(i)) = Cardinality(upTo(k))
    BY <1>2
  <2>5. upTo(k) = upTo(i)
    BY <2>3, <2>4, FS_Subset
  <2>6. QED
    BY <2>3, <2>5
<1>5. place \in Injection(kept, 1 .. c)
  <2>1. \A i, k \in kept : place[i] = place[k] => i = k
    BY <1>4
  <2>2. QED
    BY <1>3, <2>1 DEF Injection, IsInjective
<1>6. IsFiniteSet(1 .. c) /\ Cardinality(1 .. c) = c
  BY <1>1, FS_Interval
<1>7. place \in Surjection(kept, 1 .. c)
  BY <1>5, <1>6, FS_Injection
<1>8. \A k \in 1 .. c : \E i \in kept : place[i] = k
  BY <1>7 DEF Surjection
<1>9. \A i, k \in kept : place[i] = place[k] => i = k
  BY <1>4
<1>10. QED
  BY <1>1, <1>3, <1>8, <1>9

\* Filtering a queue keeps its members but those, each once.
LEMMA WithoutProperties ==
    ASSUME NEW q \in Seq(Ids), IsInjective(q), NEW gone
    PROVE  /\ Without(q, gone) \in Seq(Ids) /\ IsInjective(Without(q, gone))
           /\ Range(Without(q, gone)) = Range(q) \ gone
<1> DEFINE kept == {i \in DOMAIN q : q[i] \notin gone}
           place(i) == Cardinality({j \in kept : j <= i})
           at(k) == CHOOSE i \in kept : place(i) = k
           c == Cardinality(kept)
           w == Without(q, gone)
<1> HIDE DEF at
<1>1. Len(q) \in Nat /\ DOMAIN q = 1 .. Len(q) /\ \A i \in DOMAIN q : q[i] \in Ids
  BY LenProperties
<1>2. /\ c \in Nat /\ \A k \in 1 .. c : \E i \in kept : place(i) = k
      /\ \A i \in kept : place(i) \in 1 .. c
      /\ \A i, k \in kept : place(i) = place(k) => i = k
  BY <1>1, PlacesAreDense
<1>3. \A k \in 1 .. c : at(k) \in kept /\ place(at(k)) = k
  BY <1>2 DEF at
<1>4. w = [k \in 1 .. c |-> q[at(k)]]
  BY DEF Without, at
<1>5. \A k \in 1 .. c : w[k] = q[at(k)] /\ w[k] \in Ids
  BY <1>1, <1>3, <1>4
<1>6. w \in Seq(Ids) /\ DOMAIN w = 1 .. c
  BY <1>2, <1>4, <1>5
<1>7. IsInjective(w)
  <2> SUFFICES ASSUME NEW a \in 1 .. c, NEW b \in 1 .. c, w[a] = w[b]
               PROVE  a = b
    BY <1>6 DEF IsInjective
  <2>1. at(a) = at(b)
    BY <1>3, <1>5 DEF IsInjective
  <2>2. QED
    BY <2>1, <1>3
<1>8. ASSUME NEW i \in kept
      PROVE  \E k \in 1 .. c : at(k) = i
  <2>1. place(i) \in 1 .. c /\ at(place(i)) \in kept /\ place(at(place(i))) = place(i)
    BY <1>2, <1>3
  <2>2. QED
    BY <1>2, <2>1
<1>9. \A k \in 1 .. c : w[k] \in Range(q) \ gone
  BY <1>3, <1>5 DEF Range
<1>10. \A i \in kept : \E k \in 1 .. c : w[k] = q[i]
  BY <1>5, <1>8
<1>11. Range(w) = Range(q) \ gone
  BY <1>6, <1>9, <1>10 DEF Range
<1>12. QED
  BY <1>6, <1>7, <1>11

LEMMA AppendedQueue ==
    ASSUME NEW q \in Seq(Ids), IsInjective(q), NEW id \in Ids \ Range(q)
    PROVE  /\ Append(q, id) \in Seq(Ids) /\ IsInjective(Append(q, id))
           /\ Range(Append(q, id)) = Range(q) \cup {id}
<1>1. Len(q) \in Nat /\ DOMAIN q = 1 .. Len(q)
  BY LenProperties
<1>2. /\ Append(q, id) \in Seq(Ids) /\ DOMAIN Append(q, id) = 1 .. Len(q) + 1
      /\ \A i \in 1 .. Len(q) : Append(q, id)[i] = q[i]
      /\ Append(q, id)[Len(q) + 1] = id
  BY AppendProperties, LenProperties
<1>3. \A i \in 1 .. Len(q) + 1 : i \in 1 .. Len(q) \/ i = Len(q) + 1
  BY <1>1
<1>4. \A i \in 1 .. Len(q) : q[i] # id
  BY <1>1 DEF Range
<1>5. IsInjective(Append(q, id))
  BY <1>1, <1>2, <1>3, <1>4 DEF IsInjective
<1>6. Range(Append(q, id)) = Range(q) \cup {id}
  BY <1>1, <1>2, <1>3 DEF Range
<1>7. QED
  BY <1>2, <1>5, <1>6

LEMMA ShiftedQueue ==
    ASSUME NEW q \in Seq(Ids), IsInjective(q), q # <<>>
    PROVE  /\ Head(q) \in Ids /\ Tail(q) \in Seq(Ids) /\ IsInjective(Tail(q))
           /\ Range(q) = {Head(q)} \cup Range(Tail(q))
<1>1. /\ Len(q) \in Nat \ {0} /\ DOMAIN q = 1 .. Len(q)
      /\ Tail(q) \in Seq(Ids) /\ Len(Tail(q)) = Len(q) - 1
      /\ Head(q) \in Ids /\ Head(q) = q[1]
      /\ \A i \in 1 .. Len(q) - 1 : Tail(q)[i] = q[i + 1]
  BY LenProperties, EmptySeq, HeadTailProperties
<1>2. DOMAIN Tail(q) = 1 .. Len(q) - 1
  BY <1>1, LenProperties
<1>3. IsInjective(Tail(q))
  BY <1>1, <1>2 DEF IsInjective
<1>4. \A i \in 1 .. Len(q) : i = 1 \/ i - 1 \in 1 .. Len(q) - 1
  BY <1>1
<1>5. Range(q) = {Head(q)} \cup Range(Tail(q))
  <2>1. ASSUME NEW i \in 1 .. Len(q)
        PROVE  q[i] \in {Head(q)} \cup Range(Tail(q))
    <3>1. CASE i = 1
      BY <1>1, <3>1
    <3>2. CASE i - 1 \in 1 .. Len(q) - 1
      <4>1. q[i] = Tail(q)[i - 1]
        BY <1>1, <3>2
      <4>2. QED
        BY <1>2, <3>2, <4>1 DEF Range
    <3>3. QED
      BY <1>4, <3>1, <3>2
  <2>2. ASSUME NEW i \in 1 .. Len(q) - 1
        PROVE  Tail(q)[i] \in Range(q)
    <3>1. i + 1 \in 1 .. Len(q) /\ Tail(q)[i] = q[i + 1]
      BY <1>1
    <3>2. QED
      BY <1>1, <3>1 DEF Range
  <2>3. Head(q) \in Range(q)
    BY <1>1 DEF Range
  <2>4. QED
    BY <1>1, <1>2, <2>1, <2>2, <2>3 DEF Range
<1>6. QED
  BY <1>1, <1>3, <1>5

LEMMA EmptyQueue ==
    /\ <<>> \in Seq(Ids) /\ IsInjective(<<>>) /\ Range(<<>>) = {}
    /\ \A q \in Seq(Ids) : Range(q) = {} => q = <<>>
<1>1. <<>> \in Seq(Ids) /\ DOMAIN <<>> = {}
  BY EmptySeq, LenProperties
<1>2. \A q \in Seq(Ids) : q # <<>> => 1 \in DOMAIN q
  BY EmptySeq, LenProperties
<1>3. QED
  BY <1>1, <1>2 DEF IsInjective, Range

(***************************************************************************)
(* One panel                                                               *)
(***************************************************************************)

LEMMA OffIsOrderly == Orderly(Off) /\ Shown(Off) = {} /\ Busy(Off)
BY EmptyQueue DEF Off, Orderly, PanelType, Shown, Busy

LEMMA ShownAreIds ==
    ASSUME NEW rec, Orderly(rec)
    PROVE  Shown(rec) \subseteq Ids /\ (~rec.on => Shown(rec) = {})
<1>1. Range(rec.queue) \subseteq Ids /\ rec.active \in Ids \cup {None}
  BY RangeOfSeq DEF Orderly, PanelType
<1>2. QED
  BY <1>1, EmptyQueue DEF Shown, Orderly

LEMMA KeptPanel ==
    ASSUME NEW rec
    PROVE  Kept(rec).panel = rec
BY DEF Kept

LEMMA KeptDisposes ==
    ASSUME NEW rec, Orderly(rec)
    PROVE  Disposes(rec, {}, Kept(rec))
BY DEF Kept, Disposes

LEMMA DetachedDisposes ==
    ASSUME NEW rec, Orderly(rec), NEW gone
    PROVE  Disposes(rec, gone, Detached(rec)) /\ Busy(Detached(rec).panel)
BY OffIsOrderly, ShownAreIds DEF Detached, Disposes

\* The next review is shown: no place stays empty while others wait.
LEMMA AdvancedDisposes ==
    ASSUME NEW rec, Orderly(rec)
    PROVE  Disposes(rec, {}, Advanced(rec)) /\ Busy(Advanced(rec).panel)
<1>1. CASE ~rec.on \/ rec.active # None \/ rec.queue = <<>>
  BY <1>1, KeptDisposes DEF Advanced, Kept, Orderly, Busy
<1>2. CASE /\ rec.on /\ rec.active = None /\ rec.queue # <<>> /\ rec.alive
  <2> DEFINE next == [rec EXCEPT !.active = Head(rec.queue), !.queue = Tail(@)]
  <2>1. /\ rec \in PanelType /\ rec.queue \in Seq(Ids) /\ IsInjective(rec.queue)
    BY DEF Orderly, PanelType
  <2>2. /\ Head(rec.queue) \in Ids /\ Tail(rec.queue) \in Seq(Ids) /\ IsInjective(Tail(rec.queue))
        /\ Range(rec.queue) = {Head(rec.queue)} \cup Range(Tail(rec.queue))
    BY <1>2, <2>1, ShiftedQueue
  <2>3. /\ next \in PanelType /\ next.active = Head(rec.queue) /\ next.queue = Tail(rec.queue)
        /\ next.on /\ next.window = rec.window
    BY <1>2, <2>1, <2>2 DEF PanelType
  <2>4. next.active # None
    BY <2>2, <2>3, NoneIsNoName
  <2>5. Orderly(next) /\ Busy(next) /\ Shown(next) = Shown(rec)
    BY <1>2, <2>2, <2>3, <2>4 DEF Orderly, Busy, Shown
  <2>6. Advanced(rec) = [panel |-> next, denied |-> {}]
    BY <1>2 DEF Advanced, Kept
  <2> HIDE DEF next
  <2>7. QED
    BY <2>3, <2>5, <2>6 DEF Disposes
<1>3. CASE rec.on /\ rec.active = None /\ rec.queue # <<>> /\ ~rec.alive
  BY <1>3, DetachedDisposes DEF Advanced
<1>4. QED
  BY <1>1, <1>2, <1>3

\* One thing after the other.
LEMMA DisposesTwice ==
    ASSUME NEW rec, NEW gone, NEW one, NEW two,
           Disposes(rec, gone, one), Disposes(one.panel, {}, two)
    PROVE  Disposes(rec, gone, [panel |-> two.panel, denied |-> one.denied \cup two.denied])
BY DEF Disposes

\* Answered reviews leave the panel, the others do not.
LEMMA CancelledDisposes ==
    ASSUME NEW rec, Orderly(rec), NEW gone \in SUBSET Ids
    PROVE  Disposes(rec, gone, Cancelled(rec, gone))
<1> DEFINE q == Without(rec.queue, gone)
           left == [rec EXCEPT !.queue = q]
           free == [left EXCEPT !.active = None]
<1>1. /\ rec \in PanelType /\ rec.queue \in Seq(Ids) /\ IsInjective(rec.queue)
      /\ rec.active \in Ids \cup {None}
  BY DEF Orderly, PanelType
<1>2. q \in Seq(Ids) /\ IsInjective(q) /\ Range(q) = Range(rec.queue) \ gone
  BY <1>1, WithoutProperties
<1> HIDE DEF q
<1>3. /\ left \in PanelType /\ left.queue = q /\ left.active = rec.active
      /\ left.on = rec.on /\ left.window = rec.window
  BY <1>1, <1>2 DEF PanelType
<1>4. rec.queue = <<>> => q = <<>>
  BY <1>2, EmptyQueue
<1>5. Orderly(left)
  BY <1>2, <1>3, <1>4 DEF Orderly
<1>6. CASE rec.active \notin gone
  <2>1. Shown(left) = Shown(rec) \ gone
    BY <1>2, <1>3, <1>6 DEF Shown
  <2>2. Disposes(rec, gone, Kept(left))
    BY <1>3, <1>4, <1>5, <2>1 DEF Disposes, Kept, Busy
  <2>3. QED
    BY <1>6, <2>2 DEF Cancelled, q
<1>7. CASE rec.active \in gone
  <2>1. /\ free \in PanelType /\ free.queue = q /\ free.active = None
        /\ free.on = rec.on /\ free.window = rec.window
    BY <1>3 DEF PanelType
  <2>2. Orderly(free)
    BY <1>2, <1>4, <2>1 DEF Orderly
  <2>3. Shown(free) = Shown(rec) \ gone
    BY <1>2, <1>7, <2>1 DEF Shown
  <2>4. CASE rec.alive
    <3>1. Disposes(free, {}, Advanced(free)) /\ Busy(Advanced(free).panel)
      BY <2>2, AdvancedDisposes
    <3>2. Disposes(rec, gone, Advanced(free))
      BY <2>1, <2>3, <3>1 DEF Disposes
    <3>3. QED
      BY <1>7, <2>4, <3>2 DEF Cancelled, q
  <2>5. CASE ~rec.alive
    <3>1. Disposes(free, {}, Detached(free)) /\ Busy(Detached(free).panel)
      BY <2>2, DetachedDisposes
    <3>2. Disposes(rec, gone, Detached(free))
      BY <2>1, <2>3, <3>1 DEF Disposes
    <3>3. QED
      BY <1>7, <2>5, <3>2 DEF Cancelled, q
  <2>6. QED
    BY <2>4, <2>5
<1>8. QED
  BY <1>6, <1>7

\* The panel whose decision has been taken goes on.
LEMMA OnwardDisposes ==
    ASSUME NEW p \in Panels, Orderly(panel[p]), NEW d, NEW gone \in SUBSET Ids
    PROVE  /\ Disposes(panel[p], gone, Onward(p, d, gone))
           /\ p = d.from => Busy(Onward(p, d, gone).panel)
<1> DEFINE cancelled == Cancelled(panel[p], gone)
           advanced == Advanced(cancelled.panel)
           both == [panel |-> advanced.panel, denied |-> cancelled.denied \cup advanced.denied]
<1>1. Disposes(panel[p], gone, cancelled)
  BY CancelledDisposes
<1>2. CASE p # d.from
  BY <1>1, <1>2 DEF Onward
<1>3. CASE p = d.from
  <2>1. Orderly(cancelled.panel)
    BY <1>1 DEF Disposes
  <2> HIDE DEF cancelled
  <2>2. Disposes(cancelled.panel, {}, advanced) /\ Busy(advanced.panel)
    BY <2>1, AdvancedDisposes
  <2> HIDE DEF advanced
  <2>3. Disposes(panel[p], gone, both) /\ Busy(both.panel)
    BY <1>1, <2>2, DisposesTwice
  <2>4. Onward(p, d, gone) = both
    BY <1>3 DEF Onward, cancelled, advanced
  <2>5. QED
    BY <2>3, <2>4
<1>4. QED
  BY <1>2, <1>3

(***************************************************************************)
(* All panels                                                              *)
(***************************************************************************)

\* The parts of the invariant: the panels with the decisions that are being
\* processed, the approvals with their requests, the session.
PanelsInv ==
    /\ panel \in [Panels -> PanelType] /\ decisions \subseteq DecisionType
    /\ PanelsAreOrderly /\ PanelsShowPending /\ NoApprovalIsLost
    /\ QueuesAdvance /\ ShownInItsWindow

ApprovalsInv ==
    /\ request \in [Requests -> RequestType] /\ approval \in [Ids -> ApprovalType]
    /\ PendingAreAsked
    /\ \A a, b \in Pending : OriginOf(a) = OriginOf(b) => a = b

SessionInv ==
    /\ generation \in 0 .. MaxGeneration /\ unlocked \in BOOLEAN /\ expired \in BOOLEAN
    /\ ApprovalsEndWithSession

LEMMA IInvParts == IInv <=> PanelsInv /\ ApprovalsInv /\ SessionInv
<1>1. TypeOK => /\ panel \in [Panels -> PanelType] /\ decisions \subseteq DecisionType
                /\ request \in [Requests -> RequestType] /\ approval \in [Ids -> ApprovalType]
  BY DEF TypeOK, PanelType, DecisionType, RequestType, ApprovalType
<1>2. IInv => PanelsInv /\ ApprovalsInv /\ SessionInv
  BY <1>1 DEF IInv, TypeOK, PanelsInv, ApprovalsInv, SessionInv
<1>3. PanelsInv => \A p \in Panels : IsInjective(panel[p].queue)
  BY DEF PanelsInv, PanelsAreOrderly, Orderly
<1>4. PanelsInv /\ ApprovalsInv /\ SessionInv => TypeOK
  BY <1>3 DEF TypeOK, PanelsInv, ApprovalsInv, SessionInv, PanelType, DecisionType, RequestType,
        ApprovalType
<1>5. QED
  BY <1>2, <1>4 DEF IInv, PanelsInv, ApprovalsInv, SessionInv

\* What Panelwise does, from what is done to each panel.
LEMMA PanelwiseStep ==
    ASSUME NEW before \in [Panels -> PanelType], NEW gone, NEW outcome,
           \A p \in Panels : Disposes(before[p], gone, outcome[p]),
           NEW deciding \in SUBSET DecisionType,
           \A p \in Panels : Busy(outcome[p].panel) \/ \E d \in deciding : d.from = p,
           Panelwise(outcome, deciding)
    PROVE  /\ panel' = [p \in Panels |-> outcome[p].panel]
           /\ panel' \in [Panels -> PanelType] /\ decisions' \subseteq DecisionType
           /\ \A d \in deciding : \E e \in decisions' : e.id = d.id
           /\ \A p \in Panels : \A id \in outcome[p].denied : \E e \in decisions' : e.id = id
           /\ \A p \in Panels : Busy(panel'[p]) \/ \E e \in decisions' : e.from = p
<1> DEFINE refusal(id) == [id |-> id, approved |-> FALSE, from |-> None]
           left(d) == d.from # None /\ ~outcome[d.from].panel.on
           kept == {IF left(d) THEN [d EXCEPT !.from = None] ELSE d : d \in deciding}
           denied == UNION {outcome[p].denied : p \in Panels}
           refused == {refusal(id) : id \in denied}
<1>1. panel' = [p \in Panels |-> outcome[p].panel] /\ decisions' = kept \cup refused
  BY DEF Panelwise
<1>2. \A p \in Panels : Orderly(outcome[p].panel) /\ outcome[p].denied \subseteq Ids
  BY DEF Disposes
<1>3. panel' \in [Panels -> PanelType]
  BY <1>1, <1>2 DEF Orderly
<1>4. \A d \in deciding : /\ d \in DecisionType /\ [d EXCEPT !.from = None] \in DecisionType
                          /\ [d EXCEPT !.from = None].id = d.id
  BY DEF DecisionType
<1>5. kept \subseteq DecisionType /\ \A d \in deciding : \E e \in kept : e.id = d.id
  BY <1>4
<1>6. denied \subseteq Ids
  BY <1>2
<1>7. \A id \in Ids : refusal(id) \in DecisionType /\ refusal(id).id = id
  BY DEF DecisionType
<1> HIDE DEF denied, refusal
<1>8. refused \subseteq DecisionType /\ \A id \in denied : \E e \in refused : e.id = id
  BY <1>6, <1>7
<1>9. ASSUME NEW p \in Panels, ~Busy(outcome[p].panel)
      PROVE  \E e \in kept : e.from = p
  <2>1. outcome[p].panel.on /\ p # None
    BY <1>2, <1>9, NoneIsNoName DEF Orderly, Busy
  <2>2. PICK d \in deciding : d.from = p
    BY <1>9
  <2>3. ~left(d)
    BY <2>1, <2>2
  <2>4. QED
    BY <2>2, <2>3
<1> HIDE DEF kept, refused
<1>10. \A p \in Panels : outcome[p].denied \subseteq denied
  BY DEF denied
<1>11. \A p \in Panels : Busy(panel'[p]) \/ \E e \in decisions' : e.from = p
  BY <1>1, <1>9
<1>12. QED
  BY <1>1, <1>3, <1>5, <1>8, <1>10, <1>11

\* The panels' part of the invariant, from the panels as they are disposed of.
LEMMA PanelsStep ==
    ASSUME NEW before \in [Panels -> PanelType], NEW gone, NEW outcome,
           \A p \in Panels : Disposes(before[p], gone, outcome[p]),
           NEW deciding \in SUBSET DecisionType,
           \A p \in Panels : Busy(outcome[p].panel) \/ \E d \in deciding : d.from = p,
           Panelwise(outcome, deciding),
           \A p \in Panels : \A id \in Shown(before[p]) \ gone : id \in Pending' /\ approval'[id].inPanel,
           \A p, q \in Panels : p # q => Shown(before[p]) \cap Shown(before[q]) = {},
           \A p \in Panels : \A id \in Shown(before[p]) \ gone :
                request'[approval'[id].request].window = before[p].window,
           \A id \in Pending' : approval'[id].inPanel =>
                \/ \E p \in Panels : id \in Shown(before[p]) \ gone
                \/ \E d \in deciding : d.id = id
    PROVE  PanelsInv'
<1>1. /\ panel' = [p \in Panels |-> outcome[p].panel]
      /\ panel' \in [Panels -> PanelType] /\ decisions' \subseteq DecisionType
      /\ \A d \in deciding : \E e \in decisions' : e.id = d.id
      /\ \A p \in Panels : \A id \in outcome[p].denied : \E e \in decisions' : e.id = id
      /\ \A p \in Panels : Busy(panel'[p]) \/ \E e \in decisions' : e.from = p
  BY PanelwiseStep
<1>2. \A p \in Panels :
        /\ Orderly(panel'[p])
        /\ Shown(panel'[p]) \subseteq Shown(before[p]) \ gone
        /\ Shown(before[p]) \ gone \subseteq Shown(panel'[p]) \cup outcome[p].denied
        /\ Shown(panel'[p]) # {} => panel'[p].window = before[p].window
  BY <1>1 DEF Disposes
<1>3. PanelsAreOrderly'
  BY <1>2 DEF PanelsAreOrderly
<1>4. PanelsShowPending'
  <2>1. \A p \in Panels : Shown(panel'[p]) \subseteq {id \in Pending' : approval'[id].inPanel}
    BY <1>2
  <2>2. \A p, q \in Panels : p # q => Shown(panel'[p]) \cap Shown(panel'[q]) = {}
    BY <1>2
  <2>3. QED
    BY <2>1, <2>2 DEF PanelsShowPending, Shown
<1>5. NoApprovalIsLost'
  <2> SUFFICES ASSUME NEW id \in Pending', approval'[id].inPanel
               PROVE  \/ \E p \in Panels : panel'[p].on /\ id \in Shown(panel'[p])
                      \/ \E d \in decisions' : d.id = id
    BY DEF NoApprovalIsLost, Shown
  <2>1. CASE \E p \in Panels : id \in Shown(before[p]) \ gone
    <3>1. PICK p \in Panels : id \in Shown(before[p]) \ gone
      BY <2>1
    <3>2. CASE id \in Shown(panel'[p])
      BY <1>2, <3>2, ShownAreIds
    <3>3. CASE id \in outcome[p].denied
      BY <1>1, <3>3
    <3>4. QED
      BY <1>2, <3>1, <3>2, <3>3
  <2>2. CASE \E d \in deciding : d.id = id
    BY <1>1, <2>2
  <2>3. QED
    BY <2>1, <2>2
<1>6. QueuesAdvance'
  BY <1>1 DEF QueuesAdvance, Busy
<1>7. ShownInItsWindow'
  BY <1>2 DEF ShownInItsWindow, Shown
<1>8. QED
  BY <1>1, <1>3, <1>4, <1>5, <1>6, <1>7 DEF PanelsInv

(***************************************************************************)
(* Approvals                                                               *)
(***************************************************************************)

\* The answered approvals are the ones that are no longer pending.
LEMMA AnsweredProperties ==
    ASSUME ApprovalsInv, NEW gone \in SUBSET Ids, NEW state \in {"approved", "denied"},
           approval' = Answered(gone, state), UNCHANGED request
    PROVE  /\ ApprovalsInv' /\ Pending' = Pending \ gone /\ Bound' = Bound \ gone
           /\ \A id \in Ids \ gone : approval'[id] = approval[id]
           /\ \A id \in gone : approval'[id].state = state
<1> DEFINE answered(id) == [Unused EXCEPT !.state = state, !.inPanel = approval[id].inPanel]
<1>1. approval \in [Ids -> ApprovalType] /\ request \in [Requests -> RequestType]
  BY DEF ApprovalsInv
<1>2. \A id \in Ids : answered(id) \in ApprovalType /\ answered(id).state = state
  <2> TAKE id \in Ids
  <2>1. approval[id].inPanel \in BOOLEAN /\ 0 \in 0 .. MaxGeneration
    BY <1>1, LimitsAreNatural DEF ApprovalType
  <2>2. Unused \in ApprovalType
    BY <2>1 DEF Unused, ApprovalType
  <2>3. /\ [Unused EXCEPT !.state = state] \in ApprovalType
        /\ [Unused EXCEPT !.state = state].state = state
    BY <2>2 DEF ApprovalType
  <2>4. \A u \in ApprovalType, b \in BOOLEAN :
           [u EXCEPT !.inPanel = b] \in ApprovalType /\ [u EXCEPT !.inPanel = b].state = u.state
    BY DEF ApprovalType
  <2>5. QED
    BY <2>1, <2>3, <2>4
<1>3. approval' = [id \in Ids |-> IF id \in gone THEN answered(id) ELSE approval[id]]
  BY DEF Answered
<1> HIDE DEF answered
<1>4. /\ \A id \in Ids \ gone : approval'[id] = approval[id]
      /\ \A id \in gone : approval'[id].state = state
      /\ approval' \in [Ids -> ApprovalType]
  BY <1>1, <1>2, <1>3
<1>5. Pending' = Pending \ gone
  BY <1>4 DEF Pending
<1>6. Bound' = Bound \ gone
  BY <1>4, <1>5 DEF Bound, Pending
<1>7. \A id \in Pending' : id \in Pending /\ approval'[id] = approval[id]
  BY <1>4, <1>5 DEF Pending
<1>8. PendingAreAsked'
  BY <1>7 DEF ApprovalsInv, PendingAreAsked
<1>9. \A a, b \in Pending' : OriginOf(a)' = OriginOf(b)' => a = b
  BY <1>7 DEF ApprovalsInv, OriginOf
<1>10. QED
  BY <1>1, <1>4, <1>5, <1>6, <1>8, <1>9 DEF ApprovalsInv

\* Approvals are answered and every panel disposes of them; the decisions that
\* leave are about none that stays.
LEMMA AnsweringStep ==
    ASSUME PanelsInv, ApprovalsInv, NEW gone \in SUBSET Ids, NEW state \in {"approved", "denied"},
           approval' = Answered(gone, state), UNCHANGED request,
           NEW outcome, \A p \in Panels : Disposes(panel[p], gone, outcome[p]),
           NEW deciding \in SUBSET decisions,
           \A d \in decisions \ deciding : d.id \notin Pending \ gone,
           \A p \in Panels : Busy(outcome[p].panel) \/ \E d \in deciding : d.from = p,
           Panelwise(outcome, deciding)
    PROVE  PanelsInv' /\ ApprovalsInv' /\ Pending' = Pending \ gone /\ Bound' = Bound \ gone
<1>1. /\ ApprovalsInv' /\ Pending' = Pending \ gone /\ Bound' = Bound \ gone
      /\ \A id \in Ids \ gone : approval'[id] = approval[id]
  BY AnsweredProperties
<1>2. panel \in [Panels -> PanelType] /\ deciding \in SUBSET DecisionType
  BY DEF PanelsInv
<1>3. \A p \in Panels : Shown(panel[p]) \subseteq {id \in Pending : approval[id].inPanel}
  BY DEF PanelsInv, PanelsShowPending
<1>4. Pending \subseteq Ids
  BY DEF Pending
<1>5. \A p \in Panels : \A id \in Shown(panel[p]) \ gone : id \in Pending' /\ approval'[id].inPanel
  BY <1>1, <1>3, <1>4
<1>6. \A p, q \in Panels : p # q => Shown(panel[p]) \cap Shown(panel[q]) = {}
  BY DEF PanelsInv, PanelsShowPending
<1>7. \A p \in Panels : \A id \in Shown(panel[p]) \ gone :
         request'[approval'[id].request].window = panel[p].window
  BY <1>1, <1>3, <1>4 DEF PanelsInv, ShownInItsWindow
<1>8. \A id \in Pending' : approval'[id].inPanel =>
         \/ \E p \in Panels : id \in Shown(panel[p]) \ gone
         \/ \E d \in deciding : d.id = id
  <2> SUFFICES ASSUME NEW id \in Pending \ gone, approval[id].inPanel
               PROVE  \/ \E p \in Panels : id \in Shown(panel[p]) \ gone
                      \/ \E d \in deciding : d.id = id
    BY <1>1, <1>4
  <2>1. \/ \E p \in Panels : id \in Shown(panel[p])
        \/ \E d \in decisions : d.id = id
    BY DEF PanelsInv, NoApprovalIsLost
  <2>2. QED
    BY <2>1
<1>9. PanelsInv'
  BY <1>2, <1>5, <1>6, <1>7, <1>8, PanelsStep
<1>10. QED
  BY <1>1, <1>9

\* Approvals are closed by something else than a decision.
LEMMA CloseStep ==
    ASSUME PanelsInv, ApprovalsInv, NEW ids \in SUBSET Ids,
           Close(ids, "denied", decisions), UNCHANGED request
    PROVE  PanelsInv' /\ ApprovalsInv' /\ Pending' = Pending \ ids /\ Bound' = Bound \ ids
<1> DEFINE outcome == [p \in Panels |-> Cancelled(panel[p], ids)]
<1>1. approval' = Answered(ids, "denied") /\ Panelwise(outcome, decisions)
  BY DEF Close
<1>2. \A p \in Panels : outcome[p] = Cancelled(panel[p], ids)
  OBVIOUS
<1> HIDE DEF outcome
<1>3. \A p \in Panels : Disposes(panel[p], ids, outcome[p])
  BY <1>2, CancelledDisposes DEF PanelsInv, PanelsAreOrderly
<1>4. \A p \in Panels : Busy(outcome[p].panel) \/ \E d \in decisions : d.from = p
  BY <1>3 DEF PanelsInv, QueuesAdvance, Disposes, Busy
<1>5. QED
  BY <1>1, <1>3, <1>4, AnsweringStep

\* A decision is taken: its panel goes on.
LEMMA DecisionStep ==
    ASSUME PanelsInv, ApprovalsInv, NEW d \in decisions, NEW ids \in SUBSET Ids,
           NEW state \in {"approved", "denied"}, {d.id} \cap Pending \subseteq ids,
           approval' = Answered(ids, state), UNCHANGED request,
           Panelwise([p \in Panels |-> Onward(p, d, ids)], decisions \ {d})
    PROVE  PanelsInv' /\ ApprovalsInv' /\ Pending' = Pending \ ids /\ Bound' = Bound \ ids
<1> DEFINE outcome == [p \in Panels |-> Onward(p, d, ids)]
<1>1. Panelwise(outcome, decisions \ {d}) /\ \A p \in Panels : outcome[p] = Onward(p, d, ids)
  OBVIOUS
<1> HIDE DEF outcome
<1>2. \A p \in Panels : /\ Disposes(panel[p], ids, outcome[p])
                        /\ p = d.from => Busy(outcome[p].panel)
  BY <1>1, OnwardDisposes DEF PanelsInv, PanelsAreOrderly
<1>3. \A p \in Panels : Busy(outcome[p].panel) \/ \E e \in decisions \ {d} : e.from = p
  BY <1>2 DEF PanelsInv, QueuesAdvance, Disposes, Busy
<1>4. \A e \in decisions \ (decisions \ {d}) : e.id \notin Pending \ ids
  OBVIOUS
<1>5. QED
  BY <1>1, <1>2, <1>3, <1>4, AnsweringStep

\* Nothing is answered: a panel connects again, or its port is gone.
LEMMA DetachStep ==
    ASSUME PanelsInv, ApprovalsInv, NEW outcome,
           \A p \in Panels : Disposes(panel[p], {}, outcome[p]),
           NEW deciding \in SUBSET DecisionType,
           \A d \in decisions : \E e \in deciding : e.id = d.id,
           \A p \in Panels : Busy(outcome[p].panel) \/ \E d \in deciding : d.from = p,
           Panelwise(outcome, deciding), UNCHANGED <<request, approval>>
    PROVE  PanelsInv'
<1>1. panel \in [Panels -> PanelType] /\ Pending' = Pending
  BY DEF PanelsInv, Pending
<1>2. /\ \A p \in Panels : \A id \in Shown(panel[p]) \ {} : id \in Pending' /\ approval'[id].inPanel
      /\ \A p, q \in Panels : p # q => Shown(panel[p]) \cap Shown(panel[q]) = {}
  BY <1>1 DEF PanelsInv, PanelsShowPending
<1>3. \A p \in Panels : \A id \in Shown(panel[p]) \ {} :
         request'[approval'[id].request].window = panel[p].window
  BY DEF PanelsInv, ShownInItsWindow
<1>4. \A id \in Pending' : approval'[id].inPanel =>
         \/ \E p \in Panels : id \in Shown(panel[p]) \ {}
         \/ \E d \in deciding : d.id = id
  BY <1>1 DEF PanelsInv, NoApprovalIsLost
<1>5. QED
  BY <1>1, <1>2, <1>3, <1>4, PanelsStep

(***************************************************************************)
(* Requests, approvals and decisions one at a time                         *)
(***************************************************************************)

\* A request without pending approvals begins or ends.
LEMMA RequestStep ==
    ASSUME PanelsInv, ApprovalsInv, NEW r \in Requests, NEW v \in RequestType,
           request' = [request EXCEPT ![r] = v],
           \A id \in Pending : approval[id].request # r,
           UNCHANGED <<approval, panel, decisions>>
    PROVE  PanelsInv' /\ ApprovalsInv'
<1>1. Pending' = Pending
  BY DEF Pending
<1>2. request' \in [Requests -> RequestType] /\ \A q \in Requests \ {r} : request'[q] = request[q]
  BY DEF ApprovalsInv
<1>3. \A id \in Pending : request'[approval[id].request] = request[approval[id].request]
  BY <1>2 DEF ApprovalsInv, PendingAreAsked
<1>4. ApprovalsInv'
  <2>1. PendingAreAsked'
    BY <1>1, <1>3 DEF ApprovalsInv, PendingAreAsked
  <2>2. \A a, b \in Pending' : OriginOf(a)' = OriginOf(b)' => a = b
    BY <1>1, <1>3 DEF ApprovalsInv, OriginOf
  <2>3. QED
    BY <1>2, <2>1, <2>2 DEF ApprovalsInv
<1>5. ShownInItsWindow'
  <2>1. \A p \in Panels : Shown(panel[p]) \subseteq Pending
    BY DEF PanelsInv, PanelsShowPending
  <2>2. \A p \in Panels : \A id \in Shown(panel[p]) :
           request'[approval[id].request].window = panel[p].window
    BY <1>3, <2>1 DEF PanelsInv, ShownInItsWindow
  <2>3. QED
    BY <2>2 DEF ShownInItsWindow, Shown
<1>6. PanelsAreOrderly' /\ PanelsShowPending' /\ NoApprovalIsLost' /\ QueuesAdvance'
  BY <1>1 DEF PanelsInv, PanelsAreOrderly, PanelsShowPending, NoApprovalIsLost, QueuesAdvance, Shown
<1>7. QED
  BY <1>4, <1>5, <1>6 DEF PanelsInv

\* One panel shows less than before, or has lost its document.
LEMMA PanelStep ==
    ASSUME PanelsInv, NEW p \in Panels, NEW rec, Orderly(rec),
           rec.window = panel[p].window, Shown(rec) \subseteq Shown(panel[p]),
           panel' = [panel EXCEPT ![p] = rec],
           decisions \subseteq decisions', decisions' \subseteq DecisionType,
           \A id \in Shown(panel[p]) \ Shown(rec) : \E e \in decisions' : e.id = id,
           Busy(rec) \/ \E e \in decisions' : e.from = p,
           UNCHANGED <<request, approval>>
    PROVE  PanelsInv'
<1>1. Pending' = Pending /\ panel' \in [Panels -> PanelType]
  BY DEF Pending, PanelsInv, Orderly
<1>2. panel'[p] = rec /\ \A q \in Panels \ {p} : panel'[q] = panel[q]
  BY DEF PanelsInv
<1>3. \A q \in Panels : /\ Orderly(panel'[q]) /\ panel'[q].window = panel[q].window
                        /\ Shown(panel'[q]) \subseteq Shown(panel[q])
  BY <1>2 DEF PanelsInv, PanelsAreOrderly
<1>4. PanelsAreOrderly'
  BY <1>3 DEF PanelsAreOrderly
<1>5. PanelsShowPending'
  <2>1. \A q \in Panels : Shown(panel'[q]) \subseteq {id \in Pending : approval[id].inPanel}
    BY <1>3 DEF PanelsInv, PanelsShowPending
  <2>2. \A q, o \in Panels : q # o => Shown(panel'[q]) \cap Shown(panel'[o]) = {}
    BY <1>3 DEF PanelsInv, PanelsShowPending
  <2>3. QED
    BY <1>1, <2>1, <2>2 DEF PanelsShowPending, Shown
<1>6. NoApprovalIsLost'
  <2> SUFFICES ASSUME NEW id \in Pending, approval[id].inPanel
               PROVE  \/ \E q \in Panels : panel'[q].on /\ id \in Shown(panel'[q])
                      \/ \E d \in decisions' : d.id = id
    BY <1>1 DEF NoApprovalIsLost, Shown
  <2>1. CASE \E d \in decisions : d.id = id
    BY <2>1
  <2>2. CASE \E q \in Panels : id \in Shown(panel[q])
    BY <1>2, <1>3, <2>2, ShownAreIds
  <2>3. QED
    BY <2>1, <2>2 DEF PanelsInv, NoApprovalIsLost
<1>7. QueuesAdvance'
  BY <1>2 DEF PanelsInv, QueuesAdvance, Busy
<1>8. ShownInItsWindow'
  <2>1. \A q \in Panels : \A id \in Shown(panel'[q]) :
           request[approval[id].request].window = panel'[q].window
    BY <1>3 DEF PanelsInv, ShownInItsWindow
  <2>2. QED
    BY <2>1 DEF ShownInItsWindow, Shown
<1>9. QED
  BY <1>1, <1>4, <1>5, <1>6, <1>7, <1>8 DEF PanelsInv

\* An approval is entered for a site that has none.
LEMMA EnteredStep ==
    ASSUME ApprovalsInv, NEW r \in Requests, NEW id \in Ids, NEW new \in ApprovalType,
           approval[id].state = "unused", request[r] # None, MayAsk(request[r].origin),
           new.state = "pending", new.request = r,
           approval' = [approval EXCEPT ![id] = new], UNCHANGED request
    PROVE  /\ ApprovalsInv' /\ Pending' = Pending \cup {id} /\ id \notin Pending
           /\ approval'[id] = new /\ \A other \in Ids \ {id} : approval'[other] = approval[other]
<1>1. /\ approval' \in [Ids -> ApprovalType] /\ approval'[id] = new
      /\ \A other \in Ids \ {id} : approval'[other] = approval[other]
  BY DEF ApprovalsInv
<1>2. Pending' = Pending \cup {id} /\ id \notin Pending
  BY <1>1 DEF Pending
<1>3. \A other \in Pending : other \in Ids \ {id} /\ approval'[other] = approval[other]
  BY <1>1, <1>2 DEF Pending
<1>4. PendingAreAsked'
  BY <1>1, <1>2, <1>3 DEF ApprovalsInv, PendingAreAsked
<1>5. \A a \in Pending : OriginOf(a) # request[r].origin
  BY DEF MayAsk
<1>6. \A a, b \in Pending' : OriginOf(a)' = OriginOf(b)' => a = b
  BY <1>1, <1>2, <1>3, <1>5 DEF ApprovalsInv, OriginOf
<1>7. QED
  BY <1>1, <1>2, <1>4, <1>6 DEF ApprovalsInv

(***************************************************************************)
(* The actions                                                             *)
(***************************************************************************)

\* A new approval is queued in a panel, which shows it if it can.
LEMMA ShownStep ==
    ASSUME PanelsInv, NEW p \in Panels, NEW id \in Ids, NEW rec,
           Orderly(rec), Shown(rec) = Shown(panel[p]) \cup {id}, rec.window = panel[p].window,
           id \notin Pending, Pending' = Pending \cup {id}, approval'[id].inPanel,
           \A o \in Pending : approval'[o] = approval[o],
           request[approval'[id].request].window = panel[p].window, UNCHANGED request,
           NEW outcome, outcome[p] = Advanced(rec),
           \A q \in Panels \ {p} : outcome[q] = Kept(panel[q]),
           Panelwise(outcome, decisions)
    PROVE  PanelsInv'
<1> DEFINE before == [panel EXCEPT ![p] = rec]
<1>1. /\ before \in [Panels -> PanelType] /\ before[p] = rec
      /\ \A q \in Panels \ {p} : before[q] = panel[q]
  BY DEF PanelsInv, Orderly
<1> HIDE DEF before
<1>2. \A p1 \in Panels : Shown(panel[p1]) \subseteq {o \in Pending : approval[o].inPanel}
  BY DEF PanelsInv, PanelsShowPending
<1>3. \A q \in Panels : Disposes(before[q], {}, outcome[q])
  BY <1>1, AdvancedDisposes, KeptDisposes DEF PanelsInv, PanelsAreOrderly
<1>4. \A q \in Panels : Busy(outcome[q].panel) \/ \E d \in decisions : d.from = q
  <2>1. Busy(outcome[p].panel)
    BY AdvancedDisposes
  <2>2. \A q \in Panels \ {p} : outcome[q].panel = panel[q]
    BY KeptPanel
  <2>3. \A q \in Panels : Busy(panel[q]) \/ \E d \in decisions : d.from = q
    BY DEF PanelsInv, QueuesAdvance, Busy
  <2>4. QED
    BY <2>1, <2>2, <2>3
<1>5. \A q \in Panels : /\ Shown(panel[q]) \subseteq Shown(before[q])
                        /\ q # p => Shown(before[q]) = Shown(panel[q])
                        /\ before[q].window = panel[q].window
  BY <1>1
<1>6. Shown(before[p]) = Shown(panel[p]) \cup {id}
  BY <1>1
<1>7. \A q \in Panels : \A o \in Shown(before[q]) \ {} : o \in Pending' /\ approval'[o].inPanel
  BY <1>2, <1>5, <1>6
<1>8. \A q, o \in Panels : q # o => Shown(before[q]) \cap Shown(before[o]) = {}
  BY <1>2, <1>5, <1>6 DEF PanelsInv, PanelsShowPending
<1>9. \A q \in Panels : \A o \in Shown(before[q]) \ {} :
         request'[approval'[o].request].window = before[q].window
  <2> SUFFICES ASSUME NEW q \in Panels, NEW o \in Shown(before[q])
               PROVE  request[approval'[o].request].window = panel[q].window
    BY <1>5
  <2>1. CASE o \in Shown(panel[q])
    BY <1>2, <2>1 DEF PanelsInv, ShownInItsWindow
  <2>2. CASE o \notin Shown(panel[q])
    BY <1>5, <1>6, <2>2
  <2>3. QED
    BY <2>1, <2>2
<1>10. \A o \in Pending' : approval'[o].inPanel =>
         \/ \E q \in Panels : o \in Shown(before[q]) \ {}
         \/ \E d \in decisions : d.id = o
  <2> SUFFICES ASSUME NEW o \in Pending \cup {id}, approval'[o].inPanel
               PROVE  \/ \E q \in Panels : o \in Shown(before[q])
                      \/ \E d \in decisions : d.id = o
    OBVIOUS
  <2>1. CASE o = id
    BY <1>6, <2>1
  <2>2. CASE o \in Pending
    BY <1>5, <2>2 DEF PanelsInv, NoApprovalIsLost
  <2>3. QED
    BY <2>1, <2>2
<1>11. decisions \in SUBSET DecisionType
  BY DEF PanelsInv
<1>12. QED
  BY <1>1, <1>3, <1>4, <1>7, <1>8, <1>9, <1>10, <1>11, PanelsStep

LEMMA AskStep ==
    ASSUME PanelsInv, ApprovalsInv, SessionInv, NEW r \in Requests, NEW id \in Ids, Ask(r, id)
    PROVE  PanelsInv' /\ ApprovalsInv' /\ SessionInv'
<1> DEFINE origin == request[r].origin
           new(inPanel) == [state |-> "pending", request |-> r, inPanel |-> inPanel,
                            generation |-> IF unlocked THEN generation ELSE 0]
           shownBy(p) == [panel[p] EXCEPT !.queue = Append(@, id)]
<1>1. /\ request[r] # None /\ approval[id].state = "unused" /\ MayAsk(origin)
      /\ UNCHANGED <<request, session>>
  BY DEF Ask
<1>2. \A b \in BOOLEAN : /\ new(b) \in ApprovalType /\ new(b).inPanel = b
                         /\ new(b).state = "pending" /\ new(b).request = r
                         /\ new(b).generation = IF unlocked THEN generation ELSE 0
  BY LimitsAreNatural DEF ApprovalType, SessionInv
<1> HIDE DEF new
<1>3. ASSUME NEW b \in BOOLEAN, approval' = [approval EXCEPT ![id] = new(b)]
      PROVE  /\ ApprovalsInv' /\ SessionInv' /\ Pending' = Pending \cup {id} /\ id \notin Pending
             /\ approval'[id] = new(b)
             /\ \A other \in Ids \ {id} : approval'[other] = approval[other]
  <2>1. /\ ApprovalsInv' /\ Pending' = Pending \cup {id} /\ id \notin Pending
        /\ approval'[id] = new(b)
        /\ \A other \in Ids \ {id} : approval'[other] = approval[other]
    BY <1>1, <1>2, <1>3, EnteredStep
  <2>2. \A other \in Pending : approval'[other] = approval[other]
    BY <2>1 DEF Pending
  <2>3. ApprovalsEndWithSession'
    BY <1>1, <1>2, <2>1, <2>2 DEF SessionInv, ApprovalsEndWithSession, Bound, session
  <2>4. QED
    BY <1>1, <2>1, <2>3 DEF SessionInv, session
<1>4. \A p \in Panels : Shown(panel[p]) \subseteq {other \in Pending : approval[other].inPanel}
  BY DEF PanelsInv, PanelsShowPending
<1>5. CASE /\ approval' = [approval EXCEPT ![id] = new(FALSE)]
           /\ UNCHANGED <<panel, decisions>>
  <2>1. /\ ApprovalsInv' /\ SessionInv' /\ Pending' = Pending \cup {id} /\ id \notin Pending
        /\ approval'[id] = new(FALSE)
        /\ \A other \in Ids \ {id} : approval'[other] = approval[other]
    BY <1>3, <1>5
  <2>2. ~approval'[id].inPanel /\ \A other \in Pending : approval'[other] = approval[other]
    BY <1>2, <2>1 DEF Pending
  <2>3. PanelsAreOrderly' /\ QueuesAdvance'
    BY <1>5 DEF PanelsInv, PanelsAreOrderly, QueuesAdvance
  <2>4. PanelsShowPending'
    <3>1. \A p \in Panels : Shown(panel[p]) \subseteq {other \in Pending' : approval'[other].inPanel}
      BY <1>4, <2>1, <2>2
    <3>2. QED
      BY <1>5, <3>1 DEF PanelsInv, PanelsShowPending, Shown
  <2>5. NoApprovalIsLost'
    BY <1>5, <2>1, <2>2 DEF PanelsInv, NoApprovalIsLost, Shown
  <2>6. ShownInItsWindow'
    <3>1. \A p \in Panels : \A other \in Shown(panel[p]) :
             request[approval'[other].request].window = panel[p].window
      BY <1>4, <2>2 DEF PanelsInv, ShownInItsWindow
    <3>2. QED
      BY <1>1, <1>5, <3>1 DEF ShownInItsWindow, Shown
  <2>7. QED
    BY <1>5, <2>1, <2>3, <2>4, <2>5, <2>6 DEF PanelsInv
<1>6. ASSUME NEW p \in Presenters(origin),
             approval' = [approval EXCEPT ![id] = new(TRUE)],
             Panelwise([q \in Panels |-> IF q = p THEN Advanced(shownBy(q)) ELSE Kept(panel[q])],
                       decisions)
      PROVE  PanelsInv' /\ ApprovalsInv' /\ SessionInv'
  <2> DEFINE outcome == [q \in Panels |-> IF q = p THEN Advanced(shownBy(q)) ELSE Kept(panel[q])]
  <2>1. /\ ApprovalsInv' /\ SessionInv' /\ Pending' = Pending \cup {id} /\ id \notin Pending
        /\ approval'[id] = new(TRUE)
        /\ \A other \in Ids \ {id} : approval'[other] = approval[other]
    BY <1>3, <1>6
  <2>2. /\ approval'[id].inPanel /\ approval'[id].request = r
        /\ \A other \in Pending : approval'[other] = approval[other]
    BY <1>2, <2>1 DEF Pending
  <2>3. p \in Panels /\ panel[p].on /\ panel[p].window = request[r].window
    BY <1>1 DEF Presenters, WindowsOf, Running
  <2>4. panel[p] \in PanelType /\ Orderly(panel[p]) /\ id \notin Shown(panel[p])
    BY <1>4, <2>1, <2>3 DEF PanelsInv, PanelsAreOrderly
  <2>5. /\ Append(panel[p].queue, id) \in Seq(Ids) /\ IsInjective(Append(panel[p].queue, id))
        /\ Range(Append(panel[p].queue, id)) = Range(panel[p].queue) \cup {id}
    BY <2>4, AppendedQueue DEF Orderly, PanelType, Shown
  <2>6. /\ shownBy(p) \in PanelType /\ shownBy(p).queue = Append(panel[p].queue, id)
        /\ shownBy(p).on /\ shownBy(p).active = panel[p].active
        /\ shownBy(p).window = panel[p].window
    BY <2>3, <2>4, <2>5 DEF PanelType
  <2>7. Orderly(shownBy(p)) /\ Shown(shownBy(p)) = Shown(panel[p]) \cup {id}
    BY <2>4, <2>5, <2>6, NoneIsNoName DEF Orderly, Shown
  <2>8. /\ Panelwise(outcome, decisions) /\ outcome[p] = Advanced(shownBy(p))
        /\ \A q \in Panels \ {p} : outcome[q] = Kept(panel[q])
    BY <1>6, <2>3
  <2>9. /\ request[approval'[id].request].window = panel[p].window /\ UNCHANGED request
        /\ shownBy(p).window = panel[p].window
    BY <1>1, <2>2, <2>3, <2>6
  <2> HIDE DEF outcome, shownBy
  <2>10. PanelsInv'
    BY <2>1, <2>2, <2>3, <2>7, <2>8, <2>9, ShownStep
  <2>11. QED
    BY <2>1, <2>10
<1>7. QED
  BY <1>5, <1>6 DEF Ask, new

\* A site's request begins and ends, and asks in between.
LEMMA ServingStep ==
    ASSUME PanelsInv, ApprovalsInv, SessionInv, Serving
    PROVE  PanelsInv' /\ ApprovalsInv' /\ SessionInv'
<1>1. PICK r \in Requests :
        \/ \E origin \in Origins, window \in Windows \cup {None} : Begin(r, origin, window)
        \/ End(r)
        \/ \E id \in Ids : Ask(r, id)
  BY DEF Serving
<1>2. request \in [Requests -> RequestType]
  BY DEF ApprovalsInv
<1>3. UNCHANGED <<approval, session>> => SessionInv'
  BY DEF SessionInv, ApprovalsEndWithSession, Bound, Pending, session
<1>4. ASSUME NEW origin \in Origins, NEW window \in Windows \cup {None}, Begin(r, origin, window)
      PROVE  PanelsInv' /\ ApprovalsInv' /\ SessionInv'
  <2>1. /\ request[r] = None
        /\ request' = [request EXCEPT ![r] = [origin |-> origin, window |-> window]]
        /\ UNCHANGED <<approval, panel, decisions, session>>
    BY <1>4 DEF Begin
  <2>2. \A id \in Pending : approval[id].request # r
    BY <2>1 DEF ApprovalsInv, PendingAreAsked
  <2>3. [origin |-> origin, window |-> window] \in RequestType
    BY DEF RequestType
  <2>4. QED
    BY <1>3, <2>1, <2>2, <2>3, RequestStep
<1>5. CASE End(r)
  <2>1. None \in RequestType
    BY DEF RequestType
  <2>2. /\ \A id \in Pending : approval[id].request # r
        /\ request' = [request EXCEPT ![r] = None]
        /\ UNCHANGED <<approval, panel, decisions, session>>
    BY <1>5 DEF End
  <2>3. QED
    BY <1>3, <2>1, <2>2, RequestStep
<1>6. QED
  BY <1>1, <1>4, <1>5, AskStep

\* The user decides in a popup or in a panel.
LEMMA DecidingStep ==
    ASSUME PanelsInv, ApprovalsInv, SessionInv, Deciding
    PROVE  PanelsInv' /\ ApprovalsInv' /\ SessionInv'
<1>1. UNCHANGED <<request, approval, session>>
  BY DEF Deciding, DecideInPopup, DecideInPanel
<1>2. ApprovalsInv' /\ SessionInv' /\ Pending' = Pending
  BY <1>1 DEF ApprovalsInv, PendingAreAsked, OriginOf, SessionInv, ApprovalsEndWithSession, Bound,
              Pending, session
<1>3. ASSUME NEW id \in Ids, NEW approved \in BOOLEAN, DecideInPopup(id, approved)
      PROVE  PanelsInv'
  <2>1. /\ decisions' = decisions \cup {[id |-> id, approved |-> approved, from |-> None]}
        /\ UNCHANGED panel
    BY <1>3 DEF DecideInPopup
  <2>2. decisions \subseteq decisions' /\ decisions' \subseteq DecisionType
    BY <2>1 DEF PanelsInv, DecisionType
  <2>3. NoApprovalIsLost' /\ QueuesAdvance'
    BY <1>1, <1>2, <2>1, <2>2 DEF PanelsInv, NoApprovalIsLost, QueuesAdvance, Shown
  <2>4. PanelsAreOrderly' /\ PanelsShowPending' /\ ShownInItsWindow'
    BY <1>1, <1>2, <2>1 DEF PanelsInv, PanelsAreOrderly, PanelsShowPending, ShownInItsWindow, Shown
  <2>5. QED
    BY <2>1, <2>2, <2>3, <2>4 DEF PanelsInv
<1>4. ASSUME NEW p \in Panels, NEW approved \in BOOLEAN, DecideInPanel(p, approved)
      PROVE  PanelsInv'
  <2> DEFINE rec == [panel[p] EXCEPT !.active = None]
             d == [id |-> panel[p].active, approved |-> approved, from |-> p]
  <2>1. panel[p].active # None /\ panel' = [panel EXCEPT ![p] = rec] /\ decisions' = decisions \cup {d}
    BY <1>4 DEF DecideInPanel
  <2>2. panel[p] \in PanelType /\ Orderly(panel[p]) /\ decisions \subseteq DecisionType
    BY DEF PanelsInv, PanelsAreOrderly
  <2>3. /\ rec \in PanelType /\ rec.queue = panel[p].queue /\ rec.active = None
        /\ rec.on = panel[p].on /\ rec.window = panel[p].window
    BY <2>2 DEF PanelType
  <2>4. Orderly(rec) /\ Shown(rec) = Shown(panel[p]) \ ({panel[p].active} \ Range(panel[p].queue))
    BY <2>2, <2>3 DEF Orderly, Shown
  <2>5. d \in DecisionType /\ d.id = panel[p].active /\ d.from = p
    BY <2>1, <2>2 DEF PanelType, DecisionType
  <2> HIDE DEF rec, d
  <2>6. QED
    BY <1>1, <2>1, <2>2, <2>3, <2>4, <2>5, PanelStep
<1>5. QED
  BY <1>2, <1>3, <1>4 DEF Deciding

\* The session's part when approvals are closed and the session stays or ends.
LEMMA SessionStep ==
    ASSUME SessionInv, ApprovalsInv, NEW gone \in SUBSET Ids, NEW state \in {"approved", "denied"},
           approval' = Answered(gone, state), UNCHANGED request,
           generation' \in 0 .. MaxGeneration /\ unlocked' \in BOOLEAN /\ expired' \in BOOLEAN,
           Bound \subseteq gone \/ UNCHANGED session
    PROVE  SessionInv'
<1>1. /\ Bound' = Bound \ gone /\ Bound \subseteq Ids
      /\ \A id \in Ids \ gone : approval'[id] = approval[id]
  BY AnsweredProperties DEF Bound, Pending
<1>2. ApprovalsEndWithSession'
  BY <1>1 DEF SessionInv, ApprovalsEndWithSession, session
<1>3. QED
  BY <1>2 DEF SessionInv

LEMMA NextGeneration ==
    ASSUME NEW g \in 0 .. MaxGeneration, g < MaxGeneration
    PROVE  g + 1 \in 0 .. MaxGeneration
<1>1. MaxGeneration \in Nat
  BY LimitsAreNatural
<1>2. QED
  BY <1>1

\* An approval ends without a decision, or a decision is taken.
LEMMA AnsweringActions ==
    ASSUME PanelsInv, ApprovalsInv, SessionInv, Answering
    PROVE  PanelsInv' /\ ApprovalsInv' /\ SessionInv'
<1>0. /\ generation \in 0 .. MaxGeneration /\ unlocked \in BOOLEAN /\ expired \in BOOLEAN
      /\ Pending \subseteq Ids /\ Bound \subseteq Pending
  BY DEF SessionInv, Bound, Pending
<1>1. ASSUME NEW id \in Ids, Finish(id)
      PROVE  PanelsInv' /\ ApprovalsInv' /\ SessionInv'
  <2>1. Close({id}, "denied", decisions) /\ UNCHANGED <<request, session>>
    BY <1>1 DEF Finish
  <2>2. approval' = Answered({id}, "denied")
    BY <2>1 DEF Close
  <2>3. SessionInv'
    BY <1>0, <2>1, <2>2, SessionStep DEF session
  <2>4. QED
    BY <2>1, <2>3, CloseStep
<1>2. ASSUME NEW d \in decisions, Resolve(d)
      PROVE  PanelsInv' /\ ApprovalsInv' /\ SessionInv'
  <2> DEFINE open == {d.id} \cap Pending
  <2>1. PICK state \in {"approved", "denied"} : approval' = Answered(open, state)
    BY <1>2 DEF Resolve
  <2>2. /\ Panelwise([p \in Panels |-> Onward(p, d, open)], decisions \ {d})
        /\ UNCHANGED <<request, session>> /\ open \in SUBSET Ids /\ {d.id} \cap Pending \subseteq open
    BY <1>0, <1>2 DEF Resolve
  <2> HIDE DEF open
  <2>3. SessionInv'
    BY <1>0, <2>1, <2>2, SessionStep DEF session
  <2>4. QED
    BY <2>1, <2>2, <2>3, DecisionStep
<1>3. ASSUME NEW d \in decisions, LockOnDecision(d)
      PROVE  PanelsInv' /\ ApprovalsInv' /\ SessionInv'
  <2>1. /\ approval' = Answered(Pending, "denied") /\ UNCHANGED request
        /\ Panelwise([p \in Panels |-> Onward(p, d, Pending)], decisions \ {d})
    BY <1>3 DEF LockOnDecision
  <2>2. generation' \in 0 .. MaxGeneration /\ unlocked' \in BOOLEAN /\ expired' \in BOOLEAN
    BY <1>0, <1>3, NextGeneration DEF LockOnDecision, EndSession
  <2>3. SessionInv'
    BY <1>0, <2>1, <2>2, SessionStep
  <2>4. PanelsInv' /\ ApprovalsInv'
    BY <1>0, <2>1, DecisionStep
  <2>5. QED
    BY <2>3, <2>4
<1>4. QED
  BY <1>1, <1>2, <1>3 DEF Answering

\* A side panel connects, goes away, is missed.
LEMMA PresentingStep ==
    ASSUME PanelsInv, ApprovalsInv, SessionInv, Presenting
    PROVE  PanelsInv' /\ ApprovalsInv' /\ SessionInv'
<1>1. UNCHANGED <<request, approval, session>>
  BY DEF Presenting, Connect, Vanish, Disconnect
<1>2. ApprovalsInv' /\ SessionInv'
  BY <1>1 DEF ApprovalsInv, PendingAreAsked, OriginOf, SessionInv, ApprovalsEndWithSession, Bound,
              Pending, session
<1>3. /\ \A p \in Panels : Orderly(panel[p]) /\ panel[p] \in PanelType
      /\ \A p \in Panels : Busy(panel[p]) \/ \E d \in decisions : d.from = p
      /\ decisions \in SUBSET DecisionType
  BY DEF PanelsInv, PanelsAreOrderly, QueuesAdvance, Busy
<1>4. ASSUME NEW p \in Panels, NEW window \in Windows, Connect(p, window)
      PROVE  PanelsInv'
  <2> DEFINE fresh == [Detached(panel[p]) EXCEPT !.panel = Fresh(window)]
             outcome == [q \in Panels |-> IF q = p THEN [Detached(panel[q]) EXCEPT !.panel = Fresh(window)]
                                          ELSE Kept(panel[q])]
             freed(d) == IF d.from = p THEN [d EXCEPT !.from = None] ELSE d
             deciding == {freed(d) : d \in decisions}
  <2>1. Panelwise(outcome, deciding)
    BY <1>4 DEF Connect
  <2>2. outcome[p] = fresh /\ \A q \in Panels \ {p} : outcome[q] = Kept(panel[q])
    OBVIOUS
  <2>3. Orderly(Fresh(window)) /\ Shown(Fresh(window)) = {} /\ Busy(Fresh(window))
    <3> DEFINE one == [Off EXCEPT !.on = TRUE]
               two == [one EXCEPT !.alive = TRUE]
               three == [two EXCEPT !.window = window]
    <3>1. Off \in PanelType /\ Off.queue = <<>> /\ Off.active = None
      BY OffIsOrderly DEF Off, Orderly
    <3>2. one \in PanelType /\ one.on /\ one.queue = <<>> /\ one.active = None
      BY <3>1 DEF PanelType
    <3> HIDE DEF one
    <3>3. two \in PanelType /\ two.on /\ two.queue = <<>> /\ two.active = None
      BY <3>2 DEF PanelType
    <3> HIDE DEF two
    <3>4. three \in PanelType /\ three.on /\ three.queue = <<>> /\ three.active = None
      BY <3>3 DEF PanelType
    <3>5. Fresh(window) = three
      BY DEF Fresh, one, two
    <3> HIDE DEF three
    <3>6. QED
      BY <3>4, <3>5, EmptyQueue DEF Orderly, Shown, Busy
  <2>4. fresh.panel = Fresh(window) /\ fresh.denied = Shown(panel[p])
    BY DEF Detached
  <2>5. \A d \in decisions : freed(d) \in DecisionType /\ freed(d).id = d.id
    BY <1>3 DEF DecisionType
  <2>6. deciding \in SUBSET DecisionType /\ \A d \in decisions : \E e \in deciding : e.id = d.id
    BY <2>5
  <2>7. \A q \in Panels \ {p} : Busy(panel[q]) \/ \E e \in deciding : e.from = q
    <3> SUFFICES ASSUME NEW q \in Panels \ {p}, NEW d \in decisions, d.from = q
                 PROVE  \E e \in deciding : e.from = q
      BY <1>3
    <3>1. freed(d) = d
      OBVIOUS
    <3>2. QED
      BY <3>1
  <2> HIDE DEF fresh, outcome, deciding
  <2>8. \A q \in Panels : Disposes(panel[q], {}, outcome[q])
    <3>1. Disposes(panel[p], {}, fresh)
      BY <1>3, <2>3, <2>4, ShownAreIds DEF Disposes
    <3>2. QED
      BY <1>3, <2>2, <3>1, KeptDisposes
  <2>9. \A q \in Panels : Busy(outcome[q].panel) \/ \E e \in deciding : e.from = q
    BY <2>2, <2>3, <2>4, <2>7, KeptPanel
  <2>10. QED
    BY <1>1, <2>1, <2>6, <2>8, <2>9, DetachStep
<1>5. ASSUME NEW p \in Panels, Vanish(p)
      PROVE  PanelsInv'
  <2> DEFINE rec == [panel[p] EXCEPT !.alive = FALSE]
  <2>1. panel' = [panel EXCEPT ![p] = rec] /\ decisions' = decisions
    BY <1>5 DEF Vanish
  <2>2. /\ rec \in PanelType /\ rec.queue = panel[p].queue /\ rec.active = panel[p].active
        /\ rec.on = panel[p].on /\ rec.window = panel[p].window
    BY <1>3 DEF PanelType
  <2>3. Orderly(rec) /\ Shown(rec) = Shown(panel[p]) /\ (Busy(panel[p]) => Busy(rec))
    BY <1>3, <2>2 DEF Orderly, Shown, Busy
  <2> HIDE DEF rec
  <2>4. QED
    BY <1>1, <1>3, <2>1, <2>2, <2>3, PanelStep
<1>6. ASSUME NEW p \in Panels, Disconnect(p)
      PROVE  PanelsInv'
  <2> DEFINE outcome == [q \in Panels |-> IF q = p THEN Detached(panel[q]) ELSE Kept(panel[q])]
  <2>1. Panelwise(outcome, decisions)
    BY <1>6 DEF Disconnect
  <2>2. outcome[p] = Detached(panel[p]) /\ \A q \in Panels \ {p} : outcome[q] = Kept(panel[q])
    OBVIOUS
  <2> HIDE DEF outcome
  <2>3. \A q \in Panels : Disposes(panel[q], {}, outcome[q])
    BY <1>3, <2>2, DetachedDisposes, KeptDisposes
  <2>4. \A q \in Panels : Busy(outcome[q].panel) \/ \E d \in decisions : d.from = q
    BY <1>3, <2>3 DEF Disposes
  <2>5. QED
    BY <1>1, <1>3, <2>1, <2>3, <2>4, DetachStep
<1>7. QED
  BY <1>2, <1>4, <1>5, <1>6 DEF Presenting

\* The panels' part does not depend on the session.
LEMMA QuietPanels ==
    ASSUME PanelsInv, UNCHANGED <<request, approval, panel, decisions>>
    PROVE  PanelsInv'
<1>1. Pending' = Pending
  BY DEF Pending
<1>2. PanelsAreOrderly' /\ QueuesAdvance'
  BY DEF PanelsInv, PanelsAreOrderly, QueuesAdvance
<1>3. PanelsShowPending' /\ NoApprovalIsLost' /\ ShownInItsWindow'
  BY <1>1 DEF PanelsInv, PanelsShowPending, NoApprovalIsLost, ShownInItsWindow, Shown
<1>4. QED
  BY <1>2, <1>3 DEF PanelsInv

\* The wallet is locked and unlocked, its session runs out or is used.
LEMMA WalletStep ==
    ASSUME PanelsInv, ApprovalsInv, SessionInv, Lock \/ Unlock \/ Expire \/ Touch
    PROVE  PanelsInv' /\ ApprovalsInv' /\ SessionInv'
<1>0. /\ generation \in 0 .. MaxGeneration /\ unlocked \in BOOLEAN /\ expired \in BOOLEAN
      /\ Pending \subseteq Ids /\ Bound \subseteq Pending
  BY DEF SessionInv, Bound, Pending
<1>1. CASE Lock
  <2>1. Close(Pending, "denied", decisions) /\ UNCHANGED request
    BY <1>1 DEF Lock
  <2>2. generation' \in 0 .. MaxGeneration /\ unlocked' \in BOOLEAN /\ expired' \in BOOLEAN
    BY <1>0, <1>1, NextGeneration DEF Lock, EndSession
  <2>3. SessionInv'
    BY <1>0, <2>1, <2>2, SessionStep DEF Close
  <2>4. QED
    BY <1>0, <2>1, <2>3, CloseStep
<1>2. CASE Unlock
  <2>1. Close(Bound, "denied", decisions) /\ UNCHANGED request
    BY <1>2 DEF Unlock
  <2>2. generation' \in 0 .. MaxGeneration /\ unlocked' \in BOOLEAN /\ expired' \in BOOLEAN
    BY <1>0, <1>2, NextGeneration DEF Unlock
  <2>3. SessionInv'
    BY <1>0, <2>1, <2>2, SessionStep DEF Close
  <2>4. QED
    BY <1>0, <2>1, <2>3, CloseStep
<1>3. CASE Expire \/ Touch
  <2>1. UNCHANGED <<request, approval, panel, decisions, generation, unlocked>> /\ expired' \in BOOLEAN
    BY <1>3 DEF Expire, Touch
  <2>2. PanelsInv'
    BY <2>1, QuietPanels
  <2>3. ApprovalsInv' /\ SessionInv'
    BY <2>1 DEF ApprovalsInv, PendingAreAsked, OriginOf, SessionInv, ApprovalsEndWithSession, Bound, Pending
  <2>4. QED
    BY <2>2, <2>3
<1>4. QED
  BY <1>1, <1>2, <1>3

(***************************************************************************)
(* Theorems                                                                *)
(***************************************************************************)

LEMMA IInvInit == Init => PanelsInv /\ ApprovalsInv /\ SessionInv
<1> SUFFICES ASSUME Init
             PROVE  PanelsInv /\ ApprovalsInv /\ SessionInv
  OBVIOUS
<1>1. Unused \in ApprovalType /\ None \in RequestType /\ Off \in PanelType
  BY LimitsAreNatural, OffIsOrderly DEF ApprovalType, RequestType, Unused, Orderly
<1>2. /\ request \in [Requests -> RequestType] /\ approval \in [Ids -> ApprovalType]
      /\ panel \in [Panels -> PanelType] /\ decisions \subseteq DecisionType
  BY <1>1 DEF Init
<1>3. Pending = {} /\ Bound = {}
  BY DEF Init, Pending, Bound, Unused
<1>4. \A p \in Panels : panel[p] = Off
  BY DEF Init
<1>5. PanelsInv
  BY <1>2, <1>3, <1>4, OffIsOrderly DEF PanelsInv, PanelsAreOrderly, PanelsShowPending,
        NoApprovalIsLost, QueuesAdvance, ShownInItsWindow, Busy
<1>6. ApprovalsInv
  BY <1>2, <1>3 DEF ApprovalsInv, PendingAreAsked
<1>7. SessionInv
  <2>1. 0 \in 0 .. MaxGeneration
    BY LimitsAreNatural
  <2>2. generation = 0 /\ unlocked = FALSE /\ expired = FALSE
    BY DEF Init
  <2>3. QED
    BY <1>3, <2>1, <2>2 DEF SessionInv, ApprovalsEndWithSession
<1>8. QED
  BY <1>5, <1>6, <1>7

LEMMA IInvStep ==
    ASSUME IInv, [Next]_vars
    PROVE  IInv'
<1>1. PanelsInv /\ ApprovalsInv /\ SessionInv
  BY IInvParts
<1>2. CASE UNCHANGED vars
  <2>1. UNCHANGED <<request, approval, panel, decisions, generation, unlocked, expired>>
    BY <1>2 DEF vars, session
  <2>2. PanelsInv'
    BY <1>1, <2>1, QuietPanels
  <2>3. ApprovalsInv' /\ SessionInv'
    BY <1>1, <2>1 DEF ApprovalsInv, PendingAreAsked, OriginOf, SessionInv, ApprovalsEndWithSession,
                      Bound, Pending
  <2>4. QED
    BY <2>2, <2>3, IInvParts, PTL
<1>3. CASE Next
  <2>1. PanelsInv' /\ ApprovalsInv' /\ SessionInv'
    BY <1>1, <1>3, ServingStep, DecidingStep, AnsweringActions, PresentingStep, WalletStep DEF Next
  <2>2. QED
    BY <2>1, IInvParts, PTL
<1>4. QED
  BY <1>2, <1>3

\* Together the properties of the approvals and of the panels are inductive.
THEOREM Invariance == Spec => []IInv
<1>1. Init => IInv
  BY IInvInit, IInvParts
<1>2. IInv /\ [Next]_vars => IInv'
  BY IInvStep
<1>3. QED
  BY <1>1, <1>2, PTL DEF Spec

\* The variables have their types, and a site has one pending approval at most
\* (approve, index.ts:5381).
THEOREM TypeCorrect == Spec => []TypeOK
<1>1. IInv => TypeOK
  BY DEF IInv
<1>2. QED
  BY <1>1, Invariance, PTL

\* No approval outlives the session it was opened in (lockSession, index.ts:2650,
\* and rememberSession, index.ts:2704).
THEOREM ApprovalsEnd == Spec => []ApprovalsEndWithSession
<1>1. IInv => ApprovalsEndWithSession
  BY DEF IInv
<1>2. QED
  BY <1>1, Invariance, PTL

\* A panel shows pending approvals only, each in one panel (cancel,
\* sidePanelApprovals.ts:61).
THEOREM PanelsAreCurrent == Spec => []PanelsShowPending
<1>1. IInv => PanelsShowPending
  BY DEF IInv
<1>2. QED
  BY <1>1, Invariance, PTL

\* An approval that was given to a panel never hangs unseen (detach,
\* sidePanelApprovals.ts:78).
THEOREM ApprovalsAreKept == Spec => []NoApprovalIsLost
<1>1. IInv => NoApprovalIsLost
  BY DEF IInv
<1>2. QED
  BY <1>1, Invariance, PTL

\* Reviews that wait are behind a visible one, or a decision is on its way
\* (advance, sidePanelApprovals.ts:71).
THEOREM PanelsAdvance == Spec => []QueuesAdvance
<1>1. IInv => QueuesAdvance
  BY DEF IInv
<1>2. QED
  BY <1>1, Invariance, PTL

\* No request is shown in another browser window (present,
\* sidePanelApprovals.ts:51).
THEOREM WindowsAreKept == Spec => []ShownInItsWindow
<1>1. IInv => ShownInItsWindow
  BY DEF IInv
<1>2. QED
  BY <1>1, Invariance, PTL

\* A panel's delayed decision approves nothing once the session has expired
\* (approve, index.ts:5407).
THEOREM ExpiryPrevails == Spec => ExpiredNeverApproves
<1> DEFINE A == \A id \in Bound : approval[id].inPanel /\ expired => approval'[id].state # "approved"
<1>1. ASSUME IInv, [Next]_vars
      PROVE  [A]_vars
  <2> SUFFICES ASSUME Next, NEW id \in Bound, approval[id].inPanel, expired
               PROVE  approval'[id].state # "approved"
    BY <1>1
  <2>1. /\ ApprovalsInv /\ id \in Pending /\ id \in Ids /\ approval[id].state = "pending"
        /\ unlocked /\ approval \in [Ids -> ApprovalType]
    BY <1>1, IInvParts DEF SessionInv, ApprovalsEndWithSession, ApprovalsInv, Bound, Pending
  <2>2. approval'[id] = approval[id] => approval'[id].state # "approved"
    BY <2>1
  <2>3. \A ids \in SUBSET Ids : approval' = Answered(ids, "denied") => approval'[id].state # "approved"
    BY <2>1, <2>2 DEF Answered, Unused
  <2>4. CASE Serving
    BY <2>1, <2>2, <2>4 DEF Serving, Begin, End, Ask
  <2>5. CASE Deciding \/ Presenting \/ Expire \/ Touch
    BY <2>2, <2>5 DEF Deciding, DecideInPopup, DecideInPanel, Presenting, Connect, Vanish, Disconnect,
                      Expire, Touch
  <2>6. CASE Lock \/ Unlock \/ (\E i \in Ids : Finish(i)) \/ (\E d \in decisions : LockOnDecision(d))
    <3>1. \E ids \in SUBSET Ids : approval' = Answered(ids, "denied")
      BY <2>6 DEF Lock, Unlock, Finish, LockOnDecision, Close, Bound, Pending
    <3>2. QED
      BY <2>3, <3>1
  <2>7. ASSUME NEW d \in decisions, Resolve(d)
        PROVE  approval'[id].state # "approved"
    <3>1. id # d.id
      BY <2>1, <2>7 DEF Resolve, ExpiresFirst
    <3>2. approval'[id] = approval[id]
      BY <2>1, <2>7, <3>1 DEF Resolve, Answered
    <3>3. QED
      BY <2>2, <3>2
  <2>8. QED
    BY <2>4, <2>5, <2>6, <2>7 DEF Next, Answering
<1>2. IInv /\ [Next]_vars => [A]_vars
  BY <1>1
<1>3. QED
  BY <1>2, Invariance, PTL DEF Spec, ExpiredNeverApproves
=============================================================================
