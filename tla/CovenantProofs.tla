---------------------------- MODULE CovenantProofs ----------------------------
(***************************************************************************)
(* Proofs about CovenantLives, for any users, coins, lives, vaults and     *)
(* clocks: the wallet's next_state agrees with the contract of the Wyrm,   *)
(* no Wyrm dies early or gets stuck, and a vault pays its heir only.       *)
(***************************************************************************)
EXTENDS CovenantLives, SequenceTheorems, TLAPS

----------------------------------------------------------------------------
(* The states of a Wyrm and the steps between them.                        *)

\* Whatever the wallet asks a step for.
StepRequest(r) ==
  /\ r.action \in Actions /\ r.kind \in 0 .. 5
  /\ r.recipient \in Users /\ r.name \in WyrmNames

\* Among five counts one leads: if none does, all are zero.
LEMMA SomeFeedLeads ==
  ASSUME NEW f \in [Kinds -> Nat]
  PROVE  \E k \in Kinds : \A j \in Kinds : f[k] >= f[j]
<1>1. \A k \in Kinds : f[k] \in Nat
  OBVIOUS
<1>2. Kinds = {1, 2, 3, 4, 5}
  BY DEF Kinds
<1>3. PICK a \in {1, 2} : f[a] >= f[1] /\ f[a] >= f[2]
  BY <1>1, <1>2
<1>4. PICK b \in {a, 3} : f[b] >= f[a] /\ f[b] >= f[3]
  BY <1>1, <1>2
<1>5. PICK c \in {b, 4} : f[c] >= f[b] /\ f[c] >= f[4]
  BY <1>1, <1>2
<1>6. PICK d \in {c, 5} : f[d] >= f[c] /\ f[d] >= f[5]
  BY <1>1, <1>2
<1>7. d \in Kinds /\ c \in Kinds /\ b \in Kinds /\ a \in Kinds
  BY <1>2
<1>8. \A j \in Kinds : f[d] >= f[j]
  BY <1>1, <1>2, <1>3, <1>4, <1>5, <1>6, <1>7
<1> QED
  BY <1>7, <1>8

\* grow chooses a specialisation that the contract lets a state have.
LEMMA WalletGrowth ==
  ASSUME NEW p \in WyrmStates, NEW choice, NEW s \in Specialised(p, choice),
         p.stage < 3, p.care >= GrowthNeeds[p.stage + 1], p.days >= GrowthNeeds[p.stage + 1]
  PROVE  Grown(p, [p EXCEPT !.stage = @ + 1, !.spec = s])
<1> DEFINE n == [p EXCEPT !.stage = @ + 1, !.spec = s]
<1>1. p.stage \in Nat /\ p.feeds \in [Kinds -> Nat]
  BY DEF WyrmStates
<1>2. n.stage = p.stage + 1 /\ n.spec = s /\ n = [p EXCEPT !.stage = @ + 1, !.spec = n.spec]
  BY DEF WyrmStates
<1>3. n.stage \in 1 .. 3
  BY <1>1, <1>2
<1>4. \A k \in Kinds : p.feeds[k] \in Nat
  BY <1>1
<1>5. IF n.stage # 2 THEN s = p.spec
      ELSE IF \A k \in Kinds : p.feeds[k] = 0 THEN s = 0
      ELSE s \in Kinds /\ \A k \in Kinds : p.feeds[s] >= p.feeds[k]
  <2>1. CASE p.stage # 1
    <3>1. s = p.spec
      BY <2>1 DEF Specialised
    <3> QED
      BY <1>1, <1>2, <2>1, <3>1
  <2>2. CASE p.stage = 1 /\ Leading(p) = {}
    <3>1. PICK k \in Kinds : \A j \in Kinds : p.feeds[k] >= p.feeds[j]
      BY <1>1, SomeFeedLeads
    <3>2. p.feeds[k] = 0
      BY <1>4, <2>2, <3>1 DEF Leading
    <3>3. \A j \in Kinds : p.feeds[j] = 0
      BY <1>4, <3>1, <3>2
    <3>4. s = 0
      BY <2>2 DEF Specialised
    <3> QED
      BY <1>2, <2>2, <3>3, <3>4
  <2>3. CASE p.stage = 1 /\ Leading(p) # {}
    <3>1. s \in Leading(p)
      BY <2>3 DEF Specialised
    <3>2. s \in Kinds /\ p.feeds[s] > 0 /\ \A k \in Kinds : p.feeds[s] >= p.feeds[k]
      BY <3>1 DEF Leading
    <3> QED
      BY <1>2, <2>3, <3>2
  <2> QED
    BY <2>1, <2>2, <2>3
<1>6. p.care >= GrowthNeeds[n.stage] /\ p.days >= GrowthNeeds[n.stage]
  BY <1>2
<1> HIDE DEF n
<1>7. Grown(p, n)
  BY <1>2, <1>3, <1>5, <1>6 DEF Grown
<1> QED
  BY <1>7 DEF n

\* Writing the fields of a state, one at a time.
LEMMA StateFields ==
  ASSUME NEW p \in WyrmStates
  PROVE  /\ \A x \in Egg .. Dead : [p EXCEPT !.phase = x] \in WyrmStates
         /\ \A b \in BOOLEAN : [p EXCEPT !.warmed = b] \in WyrmStates
         /\ \A x \in Int : [p EXCEPT !.anchor = x] \in WyrmStates
         /\ \A x \in Int : [p EXCEPT !.sleep = x] \in WyrmStates
         /\ \A x \in Nat : [p EXCEPT !.stage = x] \in WyrmStates
         /\ \A x \in Nat : [p EXCEPT !.spec = x] \in WyrmStates
         /\ \A x \in Nat : [p EXCEPT !.care = x] \in WyrmStates
         /\ \A x \in Nat : [p EXCEPT !.days = x] \in WyrmStates
         /\ \A o \in Users : [p EXCEPT !.owner = o] \in WyrmStates
         /\ \A x \in WyrmNames : [p EXCEPT !.name = x] \in WyrmStates
         /\ \A f \in [Kinds -> Nat] : [p EXCEPT !.feeds = f] \in WyrmStates
BY DEF WyrmStates

\* Writing what a field holds already changes nothing.  Outside sleep a state
\* that compiles has no time of falling asleep, so that the contract, which
\* asks for zero, asks for nothing new.
LEMMA SameField ==
  ASSUME NEW p \in WyrmStates
  PROVE  /\ p.sleep = 0 => [p EXCEPT !.sleep = 0] = p
         /\ p.stage = 0 => [p EXCEPT !.stage = 0] = p
         /\ \A x : p.phase = x => [p EXCEPT !.phase = x] = p
         /\ \A x : p.warmed = x => [p EXCEPT !.warmed = x] = p
BY DEF WyrmStates

\* Each write leaves the other fields that the properties read alone.
LEMMA FieldsKept ==
  ASSUME NEW p \in WyrmStates
  PROVE  /\ \A x \in Egg .. Dead : LET q == [p EXCEPT !.phase = x]
                                  IN  q.phase = x /\ q.sleep = p.sleep /\ q.anchor = p.anchor /\ q.stage = p.stage
                                      /\ q.spec = p.spec /\ q.serial = p.serial /\ q.element = p.element
         /\ \A b \in BOOLEAN : LET q == [p EXCEPT !.warmed = b]
                              IN  q.phase = p.phase /\ q.sleep = p.sleep /\ q.anchor = p.anchor /\ q.stage = p.stage
                                  /\ q.spec = p.spec /\ q.serial = p.serial /\ q.element = p.element
         /\ \A x \in Int : LET q == [p EXCEPT !.anchor = x]
                          IN  q.phase = p.phase /\ q.sleep = p.sleep /\ q.anchor = x /\ q.stage = p.stage
                              /\ q.spec = p.spec /\ q.serial = p.serial /\ q.element = p.element
         /\ \A x \in Int : LET q == [p EXCEPT !.sleep = x]
                          IN  q.phase = p.phase /\ q.sleep = x /\ q.anchor = p.anchor /\ q.stage = p.stage
                              /\ q.spec = p.spec /\ q.serial = p.serial /\ q.element = p.element
         /\ \A x \in Nat : LET q == [p EXCEPT !.stage = x]
                          IN  q.phase = p.phase /\ q.sleep = p.sleep /\ q.anchor = p.anchor /\ q.stage = x
                              /\ q.spec = p.spec /\ q.serial = p.serial /\ q.element = p.element
         /\ \A x \in Nat : LET q == [p EXCEPT !.spec = x]
                          IN  q.phase = p.phase /\ q.sleep = p.sleep /\ q.anchor = p.anchor /\ q.stage = p.stage
                              /\ q.spec = x /\ q.serial = p.serial /\ q.element = p.element
         /\ \A o \in Users : LET q == [p EXCEPT !.owner = o]
                            IN  q.phase = p.phase /\ q.sleep = p.sleep /\ q.anchor = p.anchor /\ q.stage = p.stage
                                /\ q.spec = p.spec /\ q.serial = p.serial /\ q.element = p.element
         /\ \A x \in WyrmNames : LET q == [p EXCEPT !.name = x]
                             IN  q.phase = p.phase /\ q.sleep = p.sleep /\ q.anchor = p.anchor /\ q.stage = p.stage
                                 /\ q.spec = p.spec /\ q.serial = p.serial /\ q.element = p.element
         /\ \A f \in [Kinds -> Nat] : LET q == [p EXCEPT !.feeds = f]
                             IN  q.phase = p.phase /\ q.sleep = p.sleep /\ q.anchor = p.anchor /\ q.stage = p.stage
                                 /\ q.spec = p.spec /\ q.serial = p.serial /\ q.element = p.element
BY DEF WyrmStates

\* What incubate, warm and hatch write.
Born(p, phase, warmed, clock) == [p EXCEPT !.phase = phase, !.warmed = warmed, !.anchor = clock]

LEMMA BirthIsAState ==
  ASSUME NEW p \in WyrmStates, NEW phase \in Egg .. Dead, NEW warmed \in BOOLEAN, NEW clock \in Int
  PROVE  /\ Born(p, phase, warmed, clock) \in WyrmStates
         /\ Born(p, phase, warmed, clock).phase = phase /\ Born(p, phase, warmed, clock).sleep = p.sleep
         /\ Born(p, phase, warmed, clock).anchor = clock /\ Born(p, phase, warmed, clock).stage = p.stage
         /\ Born(p, phase, warmed, clock).spec = p.spec /\ Born(p, phase, warmed, clock).serial = p.serial
         /\ Born(p, phase, warmed, clock).element = p.element
<1> DEFINE q == Born(p, phase, warmed, clock)
<1> DEFINE q1 == [p EXCEPT !.phase = phase]
           q2 == [q1 EXCEPT !.warmed = warmed]
           q3 == [q2 EXCEPT !.anchor = clock]
<1>1. /\ q1 \in WyrmStates /\ q1.phase = phase /\ q1.sleep = p.sleep /\ q1.anchor = p.anchor
      /\ q1.stage = p.stage /\ q1.spec = p.spec /\ q1.serial = p.serial /\ q1.element = p.element
  BY StateFields, FieldsKept
<1> HIDE DEF q1
<1>2. /\ q2 \in WyrmStates /\ q2.phase = phase /\ q2.sleep = p.sleep
      /\ q2.stage = p.stage /\ q2.spec = p.spec /\ q2.serial = p.serial /\ q2.element = p.element
  BY <1>1, StateFields, FieldsKept
<1> HIDE DEF q2
<1>3. /\ q3 \in WyrmStates /\ q3.phase = phase /\ q3.sleep = p.sleep /\ q3.anchor = clock
      /\ q3.stage = p.stage /\ q3.spec = p.spec /\ q3.serial = p.serial /\ q3.element = p.element
  BY <1>2, StateFields, FieldsKept
<1>4. q = q3
  BY DEF q2, q1, Born
<1> QED
  BY <1>3, <1>4

\* A creature hatches at the stage it has.
LEMMA HatchKeepsStage ==
  ASSUME NEW p \in WyrmStates, p.stage = 0, NEW phase \in Egg .. Dead, NEW clock \in Int
  PROVE  [p EXCEPT !.phase = phase, !.stage = 0, !.anchor = clock] = [p EXCEPT !.phase = phase, !.anchor = clock]
<1> DEFINE q == [p EXCEPT !.phase = phase]
<1>1. q \in WyrmStates /\ q.stage = 0
  BY StateFields, FieldsKept
<1>2. [q EXCEPT !.stage = 0] = q
  BY <1>1, SameField
<1>3. [[q EXCEPT !.stage = 0] EXCEPT !.anchor = clock] = [q EXCEPT !.anchor = clock]
  BY <1>2
<1> QED
  BY <1>3

\* The same with one of the three left as it is.
LEMMA ClockIsAState ==
  ASSUME NEW p \in WyrmStates, NEW phase \in Egg .. Dead, NEW warmed \in BOOLEAN, NEW clock \in Int
  PROVE  /\ phase = p.phase =>
              [p EXCEPT !.warmed = warmed, !.anchor = clock] = [p EXCEPT !.phase = phase, !.warmed = warmed, !.anchor = clock]
         /\ warmed = p.warmed =>
              [p EXCEPT !.phase = phase, !.anchor = clock] = [p EXCEPT !.phase = phase, !.warmed = warmed, !.anchor = clock]
<1>1. phase = p.phase => [p EXCEPT !.phase = phase] = p
  BY SameField
<1> DEFINE q == [p EXCEPT !.phase = phase]
<1>2. q \in WyrmStates /\ q.warmed = p.warmed
  BY StateFields DEF WyrmStates
<1>3. warmed = p.warmed => [q EXCEPT !.warmed = warmed] = q
  BY <1>2, SameField
<1> QED
  BY <1>1, <1>3

LEMMA MealIsAState ==
  ASSUME NEW p \in WyrmStates, NEW clock \in Int
  PROVE  /\ Meal(p, clock) \in WyrmStates
         /\ Meal(p, clock).sleep = p.sleep /\ Meal(p, clock).phase = p.phase
         /\ Meal(p, clock).stage = p.stage /\ Meal(p, clock).spec = p.spec
         /\ Meal(p, clock).serial = p.serial /\ Meal(p, clock).element = p.element
         /\ Meal(p, clock).anchor = clock /\ Meal(p, clock).feeds = p.feeds
<1>1. Meal(p, clock) = [[[p EXCEPT !.care = p.care + 1] EXCEPT !.days = p.days + 1] EXCEPT !.anchor = clock]
  BY DEF Meal, WyrmStates
<1>2. [p EXCEPT !.care = p.care + 1] \in WyrmStates /\ p.days + 1 \in Nat
  BY DEF WyrmStates
<1>3. [[p EXCEPT !.care = p.care + 1] EXCEPT !.days = p.days + 1] \in WyrmStates
  BY <1>2, StateFields
<1>4. Meal(p, clock) \in WyrmStates
  BY <1>1, <1>3, StateFields
<1> QED
  BY <1>1, <1>4 DEF WyrmStates

\* The wallet's next_state and the contract are two programs: every step the
\* first one makes is a step the second one accepts.
THEOREM WalletStepsAreLegal ==
  ASSUME NEW p, NEW at, Sound(p, at),
         NEW r, StepRequest(r), r.kind # 0 => r.action = "specialFeed",
         NEW clock \in Int, NEW n \in NextStates(p, r, clock),
         NEW approver, NEW payer,
         RequiresOwner(r.action) => approver = p.owner /\ payer = p.owner
  PROVE  ContractAccepts(p, n, r.action, r.kind, clock, approver, payer)
<1> DEFINE age == clock - p.anchor
<1>0. p \in WyrmStates
  BY DEF Sound
<1>2. /\ age \in Int /\ p.phase \in Egg .. Dead /\ p.sleep \in Int /\ p.anchor \in Int
      /\ p.stage \in Nat /\ HalfDay \in Nat \ {0}
  BY <1>0, CovenantAssumption DEF WyrmStates
<1>1. age >= 0 /\ TimeIsRight(p, r, age, clock)
  <2>1. age < 0 \/ ~TimeIsRight(p, r, age, clock) => NextStates(p, r, clock) = {}
    BY DEF NextStates
  <2> QED
    BY <1>2, <2>1
<1>3. r.action = "die" \/ (approver = p.owner /\ payer = p.owner)
  BY DEF RequiresOwner
<1>4. r.action = "specialFeed" \/ r.kind = 0
  OBVIOUS
<1>5. p.phase # Asleep => p.sleep = 0
  BY DEF Sound, Compilable
<1>15. p.phase = Incubating => p.stage = 0
  BY DEF Sound
<1> USE DEF Egg, Incubating, Alive, Asleep, Dead
<1>6. CASE r.action = "incubate"
  <2>1. p.phase = Egg
    BY <1>1, <1>6 DEF TimeIsRight
  <2>2. n = [p EXCEPT !.phase = Incubating, !.warmed = FALSE, !.anchor = clock]
    BY <1>1, <1>6 DEF NextStates
  <2>3. n \in WyrmStates /\ n.sleep = 0
    <3>1. p.sleep = 0
      BY <1>5, <2>1
    <3>2. n = Born(p, Incubating, FALSE, clock)
      BY <2>2 DEF Born
    <3>3. Incubating \in Egg .. Dead
      OBVIOUS
    <3>4. n \in WyrmStates /\ n.sleep = p.sleep
      BY <1>0, <3>2, <3>3, BirthIsAState
    <3> QED
      BY <3>1, <3>4
  <2>4. n = [n EXCEPT !.sleep = 0]
    BY <2>3, SameField
  <2>5. n = [p EXCEPT !.phase = Incubating, !.warmed = FALSE, !.anchor = clock, !.sleep = 0]
    BY <2>2, <2>4
  <2> QED
    BY <1>1, <1>3, <1>4, <1>6, <2>1, <2>5 DEF ContractAccepts
<1>7. CASE r.action = "warm"
  <2>1. p.phase = Incubating /\ ~p.warmed /\ age >= HalfDay
    BY <1>1, <1>7 DEF TimeIsRight
  <2>2. n = [p EXCEPT !.warmed = TRUE, !.anchor = clock]
    BY <1>1, <1>7 DEF NextStates
  <2>3. n \in WyrmStates /\ n.sleep = 0
    <3>1. p.sleep = 0
      BY <1>5, <2>1
    <3>2. n = Born(p, Incubating, TRUE, clock)
      BY <1>0, <2>1, <2>2, ClockIsAState DEF Born
    <3>3. Incubating \in Egg .. Dead
      OBVIOUS
    <3>4. n \in WyrmStates /\ n.sleep = p.sleep
      BY <1>0, <3>2, <3>3, BirthIsAState
    <3> QED
      BY <3>1, <3>4
  <2>4. n = [n EXCEPT !.sleep = 0]
    BY <2>3, SameField
  <2>5. n = [p EXCEPT !.warmed = TRUE, !.anchor = clock, !.sleep = 0]
    BY <2>2, <2>4
  <2> QED
    BY <1>1, <1>3, <1>4, <1>7, <2>1, <2>5 DEF ContractAccepts
<1>8. CASE r.action = "hatch"
  <2>1. p.phase = Incubating /\ p.warmed /\ age >= HalfDay
    BY <1>1, <1>8 DEF TimeIsRight
  <2>2. n = [p EXCEPT !.phase = Alive, !.stage = 0, !.anchor = clock]
    BY <1>1, <1>8 DEF NextStates
  <2>3. n = [p EXCEPT !.phase = Alive, !.anchor = clock]
    BY <1>0, <1>15, <2>1, <2>2, HatchKeepsStage
  <2>4. p.warmed \in BOOLEAN
    BY <1>0 DEF WyrmStates
  <2>5. n \in WyrmStates /\ n.sleep = 0
    <3>1. p.sleep = 0
      BY <1>5, <2>1
    <3>2. n = Born(p, Alive, TRUE, clock)
      <4>1. p.warmed = TRUE
        BY <2>1, <2>4
      <4> QED
        BY <1>0, <2>3, <4>1, ClockIsAState DEF Born
    <3>3. Alive \in Egg .. Dead
      OBVIOUS
    <3>4. n \in WyrmStates /\ n.sleep = p.sleep
      BY <1>0, <3>2, <3>3, BirthIsAState
    <3> QED
      BY <3>1, <3>4
  <2>6. n = [n EXCEPT !.sleep = 0]
    BY <2>5, SameField
  <2>7. n = [p EXCEPT !.phase = Alive, !.anchor = clock, !.sleep = 0]
    BY <2>3, <2>6
  <2> QED
    BY <1>1, <1>3, <1>4, <1>8, <2>1, <2>7 DEF ContractAccepts
<1>9. CASE r.action = "feed"
  <2>1. p.phase = Alive /\ age \in Day .. ThreeDays - 1
    BY <1>1, <1>9 DEF TimeIsRight
  <2>2. n = Meal(p, clock)
    BY <1>1, <1>9 DEF NextStates
  <2>3. n \in WyrmStates /\ n.sleep = 0
    <3>1. p.sleep = 0
      BY <1>5, <2>1
    <3>2. Meal(p, clock) \in WyrmStates /\ Meal(p, clock).sleep = p.sleep
      BY <1>0, MealIsAState
    <3> QED
      BY <2>2, <3>1, <3>2
  <2>4. n = [Meal(p, clock) EXCEPT !.sleep = 0]
    BY <2>2, <2>3, SameField
  <2>5. age >= Day /\ age < ThreeDays
    BY <1>2, <2>1 DEF Day, ThreeDays
  <2> QED
    BY <1>1, <1>3, <1>4, <1>9, <2>1, <2>4, <2>5 DEF ContractAccepts
<1>10. CASE r.action = "specialFeed"
  <2>1. p.phase = Alive /\ age \in Day .. ThreeDays - 1 /\ r.kind \in Kinds
    BY <1>1, <1>10 DEF TimeIsRight
  <2>2. n = [Meal(p, clock) EXCEPT !.feeds[r.kind] = @ + 1]
    BY <1>1, <1>10 DEF NextStates
  <2>3. n \in WyrmStates /\ n.sleep = 0
    <3> DEFINE m == Meal(p, clock)
               f == [m.feeds EXCEPT ![r.kind] = @ + 1]
    <3>1. m \in WyrmStates /\ m.sleep = 0
      <4>1. p.sleep = 0
        BY <1>5, <2>1
      <4>2. Meal(p, clock) \in WyrmStates /\ Meal(p, clock).sleep = p.sleep
        BY <1>0, MealIsAState
      <4> QED
        BY <4>1, <4>2
    <3> HIDE DEF m
    <3>2. f \in [Kinds -> Nat]
      BY <2>1, <3>1 DEF WyrmStates
    <3>3. n = [m EXCEPT !.feeds = f]
      BY <2>2, <3>1 DEF m, WyrmStates
    <3> HIDE DEF f
    <3> QED
      BY <3>1, <3>2, <3>3 DEF WyrmStates
  <2>4. n = [n EXCEPT !.sleep = 0]
    BY <2>3, SameField
  <2>5. n = [Meal(p, clock) EXCEPT !.feeds[r.kind] = @ + 1, !.sleep = 0]
    BY <2>2, <2>4
  <2>6. age >= Day /\ age < ThreeDays
    BY <1>2, <2>1 DEF Day, ThreeDays
  <2> QED
    BY <1>1, <1>3, <1>10, <2>1, <2>5, <2>6 DEF ContractAccepts
<1>11. CASE r.action = "transfer"
  <2>1. p.phase \in {Egg, Asleep}
    BY <1>1, <1>11 DEF TimeIsRight
  <2>2. n = [p EXCEPT !.owner = r.recipient] /\ r.recipient # p.owner
    BY <1>1, <1>11 DEF NextStates
  <2>3. n.owner = r.recipient
    BY <1>0, <2>2 DEF WyrmStates
  <2> QED
    BY <1>1, <1>3, <1>4, <1>11, <2>1, <2>2, <2>3 DEF ContractAccepts
<1>12. CASE r.action = "grow"
  <2>1. /\ p.phase = Alive /\ p.stage < 3
        /\ p.care >= GrowthNeeds[p.stage + 1] /\ p.days >= GrowthNeeds[p.stage + 1]
    BY <1>1, <1>12 DEF TimeIsRight
  <2>2. PICK s \in Specialised(p, r.choice) : n = [p EXCEPT !.stage = @ + 1, !.spec = s]
    BY <1>1, <1>12 DEF NextStates
  <2>3. Grown(p, n)
    BY <1>0, <2>1, <2>2, WalletGrowth
  <2> QED
    BY <1>1, <1>3, <1>4, <1>12, <2>1, <2>3 DEF ContractAccepts
<1>13. CASE r.action = "die"
  <2>1. p.phase = Alive /\ age >= ThreeDays
    BY <1>1, <1>13 DEF TimeIsRight
  <2>2. n = [p EXCEPT !.phase = Dead]
    BY <1>1, <1>13 DEF NextStates
  <2> QED
    BY <1>1, <1>3, <1>4, <1>13, <2>1, <2>2 DEF ContractAccepts, DeathDue
<1>14. CASE r.action = "name"
  <2>1. p.phase = Alive
    BY <1>1, <1>14 DEF TimeIsRight
  <2>2. n = [p EXCEPT !.name = r.name] /\ r.name # p.name
    BY <1>1, <1>14 DEF NextStates
  <2>3. n.name = r.name
    BY <1>0, <2>2 DEF WyrmStates
  <2> QED
    BY <1>1, <1>3, <1>4, <1>14, <2>1, <2>2, <2>3 DEF ContractAccepts
<1>16. CASE r.action = "sleep"
  <2>1. p.phase = Alive /\ age < ThreeDays
    BY <1>1, <1>16 DEF TimeIsRight
  <2>2. n = [p EXCEPT !.phase = Asleep, !.sleep = clock]
    BY <1>1, <1>16 DEF NextStates
  <2> QED
    BY <1>1, <1>3, <1>4, <1>16, <2>1, <2>2 DEF ContractAccepts
<1>17. CASE r.action = "wake"
  <2>1. p.phase = Asleep /\ p.sleep >= p.anchor /\ clock - p.sleep >= Day
    BY <1>1, <1>17 DEF TimeIsRight
  <2>2. n = [p EXCEPT !.phase = Alive, !.anchor = clock - (p.sleep - p.anchor), !.sleep = 0]
    BY <1>1, <1>17 DEF NextStates
  <2> QED
    BY <1>1, <1>3, <1>4, <1>17, <2>1, <2>2 DEF ContractAccepts
<1> QED
  BY <1>6, <1>7, <1>8, <1>9, <1>10, <1>11, <1>12, <1>13, <1>14, <1>16, <1>17 DEF Actions, StepRequest

\* What a step must keep for its result to be sound.
LEMMA SoundSuccessor ==
  ASSUME NEW p, NEW at \in Int, Sound(p, at),
         NEW n \in WyrmStates, n.serial = p.serial, n.element = p.element,
         n.stage \in 0 .. 3, n.spec \in 0 .. 5,
         n.phase # Egg \/ (n.anchor = p.anchor /\ p.phase = Egg),
         n.phase \in {Egg, Incubating} => n.stage = 0,
         IF n.phase = Asleep THEN n.sleep >= n.anchor ELSE n.sleep = 0,
         n.anchor <= at, n.sleep <= at, n.phase = Dead => n.anchor + ThreeDays <= at
  PROVE  Sound(n, at)
<1>1. n.phase \in Egg .. Dead
  BY DEF WyrmStates
<1> QED
  BY <1>1 DEF Sound, Compilable

LEMMA ContractKeepsSound ==
  ASSUME NEW p, NEW at \in Nat, Sound(p, at), NEW clock \in Int, clock <= at,
         NEW a \in Actions, NEW kind, NEW n,
         a = "transfer" => n.owner \in Users, a = "name" => n.name \in WyrmNames,
         NEW approver, NEW payer, ContractAccepts(p, n, a, kind, clock, approver, payer)
  PROVE  Sound(n, at)
<1> DEFINE age == clock - p.anchor
<1>0. p \in WyrmStates
  BY DEF Sound
<1>1. /\ age \in Int /\ p.phase \in Egg .. Dead /\ p.sleep \in Int /\ p.anchor \in Int
      /\ p.stage \in Nat /\ p.spec \in Nat /\ HalfDay \in Nat \ {0}
  BY <1>0, CovenantAssumption DEF WyrmStates
<1>2. /\ p.stage \in 0 .. 3 /\ p.spec \in 0 .. 5 /\ p.anchor <= at /\ p.sleep <= at
      /\ p.phase \in {Egg, Incubating} => p.stage = 0
      /\ IF p.phase = Asleep THEN p.sleep >= p.anchor ELSE p.sleep = 0
  BY DEF Sound, Compilable
<1>3. age >= 0
  BY DEF ContractAccepts
<1>4. clock >= p.anchor
  BY <1>1, <1>3
<1>5. \A q \in WyrmStates : [q EXCEPT !.sleep = 0] \in WyrmStates
  BY StateFields
<1> USE DEF Egg, Incubating, Alive, Asleep, Dead
<1>6. CASE a = "die"
  <2>1. p.phase = Alive /\ age >= ThreeDays /\ n = [p EXCEPT !.phase = Dead]
    BY <1>6 DEF ContractAccepts, DeathDue
  <2>2. Dead \in Egg .. Dead
    OBVIOUS
  <2>3. /\ n \in WyrmStates /\ n.phase = Dead /\ n.sleep = p.sleep /\ n.anchor = p.anchor /\ n.stage = p.stage
        /\ n.spec = p.spec /\ n.serial = p.serial /\ n.element = p.element
    BY <1>0, <2>1, <2>2, StateFields, FieldsKept
  <2>4. n.anchor + ThreeDays <= at
    BY <1>1, <2>1, <2>3 DEF ThreeDays
  <2>20. /\ n.serial = p.serial /\ n.element = p.element /\ n.stage \in 0 .. 3 /\ n.spec \in 0 .. 5
         /\ n.phase # Egg \/ (n.anchor = p.anchor /\ p.phase = Egg)
         /\ n.phase \in {Egg, Incubating} => n.stage = 0
         /\ IF n.phase = Asleep THEN n.sleep >= n.anchor ELSE n.sleep = 0
         /\ n.anchor <= at /\ n.sleep <= at /\ (n.phase = Dead => n.anchor + ThreeDays <= at)
    BY <1>1, <1>2, <2>1, <2>3, <2>4
  <2> QED
    BY <2>3, <2>4, <2>20, SoundSuccessor
<1>7. CASE a = "incubate"
  <2> DEFINE q == Born(p, Incubating, FALSE, clock)
  <2>0. q = Born(p, Incubating, FALSE, clock)
    OBVIOUS
  <2> HIDE DEF q
  <2>1. p.phase = Egg /\ n = [q EXCEPT !.sleep = 0]
    BY <1>7, <2>0 DEF ContractAccepts, Born
  <2>2. Incubating \in Egg .. Dead
    OBVIOUS
  <2>3. /\ q \in WyrmStates /\ q.phase = Incubating /\ q.sleep = p.sleep /\ q.anchor = clock /\ q.stage = p.stage
        /\ q.spec = p.spec /\ q.serial = p.serial /\ q.element = p.element
    <3>1. q \in WyrmStates
      BY <1>0, <2>0, <2>2, BirthIsAState
    <3>2. q.phase = Incubating /\ q.sleep = p.sleep
      BY <1>0, <2>0, <2>2, BirthIsAState
    <3>3. q.anchor = clock /\ q.stage = p.stage
      BY <1>0, <2>0, <2>2, BirthIsAState
    <3>4. q.spec = p.spec /\ q.serial = p.serial /\ q.element = p.element
      BY <1>0, <2>0, <2>2, BirthIsAState
    <3> QED
      BY <3>1, <3>2, <3>3, <3>4
  <2>4. p.sleep = 0 /\ n = q
    BY <1>2, <2>1, <2>3, SameField
  <2>20. /\ n.serial = p.serial /\ n.element = p.element /\ n.stage \in 0 .. 3 /\ n.spec \in 0 .. 5
         /\ n.phase # Egg \/ (n.anchor = p.anchor /\ p.phase = Egg)
         /\ n.phase \in {Egg, Incubating} => n.stage = 0
         /\ IF n.phase = Asleep THEN n.sleep >= n.anchor ELSE n.sleep = 0
         /\ n.anchor <= at /\ n.sleep <= at /\ (n.phase = Dead => n.anchor + ThreeDays <= at)
    BY <1>1, <1>2, <1>4, <2>1, <2>3, <2>4
  <2> QED
    BY <2>3, <2>4, <2>20, SoundSuccessor
<1>8. CASE a = "warm"
  <2> DEFINE q == Born(p, Incubating, TRUE, clock)
  <2>0. q = Born(p, Incubating, TRUE, clock)
    OBVIOUS
  <2> HIDE DEF q
  <2>1. p.phase = Incubating
    BY <1>8 DEF ContractAccepts
  <2>11. n = [p EXCEPT !.warmed = TRUE, !.anchor = clock, !.sleep = 0]
    BY <1>8 DEF ContractAccepts
  <2>2. Incubating \in Egg .. Dead
    OBVIOUS
  <2>3. /\ q \in WyrmStates /\ q.phase = Incubating /\ q.sleep = p.sleep /\ q.anchor = clock /\ q.stage = p.stage
        /\ q.spec = p.spec /\ q.serial = p.serial /\ q.element = p.element
    <3>1. q \in WyrmStates
      BY <1>0, <2>0, <2>2, BirthIsAState
    <3>2. q.phase = Incubating /\ q.sleep = p.sleep
      BY <1>0, <2>0, <2>2, BirthIsAState
    <3>3. q.anchor = clock /\ q.stage = p.stage
      BY <1>0, <2>0, <2>2, BirthIsAState
    <3>4. q.spec = p.spec /\ q.serial = p.serial /\ q.element = p.element
      BY <1>0, <2>0, <2>2, BirthIsAState
    <3> QED
      BY <3>1, <3>2, <3>3, <3>4
  <2>4. q = [p EXCEPT !.warmed = TRUE, !.anchor = clock]
    BY <1>0, <2>1, <2>0, ClockIsAState DEF Born
  <2>5. n = [q EXCEPT !.sleep = 0]
    BY <2>11, <2>4
  <2>6. p.sleep = 0 /\ n = q
    BY <1>2, <2>1, <2>3, <2>5, SameField
  <2>20. /\ n.serial = p.serial /\ n.element = p.element /\ n.stage \in 0 .. 3 /\ n.spec \in 0 .. 5
         /\ n.phase # Egg \/ (n.anchor = p.anchor /\ p.phase = Egg)
         /\ n.phase \in {Egg, Incubating} => n.stage = 0
         /\ IF n.phase = Asleep THEN n.sleep >= n.anchor ELSE n.sleep = 0
         /\ n.anchor <= at /\ n.sleep <= at /\ (n.phase = Dead => n.anchor + ThreeDays <= at)
    BY <1>1, <1>2, <1>4, <2>1, <2>3, <2>6
  <2> QED
    BY <2>3, <2>6, <2>20, SoundSuccessor
<1>9. CASE a = "hatch"
  <2> DEFINE q == Born(p, Alive, TRUE, clock)
  <2>0. q = Born(p, Alive, TRUE, clock)
    OBVIOUS
  <2> HIDE DEF q
  <2>1. p.phase = Incubating /\ p.warmed
    BY <1>9 DEF ContractAccepts
  <2>11. n = [p EXCEPT !.phase = Alive, !.anchor = clock, !.sleep = 0]
    BY <1>9 DEF ContractAccepts
  <2>2. Alive \in Egg .. Dead
    OBVIOUS
  <2>3. /\ q \in WyrmStates /\ q.phase = Alive /\ q.sleep = p.sleep /\ q.anchor = clock /\ q.stage = p.stage
        /\ q.spec = p.spec /\ q.serial = p.serial /\ q.element = p.element
    <3>1. q \in WyrmStates
      BY <1>0, <2>0, <2>2, BirthIsAState
    <3>2. q.phase = Alive
      BY <1>0, <2>0, <2>2, BirthIsAState
    <3>5. q.sleep = p.sleep
      BY <1>0, <2>0, <2>2, BirthIsAState
    <3>3. q.anchor = clock /\ q.stage = p.stage
      BY <1>0, <2>0, <2>2, BirthIsAState
    <3>4. q.spec = p.spec /\ q.serial = p.serial /\ q.element = p.element
      BY <1>0, <2>0, <2>2, BirthIsAState
    <3> QED
      BY <3>1, <3>2, <3>3, <3>4, <3>5
  <2>4. q = [p EXCEPT !.phase = Alive, !.anchor = clock]
    <3>1. p.warmed = TRUE
      BY <1>0, <2>1 DEF WyrmStates
    <3> QED
      BY <1>0, <3>1, <2>0, ClockIsAState DEF Born
  <2>5. n = [q EXCEPT !.sleep = 0]
    BY <2>11, <2>4
  <2>6. p.sleep = 0 /\ n = q
    BY <1>2, <2>1, <2>3, <2>5, SameField
  <2>20. /\ n.serial = p.serial /\ n.element = p.element /\ n.stage \in 0 .. 3 /\ n.spec \in 0 .. 5
         /\ n.phase # Egg \/ (n.anchor = p.anchor /\ p.phase = Egg)
         /\ n.phase \in {Egg, Incubating} => n.stage = 0
         /\ IF n.phase = Asleep THEN n.sleep >= n.anchor ELSE n.sleep = 0
         /\ n.anchor <= at /\ n.sleep <= at /\ (n.phase = Dead => n.anchor + ThreeDays <= at)
    BY <1>1, <1>2, <1>4, <2>1, <2>3, <2>6
  <2> QED
    BY <2>3, <2>6, <2>20, SoundSuccessor
<1>10. CASE a = "feed"
  <2> DEFINE q == Meal(p, clock)
  <2>1. p.phase = Alive /\ n = [q EXCEPT !.sleep = 0]
    BY <1>10 DEF ContractAccepts
  <2>2. q \in WyrmStates /\ q.sleep = p.sleep /\ q.phase = p.phase /\ q.stage = p.stage
    BY <1>0, MealIsAState
  <2>3. q.spec = p.spec /\ q.serial = p.serial /\ q.element = p.element /\ q.anchor = clock
    BY <1>0, MealIsAState
  <2> HIDE DEF q
  <2>4. p.sleep = 0 /\ n = q
    BY <1>2, <2>1, <2>2, SameField
  <2>20. /\ n.serial = p.serial /\ n.element = p.element /\ n.stage \in 0 .. 3 /\ n.spec \in 0 .. 5
         /\ n.phase # Egg \/ (n.anchor = p.anchor /\ p.phase = Egg)
         /\ n.phase \in {Egg, Incubating} => n.stage = 0
         /\ IF n.phase = Asleep THEN n.sleep >= n.anchor ELSE n.sleep = 0
         /\ n.anchor <= at /\ n.sleep <= at /\ (n.phase = Dead => n.anchor + ThreeDays <= at)
    BY <1>1, <1>2, <2>1, <2>2, <2>3, <2>4
  <2> QED
    BY <2>2, <2>4, <2>20, SoundSuccessor
<1>11. CASE a = "specialFeed"
  <2> DEFINE m == Meal(p, clock)
             f == [m.feeds EXCEPT ![kind] = @ + 1]
             q == [m EXCEPT !.feeds = f]
  <2>1. p.phase = Alive /\ kind \in Kinds
    BY <1>11 DEF ContractAccepts
  <2>2. n = [m EXCEPT !.feeds[kind] = @ + 1, !.sleep = 0]
    BY <1>11 DEF ContractAccepts
  <2>3. m \in WyrmStates /\ m.sleep = p.sleep /\ m.phase = p.phase /\ m.stage = p.stage
    BY <1>0, MealIsAState
  <2>4. m.spec = p.spec /\ m.serial = p.serial /\ m.element = p.element /\ m.anchor = clock
    BY <1>0, MealIsAState
  <2>5. [m EXCEPT !.feeds[kind] = @ + 1] = q
    BY <2>1, <2>3 DEF WyrmStates
  <2>6. n = [q EXCEPT !.sleep = 0]
    BY <2>2, <2>5
  <2> HIDE DEF m
  <2>7. f \in [Kinds -> Nat]
    BY <2>1, <2>3 DEF WyrmStates
  <2> HIDE DEF f
  <2>8. /\ q \in WyrmStates /\ q.phase = m.phase /\ q.sleep = m.sleep /\ q.anchor = m.anchor /\ q.stage = m.stage
        /\ q.spec = m.spec /\ q.serial = m.serial /\ q.element = m.element
    BY <2>3, <2>7, StateFields, FieldsKept
  <2> HIDE DEF q
  <2>9. p.sleep = 0 /\ n = q
    BY <1>2, <2>1, <2>3, <2>6, <2>8, SameField
  <2>20. /\ n.serial = p.serial /\ n.element = p.element /\ n.stage \in 0 .. 3 /\ n.spec \in 0 .. 5
         /\ n.phase # Egg \/ (n.anchor = p.anchor /\ p.phase = Egg)
         /\ n.phase \in {Egg, Incubating} => n.stage = 0
         /\ IF n.phase = Asleep THEN n.sleep >= n.anchor ELSE n.sleep = 0
         /\ n.anchor <= at /\ n.sleep <= at /\ (n.phase = Dead => n.anchor + ThreeDays <= at)
    BY <1>1, <1>2, <2>1, <2>3, <2>4, <2>8, <2>9
  <2> QED
    BY <2>8, <2>9, <2>20, SoundSuccessor
<1>12. CASE a = "transfer"
  <2>1. p.phase \in {Egg, Asleep}
    BY <1>12 DEF ContractAccepts
  <2>2. PICK x \in Users : n = [p EXCEPT !.owner = x]
    BY <1>12 DEF ContractAccepts
  <2>3. /\ n \in WyrmStates /\ n.phase = p.phase /\ n.sleep = p.sleep /\ n.anchor = p.anchor /\ n.stage = p.stage
        /\ n.spec = p.spec /\ n.serial = p.serial /\ n.element = p.element
    BY <1>0, <2>2, StateFields, FieldsKept
  <2>20. /\ n.serial = p.serial /\ n.element = p.element /\ n.stage \in 0 .. 3 /\ n.spec \in 0 .. 5
         /\ n.phase # Egg \/ (n.anchor = p.anchor /\ p.phase = Egg)
         /\ n.phase \in {Egg, Incubating} => n.stage = 0
         /\ IF n.phase = Asleep THEN n.sleep >= n.anchor ELSE n.sleep = 0
         /\ n.anchor <= at /\ n.sleep <= at /\ (n.phase = Dead => n.anchor + ThreeDays <= at)
    BY <1>1, <1>2, <2>1, <2>3
  <2> QED
    BY <2>3, <2>20, SoundSuccessor
<1>13. CASE a = "grow"
  <2> DEFINE m == [p EXCEPT !.stage = p.stage + 1]
  <2>1. p.phase = Alive /\ Grown(p, n)
    BY <1>13 DEF ContractAccepts
  <2>2. n = [m EXCEPT !.spec = n.spec]
    BY <2>1 DEF Grown
  <2>3. /\ m \in WyrmStates /\ m.phase = p.phase /\ m.sleep = p.sleep /\ m.anchor = p.anchor /\ m.stage = p.stage + 1
        /\ m.spec = p.spec /\ m.serial = p.serial /\ m.element = p.element
    <3>1. PICK x \in Nat : x = p.stage + 1
      BY <1>1
    <3> QED
      BY <1>0, <3>1, StateFields, FieldsKept
  <2> HIDE DEF m
  <2>4. n.stage \in 1 .. 3 /\ n.spec \in 0 .. 5
    BY <1>2, <2>1 DEF Grown, Kinds
  <2>5. /\ n \in WyrmStates /\ n.phase = m.phase /\ n.sleep = m.sleep /\ n.anchor = m.anchor /\ n.stage = m.stage
        /\ n.serial = m.serial /\ n.element = m.element
    <3>1. PICK s \in Nat : n = [m EXCEPT !.spec = s]
      BY <2>2, <2>4
    <3> QED
      BY <2>3, <3>1, StateFields, FieldsKept
  <2>20. /\ n.serial = p.serial /\ n.element = p.element /\ n.stage \in 0 .. 3 /\ n.spec \in 0 .. 5
         /\ n.phase # Egg \/ (n.anchor = p.anchor /\ p.phase = Egg)
         /\ n.phase \in {Egg, Incubating} => n.stage = 0
         /\ IF n.phase = Asleep THEN n.sleep >= n.anchor ELSE n.sleep = 0
         /\ n.anchor <= at /\ n.sleep <= at /\ (n.phase = Dead => n.anchor + ThreeDays <= at)
    <3>1. p.phase = Alive
      BY <2>1
    <3> QED
      BY <1>1, <1>2, <2>3, <2>4, <2>5, <3>1
  <2> QED
    BY <2>5, <2>20, SoundSuccessor
<1>14. CASE a = "name"
  <2>1. p.phase = Alive
    BY <1>14 DEF ContractAccepts
  <2>2. PICK x \in WyrmNames : n = [p EXCEPT !.name = x]
    BY <1>14 DEF ContractAccepts
  <2>3. /\ n \in WyrmStates /\ n.phase = p.phase /\ n.sleep = p.sleep /\ n.anchor = p.anchor /\ n.stage = p.stage
        /\ n.spec = p.spec /\ n.serial = p.serial /\ n.element = p.element
    BY <1>0, <2>2, StateFields, FieldsKept
  <2>20. /\ n.serial = p.serial /\ n.element = p.element /\ n.stage \in 0 .. 3 /\ n.spec \in 0 .. 5
         /\ n.phase # Egg \/ (n.anchor = p.anchor /\ p.phase = Egg)
         /\ n.phase \in {Egg, Incubating} => n.stage = 0
         /\ IF n.phase = Asleep THEN n.sleep >= n.anchor ELSE n.sleep = 0
         /\ n.anchor <= at /\ n.sleep <= at /\ (n.phase = Dead => n.anchor + ThreeDays <= at)
    BY <1>1, <1>2, <2>1, <2>3
  <2> QED
    BY <2>3, <2>20, SoundSuccessor
<1>15. CASE a = "sleep"
  <2> DEFINE m == [p EXCEPT !.phase = Asleep]
  <2>1. p.phase = Alive
    BY <1>15 DEF ContractAccepts
  <2>2. n = [m EXCEPT !.sleep = clock]
    BY <1>15 DEF ContractAccepts
  <2>3. Asleep \in Egg .. Dead
    OBVIOUS
  <2>4. /\ m \in WyrmStates /\ m.phase = Asleep /\ m.anchor = p.anchor /\ m.stage = p.stage
        /\ m.spec = p.spec /\ m.serial = p.serial /\ m.element = p.element
    BY <1>0, <2>3, StateFields, FieldsKept
  <2> HIDE DEF m
  <2>5. /\ n \in WyrmStates /\ n.phase = m.phase /\ n.sleep = clock /\ n.anchor = m.anchor /\ n.stage = m.stage
        /\ n.spec = m.spec /\ n.serial = m.serial /\ n.element = m.element
    BY <2>2, <2>4, StateFields, FieldsKept
  <2>20. /\ n.serial = p.serial /\ n.element = p.element /\ n.stage \in 0 .. 3 /\ n.spec \in 0 .. 5
         /\ n.phase # Egg \/ (n.anchor = p.anchor /\ p.phase = Egg)
         /\ n.phase \in {Egg, Incubating} => n.stage = 0
         /\ IF n.phase = Asleep THEN n.sleep >= n.anchor ELSE n.sleep = 0
         /\ n.anchor <= at /\ n.sleep <= at /\ (n.phase = Dead => n.anchor + ThreeDays <= at)
    BY <1>1, <1>2, <1>4, <2>1, <2>4, <2>5
  <2> QED
    BY <2>5, <2>20, SoundSuccessor
<1>16. CASE a = "wake"
  <2> DEFINE x == clock - (p.sleep - p.anchor)
             m == [p EXCEPT !.phase = Alive]
             k == [m EXCEPT !.anchor = x]
  <2>1. p.phase = Asleep /\ p.sleep >= p.anchor
    BY <1>16 DEF ContractAccepts
  <2>2. n = [k EXCEPT !.sleep = 0]
    BY <1>16 DEF ContractAccepts
  <2>3. Alive \in Egg .. Dead /\ x \in Int /\ x <= at
    BY <1>1, <2>1
  <2> HIDE DEF x
  <2>4. /\ m \in WyrmStates /\ m.phase = Alive /\ m.stage = p.stage
        /\ m.spec = p.spec /\ m.serial = p.serial /\ m.element = p.element
    BY <1>0, <2>3, StateFields, FieldsKept
  <2> HIDE DEF m
  <2>5. /\ k \in WyrmStates /\ k.phase = Alive /\ k.anchor = x /\ k.stage = m.stage
        /\ k.spec = m.spec /\ k.serial = m.serial /\ k.element = m.element
    BY <2>3, <2>4, StateFields, FieldsKept
  <2> HIDE DEF k
  <2>6. /\ n \in WyrmStates /\ n.phase = k.phase /\ n.sleep = 0 /\ n.anchor = k.anchor /\ n.stage = k.stage
        /\ n.spec = k.spec /\ n.serial = k.serial /\ n.element = k.element
    <3>1. PICK y \in Int : y = 0 /\ n = [k EXCEPT !.sleep = y]
      BY <2>2
    <3> QED
      BY <2>5, <3>1, StateFields, FieldsKept
  <2>7. 0 <= at
    OBVIOUS
  <2>20. /\ n.serial = p.serial /\ n.element = p.element /\ n.stage \in 0 .. 3 /\ n.spec \in 0 .. 5
         /\ n.phase # Egg \/ (n.anchor = p.anchor /\ p.phase = Egg)
         /\ n.phase \in {Egg, Incubating} => n.stage = 0
         /\ IF n.phase = Asleep THEN n.sleep >= n.anchor ELSE n.sleep = 0
         /\ n.anchor <= at /\ n.sleep <= at /\ (n.phase = Dead => n.anchor + ThreeDays <= at)
    BY <1>1, <1>2, <2>1, <2>3, <2>4, <2>5, <2>6, <2>7
  <2> QED
    BY <2>6, <2>20, SoundSuccessor
<1> QED
  BY <1>6, <1>7, <1>8, <1>9, <1>10, <1>11, <1>12, <1>13, <1>14, <1>15, <1>16 DEF Actions

\* What a step names is what was asked for.
LEMMA NamesAsAsked ==
  ASSUME NEW p \in WyrmStates, NEW r, StepRequest(r), NEW clock, NEW n \in NextStates(p, r, clock)
  PROVE  /\ r.action = "transfer" => n.owner \in Users
         /\ r.action = "name" => n.name \in WyrmNames
<1>1. ASSUME r.action = "transfer" PROVE n.owner \in Users
  <2>1. n = [p EXCEPT !.owner = r.recipient]
    BY <1>1 DEF NextStates
  <2> QED
    BY <2>1 DEF WyrmStates, StepRequest
<1>2. ASSUME r.action = "name" PROVE n.name \in WyrmNames
  <2>1. n = [p EXCEPT !.name = r.name]
    BY <1>2 DEF NextStates
  <2> QED
    BY <2>1 DEF WyrmStates, StepRequest
<1> QED
  BY <1>1, <1>2

\* A sound state stays sound while time passes.
LEMMA SoundLater ==
  ASSUME NEW p, NEW at \in Int, Sound(p, at), NEW later \in Int, later >= at
  PROVE  Sound(p, later)
<1>1. p.anchor \in Int /\ p.sleep \in Int /\ HalfDay \in Nat
  BY CovenantAssumption DEF Sound, WyrmStates
<1> QED
  BY <1>1 DEF Sound, ThreeDays

----------------------------------------------------------------------------
(* What the builders promise.                                              *)
LEMMA GenesisIsBuilt ==
  ASSUME NEW r, BuildGenesis(r).ok
  PROVE  Compilable(GenesisState(r.sender.key, r.serial, r.element))
BY DEF BuildGenesis, Refused

\* A transition that was built follows next_state at the score of one of the
\* coins offered, and keeps the value of the cell.
LEMMA TransitionIsBuilt ==
  ASSUME NEW r, BuildTransition(r).ok
  PROVE  LET b == BuildTransition(r)
         IN  /\ \E c \in r.coins : b.review.clock = c.daa
             /\ b.review.previous = r.cell.state
             /\ b.review.next \in NextStates(r.cell.state, r, b.review.clock)
             /\ b.tx.outs[1].amount = r.cell.value
             /\ b.review.tx.outs[1].script = WyrmScript(b.review.next)
             /\ RequiresOwner(r.action) => r.cell.state.owner = r.sender.key
<1> DEFINE coin == CHOOSE c \in ActionCoins(r) : TRUE
           fee == r.feeRate * ComputeMass(<<1, 2>>, <<1, 2>>)
           next == NextStates(r.cell.state, r, coin.daa)
           n == CHOOSE x \in next : TRUE
           tx == TransitionTx(r, coin, n, fee)
           review == [sender |-> r.sender, action |-> r.action, previous |-> r.cell.state,
                      next |-> n, clock |-> coin.daa, fee |-> fee, tx |-> tx]
<1>1. \A reason : Refused(reason).ok = FALSE
  BY DEF Refused
<1>2. /\ BuildTransition(r) = Built(tx, review)
      /\ RequiresOwner(r.action) => r.cell.state.owner = r.sender.key
      /\ ActionCoins(r) # {} /\ next # {}
  BY <1>1 DEF BuildTransition
<1>3. coin \in r.coins
  BY <1>2 DEF ActionCoins, Cheapest
<1>4. n \in next
  BY <1>2
<1>5. tx.outs[1].amount = r.cell.value /\ tx.outs[1].script = WyrmScript(n)
  BY DEF TransitionTx, Covenanted
<1> HIDE DEF tx, n, coin
<1>6. /\ BuildTransition(r).tx = tx /\ BuildTransition(r).review = review
  BY <1>2 DEF Built
<1>7. review.clock = coin.daa /\ review.previous = r.cell.state /\ review.next = n /\ review.tx = tx
  OBVIOUS
<1> HIDE DEF review
<1> QED
  BY <1>2, <1>3, <1>4, <1>5, <1>6, <1>7

\* Joining tuples.
LEMMA Joins ==
  ASSUME NEW a, NEW b
  PROVE  /\ <<>> \o <<a>> = <<a>> /\ <<a>> \o <<>> = <<a>> /\ <<a>> \o <<b>> = <<a, b>>
         /\ <<a, b>> \o <<>> = <<a, b>>
<1>1. <<>> \o <<a>> = <<a>>
  OBVIOUS
<1>2. <<a>> \o <<>> = <<a>>
  OBVIOUS
<1>3. <<a>> \o <<b>> = <<a, b>>
  <2> DEFINE S == {a, b}
             s == <<a>> \o <<b>>
  <2>1. <<a>> \in Seq(S) /\ <<b>> \in Seq(S)
    OBVIOUS
  <2>2. s \in Seq(S) /\ Len(s) = 2 /\ s[1] = a /\ s[2] = b
    BY <2>1, ConcatProperties
  <2> HIDE DEF s
  <2>3. s = <<a, b>>
    BY <2>2
  <2> QED
    BY <2>3 DEF s
<1>4. <<a, b>> \o <<>> = <<a, b>>
  OBVIOUS
<1> QED
  BY <1>1, <1>2, <1>3, <1>4

LEMMA FirstOfJoin ==
  ASSUME NEW a, NEW b, NEW c
  PROVE  (<<a, b>> \o <<c>>)[1] = a
OBVIOUS

LEMMA VaultIsBuilt ==
  ASSUME NEW r, BuildVault(r).ok
  PROVE  LET b == BuildVault(r)
         IN  /\ \E f \in VaultCandidates(r) : b.tx = VaultTx(r, f, VaultFee(r))
             /\ b.review.record = VaultRecord(r, b.tx)
             /\ r.now \in 1 .. MaxDaa - 1 /\ TermsOk(r.terms) /\ ActionOk(r)
             /\ r.action # "create" => VaultCellOk(r)
<1> DEFINE usable == {f \in VaultCandidates(r) : VaultFits(r, f, VaultFee(r))}
           f == CHOOSE x \in usable : TRUE
           tx == VaultTx(r, f, VaultFee(r))
           review == [request |-> r, fee |-> VaultFee(r), tx |-> tx, record |-> VaultRecord(r, tx)]
<1>1. \A reason : Refused(reason).ok = FALSE
  BY DEF Refused
<1>2. /\ BuildVault(r) = Built(tx, review) /\ usable # {}
      /\ r.now \in 1 .. MaxDaa - 1 /\ TermsOk(r.terms) /\ ActionOk(r)
      /\ r.action # "create" => VaultCellOk(r)
  BY <1>1 DEF BuildVault
<1>3. f \in VaultCandidates(r)
  BY <1>2
<1>4. review.record = VaultRecord(r, tx)
  OBVIOUS
<1> HIDE DEF review
<1>5. BuildVault(r).tx = tx /\ BuildVault(r).review = review
  BY <1>2 DEF Built
<1> HIDE DEF f
<1> QED
  BY <1>2, <1>3, <1>4, <1>5

\* The transactions that open a vault, renew it and create it.
LEMMA OpeningShape ==
  ASSUME NEW r, Opens(r), NEW f \in VaultCandidates(r), NEW fee
  PROVE  /\ VaultTx(r, f, fee).ins = <<VaultIn(r)>>
         /\ VaultTx(r, f, fee).outs = <<Output(r.amount - fee, PayTo(r.sender))>>
<1>1. f = <<>> /\ r.action # "create"
  BY DEF VaultCandidates, Opens
<1> QED
  BY <1>1, Joins DEF VaultTx, VaultOuts

LEMMA RenewalShape ==
  ASSUME NEW r, r.action = "heartbeat", NEW f \in VaultCandidates(r), NEW fee
  PROVE  /\ \E c \in r.coins : VaultTx(r, f, fee).ins = <<VaultIn(r), c>>
         /\ VaultTx(r, f, fee).outs =
              <<Covenanted(r.amount, VaultScriptOf(r.terms), <<r.cell.covenant[1], 1>>),
                Output(VaultChange(r, f, fee), PayTo(r.sender))>>
<1>1. ~Opens(r) /\ r.action # "create" /\ NoticeOf(r) = 0
  BY DEF Opens, NoticeOf
<1>2. PICK c \in r.coins : f = <<c>>
  BY <1>1 DEF VaultCandidates
<1>3. VaultTx(r, f, fee).ins = <<VaultIn(r), c>>
  BY <1>1, <1>2, Joins DEF VaultTx
<1>4. VaultTx(r, f, fee).outs =
        <<Covenanted(r.amount, VaultScriptOf(r.terms), <<r.cell.covenant[1], 1>>),
          Output(VaultChange(r, f, fee), PayTo(r.sender))>>
  BY <1>1, Joins DEF VaultTx, VaultOuts
<1> QED
  BY <1>3, <1>4

LEMMA FirstOutput ==
  ASSUME NEW r, ~Opens(r), NEW f, NEW fee
  PROVE  /\ VaultTx(r, f, fee).outs[1].amount = r.amount
         /\ VaultTx(r, f, fee).outs[1].script = VaultScriptOf(r.terms)
         /\ r.action # "create" => VaultTx(r, f, fee).outs[1].covenant = <<r.cell.covenant[1], 1>>
<1> DEFINE a == Covenanted(r.amount, VaultScriptOf(r.terms),
                           IF r.action = "create" THEN <<<<"genesis", f[1].outpoint>>, 1>> ELSE <<r.cell.covenant[1], 1>>)
           b == Output(VaultChange(r, f, fee), PayTo(r.sender))
           c == Output(Notice, <<"pk", r.terms.beneficiary>>)
<1>1. /\ a.amount = r.amount /\ a.script = VaultScriptOf(r.terms)
      /\ r.action # "create" => a.covenant = <<r.cell.covenant[1], 1>>
  BY DEF Covenanted
<1>2. VaultTx(r, f, fee).outs = <<a, b>> \o (IF NoticeOf(r) = 0 THEN <<>> ELSE <<c>>)
  BY DEF VaultTx, VaultOuts
<1> HIDE DEF a, b, c
<1>3. VaultTx(r, f, fee).outs[1] = a
  <2>1. CASE NoticeOf(r) = 0
    BY <1>2, <2>1, Joins
  <2>2. CASE NoticeOf(r) # 0
    BY <1>2, <2>2, FirstOfJoin
  <2> QED
    BY <2>1, <2>2
<1> QED
  BY <1>1, <1>3

LEMMA TermsAreTimes ==
  ASSUME NEW t, TermsOk(t)
  PROVE  t.limit \in Nat
<1>1. MaxDaa \in Nat /\ InactivityRange \subseteq Nat
  BY CovenantAssumption
<1>2. t.limit \in 1 .. MaxDaa - 1 \/ t.limit \in InactivityRange
  BY DEF TermsOk
<1>3. CASE t.limit \in 1 .. MaxDaa - 1
  BY <1>1, <1>3
<1>4. CASE t.limit \in InactivityRange
  BY <1>1, <1>4
<1> QED
  BY <1>2, <1>3, <1>4

\* What a transaction of the wallet looks like is what contract and consensus
\* ask of it; the age of a coin only grows.
LEMMA VaultIsMinable ==
  ASSUME NEW r, BuildVault(r).ok, r.action \in {"heartbeat", "release", "claim"},
         NEW u, r.sender = AddressOf(u), \A c \in r.coins : c.script = <<"pk", u>>,
         NEW at \in Nat, r.now <= at, r.cell.daa \in Nat
  PROVE  /\ VaultAcceptsSpend(r.terms, BuildVault(r).tx, r.action, u, at - r.cell.daa)
         /\ BuildVault(r).tx.lock < at
         /\ BuildVault(r).tx.ins[1].sequence > 0 => at - r.cell.daa >= BuildVault(r).tx.ins[1].sequence
<1> DEFINE tx == BuildVault(r).tx
<1>1. PICK f \in VaultCandidates(r) : tx = VaultTx(r, f, VaultFee(r))
  BY VaultIsBuilt
<1>2. r.now \in 1 .. MaxDaa - 1 /\ TermsOk(r.terms) /\ ActionOk(r) /\ VaultCellOk(r)
  BY VaultIsBuilt
<1>3. r.sender.key = u /\ PayTo(r.sender) = <<"pk", u>>
  BY DEF AddressOf, Address, PayTo
<1>4. r.terms.limit \in Nat /\ r.now \in Nat /\ r.now >= 1
  <2>1. MaxDaa \in Nat /\ r.now \in 1 .. MaxDaa - 1
    BY <1>2, CovenantAssumption
  <2>2. r.terms.limit \in Nat
    BY <1>2, TermsAreTimes
  <2> QED
    BY <2>1, <2>2
<1>5. tx.lock = IF r.action = "release" THEN r.terms.limit ELSE 0
  BY <1>1 DEF VaultTx
<1> HIDE DEF tx
<1>6. CASE r.action = "release"
  <2>1. r.terms.kind = "timeLock" /\ r.terms.owner = u /\ r.now > r.terms.limit
    BY <1>2, <1>3, <1>6 DEF ActionOk
  <2>2. tx.ins = <<VaultIn(r)>> /\ \E fee : tx.outs = <<Output(r.amount - fee, PayTo(r.sender))>>
    BY <1>1, <1>6, OpeningShape DEF Opens
  <2>3. Len(tx.ins) = 1 /\ tx.ins[1] = VaultIn(r) /\ VaultIn(r).sequence = 0
    BY <1>6, <2>2 DEF VaultIn
  <2>4. Len(tx.outs) = 1 /\ tx.outs[1].covenant = NoCovenant /\ tx.outs[1].script = <<"pk", u>>
    BY <1>3, <2>2 DEF Output
  <2>5. tx.lock >= r.terms.limit /\ tx.lock < at
    BY <1>4, <1>5, <1>6, <2>1
  <2>6. VaultAcceptsSpend(r.terms, tx, r.action, u, at - r.cell.daa)
    BY <1>6, <2>1, <2>3, <2>4, <2>5 DEF VaultAcceptsSpend, TimeLockAccepts, PaidTo
  <2> QED
    BY <2>3, <2>5, <2>6 DEF tx
<1>7. CASE r.action = "claim"
  <2>1. r.terms.kind = "deadManSwitch" /\ r.terms.beneficiary = u /\ r.now > r.cell.daa + r.terms.limit
    BY <1>2, <1>3, <1>7 DEF ActionOk, VaultCellOk
  <2>2. tx.ins = <<VaultIn(r)>> /\ \E fee : tx.outs = <<Output(r.amount - fee, PayTo(r.sender))>>
    BY <1>1, <1>7, OpeningShape DEF Opens
  <2>3. Len(tx.ins) = 1 /\ tx.ins[1] = VaultIn(r) /\ VaultIn(r).sequence = r.terms.limit
    BY <1>7, <2>2 DEF VaultIn
  <2>4. Len(tx.outs) = 1 /\ tx.outs[1].covenant = NoCovenant /\ tx.outs[1].script = <<"pk", u>>
    BY <1>3, <2>2 DEF Output
  <2>5. at - r.cell.daa >= r.terms.limit /\ tx.lock < at
    BY <1>4, <1>5, <1>7, <2>1
  <2>6. tx.ins[1].sequence = r.terms.limit /\ tx.ins[1].sequence >= r.terms.limit
    BY <1>4, <2>3
  <2>7. VaultAcceptsSpend(r.terms, tx, r.action, u, at - r.cell.daa)
    BY <1>7, <2>1, <2>3, <2>4, <2>5, <2>6 DEF VaultAcceptsSpend, ClaimAccepts, PaidTo
  <2> QED
    BY <2>5, <2>6, <2>7 DEF tx
<1>8. CASE r.action = "heartbeat"
  <2>1. r.terms.kind = "deadManSwitch" /\ r.terms.owner = u
    BY <1>2, <1>3, <1>8 DEF ActionOk
  <2>2. PICK c \in r.coins : tx.ins = <<VaultIn(r), c>>
    BY <1>1, <1>8, RenewalShape
  <2>3. \E change : tx.outs = <<Covenanted(r.amount, VaultScriptOf(r.terms), <<r.cell.covenant[1], 1>>),
                                Output(change, PayTo(r.sender))>>
    BY <1>1, <1>8, RenewalShape
  <2>4. Len(tx.ins) = 2 /\ tx.ins[1] = VaultIn(r) /\ tx.ins[2].script = <<"pk", u>>
    BY <2>2
  <2>5. /\ VaultIn(r).sequence = 0 /\ VaultIn(r).script = VaultScriptOf(r.terms)
        /\ VaultIn(r).amount = r.amount /\ VaultIn(r).covenant = r.cell.covenant
    BY <1>2, <1>8 DEF VaultIn, VaultCellOk
  <2>6. /\ Len(tx.outs) = 2 /\ tx.outs[1].covenant = <<r.cell.covenant[1], 1>> /\ tx.outs[2].covenant = NoCovenant
        /\ tx.outs[1].script = VaultScriptOf(r.terms) /\ tx.outs[1].amount = r.amount
        /\ tx.outs[2].script = <<"pk", u>>
    BY <1>3, <2>3 DEF Covenanted, Output
  <2>7. tx.lock < at
    BY <1>4, <1>5, <1>8
  <2>8. VaultAcceptsSpend(r.terms, tx, r.action, u, at - r.cell.daa)
    BY <1>8, <2>1, <2>4, <2>5, <2>6 DEF VaultAcceptsSpend, HeartbeatAccepts
  <2> QED
    BY <2>4, <2>5, <2>7, <2>8 DEF tx
<1> QED
  BY <1>6, <1>7, <1>8

----------------------------------------------------------------------------
(* The invariant.  What is shown for approval was built from a request on  *)
(* what the wallet saw; since only one draft is open, and only a draft     *)
(* moves the vault on, what it was built on is still what the vault was    *)
(* last, whether or not another program has opened the vault meanwhile.    *)
ClockRuns == now \in Nat \ {0} /\ spent \in Nat /\ spent <= now

CoinsAreOwn ==
  \A u \in Users : \A c \in coins[u] : c.script = <<"pk", u>> /\ c.daa \in Nat /\ c.daa <= now

WyrmIsSound == \A c \in wyrm : Sound(c.state, now) /\ c.value = WyrmReserve

VaultIsSound ==
  \A v \in vault :
    /\ v.terms.limit \in Nat
    /\ v.cell.daa = spent /\ v.cell.covenant = <<v.cell.covenant[1]>>

Names(record, cell) ==
  record.descriptor.script = cell.script /\ record.amount = cell.value /\ record.covenant = cell.covenant

BackupsAreSound ==
  /\ vault = {} /\ paid = {} => backups = {}
  /\ \A e \in backups : /\ Open(Password, e) = {e.content}
                        /\ \A v \in vault : Names(e.content, v.cell)

StepIsAsked(r) ==
  /\ StepRequest(r) /\ Sound(r.cell.state, now) /\ r.cell.value = WyrmReserve
  /\ \A c \in r.coins : c.daa \in Nat /\ c.daa <= now

VaultIsAsked(u, r) ==
  /\ r.now \in Nat /\ r.now <= now /\ \A c \in r.coins : c.script = <<"pk", u>>
  /\ r.action \in {"create", "heartbeat", "release", "claim"}
  /\ r.action = "create" => vault = {} /\ paid = {}
  /\ r.action # "create" => /\ r.cell.daa = spent /\ r.cell.covenant = <<r.cell.covenant[1]>>
                            /\ \A e \in backups : Names(e.content, r.cell)

DraftIsAsked(d) ==
  /\ d.user \in Users /\ d.request.sender = AddressOf(d.user)
  /\ d.what \in {"genesis", "transition", "vault"}
  /\ d.what = "genesis" => d.request.serial = 1 /\ d.request.element = 0
  /\ d.what = "transition" => StepIsAsked(d.request) /\ d.built = BuildTransition(d.request) /\ d.built.ok
  /\ d.what = "vault" => VaultIsAsked(d.user, d.request) /\ d.built = BuildVault(d.request) /\ d.built.ok

DraftsAreAsked == \A d \in draft : DraftIsAsked(d)

IInv ==
  /\ ClockRuns /\ CoinsAreOwn /\ WyrmIsSound /\ VaultIsSound
  /\ BackupsAreSound /\ DraftsAreAsked /\ VaultPaysItsHeir

LEMMA InvariantHoldsInitially == Init => IInv
<1> SUFFICES ASSUME Init PROVE IInv
  OBVIOUS
<1> USE DEF Init
<1>1. ClockRuns
  BY DEF ClockRuns
<1>2. CoinsAreOwn
  BY DEF CoinsAreOwn, CoinOf
<1>3. WyrmIsSound
  <2> SUFFICES ASSUME NEW c \in wyrm PROVE Sound(c.state, now) /\ c.value = WyrmReserve
    BY DEF WyrmIsSound
  <2>1. PICK life \in Lives : wyrm = IF life = {} THEN {} ELSE {WyrmCell(<<0, 0>>, <<"w">>, CHOOSE x \in life : TRUE)}
    OBVIOUS
  <2>2. life # {} /\ c = WyrmCell(<<0, 0>>, <<"w">>, CHOOSE x \in life : TRUE)
    BY <2>1
  <2>3. (CHOOSE x \in life : TRUE) \in life
    BY <2>2
  <2>4. c.state \in life /\ c.value = WyrmReserve
    BY <2>2, <2>3 DEF WyrmCell
  <2>5. Sound(c.state, 1)
    BY <2>4, CovenantAssumption
  <2> QED
    BY <2>4, <2>5
<1>4. VaultIsSound /\ BackupsAreSound /\ DraftsAreAsked /\ VaultPaysItsHeir
  BY DEF VaultIsSound, BackupsAreSound, DraftsAreAsked, VaultPaysItsHeir
<1> QED
  BY <1>1, <1>2, <1>3, <1>4 DEF IInv

----------------------------------------------------------------------------
(* Steps.                                                                  *)

\* A draft that stays open stays founded: the clock has run, and the vault
\* may have been opened by another program.
LEMMA DraftsStayAsked ==
  ASSUME DraftsAreAsked, ClockRuns, draft' = draft, now' \in Nat, now' >= now,
         spent' = spent, backups' = backups, vault = {} => vault' = {} /\ paid' = paid
  PROVE  DraftsAreAsked'
<1> SUFFICES ASSUME NEW d \in draft PROVE DraftIsAsked(d)'
  BY DEF DraftsAreAsked
<1>1. DraftIsAsked(d)
  BY DEF DraftsAreAsked
<1>2. now \in Nat
  BY DEF ClockRuns
<1>3. ASSUME NEW r, StepIsAsked(r) PROVE StepIsAsked(r)'
  <2>1. Sound(r.cell.state, now')
    BY <1>2, <1>3, SoundLater DEF StepIsAsked
  <2>2. \A c \in r.coins : c.daa \in Nat /\ c.daa <= now'
    BY <1>2, <1>3 DEF StepIsAsked
  <2> QED
    BY <1>3, <2>1, <2>2 DEF StepIsAsked
<1>4. ASSUME NEW r, NEW u, VaultIsAsked(u, r) PROVE VaultIsAsked(u, r)'
  BY <1>2, <1>4 DEF VaultIsAsked
<1> QED
  BY <1>1, <1>3, <1>4 DEF DraftIsAsked

LEMMA CoinsStayOwn ==
  ASSUME CoinsAreOwn, ClockRuns, now' = now, NEW tx, coins' = CoinsAfter(tx)
  PROVE  CoinsAreOwn'
<1> SUFFICES ASSUME NEW u \in Users, NEW c \in coins'[u]
             PROVE  c.script = <<"pk", u>> /\ c.daa \in Nat /\ c.daa <= now
  BY DEF CoinsAreOwn
<1>1. c \in coins[u] \/ c \in NewCoins(tx, u)
  BY DEF CoinsAfter
<1>2. CASE c \in coins[u]
  BY <1>2 DEF CoinsAreOwn
<1>3. CASE c \in NewCoins(tx, u)
  BY <1>3 DEF NewCoins, CoinOf, ClockRuns
<1> QED
  BY <1>1, <1>2, <1>3

LEMMA WaitingSteps ==
  ASSUME IInv, Tick \/ Decline \/ \E u \in Users : Gift(u)
  PROVE  IInv'
<1> USE DEF IInv
<1>0. now \in Nat /\ spent \in Nat
  BY DEF ClockRuns
<1>1. CASE Tick
  <2> USE <1>1 DEF Tick
  <2>1. ClockRuns'
    BY DEF ClockRuns
  <2>2. CoinsAreOwn'
    BY <1>0 DEF CoinsAreOwn
  <2>3. WyrmIsSound'
    BY <1>0, SoundLater DEF WyrmIsSound
  <2>4. VaultIsSound' /\ BackupsAreSound' /\ VaultPaysItsHeir'
    BY DEF VaultIsSound, BackupsAreSound, VaultPaysItsHeir
  <2>5. DraftsAreAsked'
    BY <1>0, DraftsStayAsked
  <2> QED
    BY <2>1, <2>2, <2>3, <2>4, <2>5
<1>2. CASE Decline
  <2> USE <1>2 DEF Decline
  <2>1. ClockRuns' /\ CoinsAreOwn' /\ WyrmIsSound'
    BY DEF ClockRuns, CoinsAreOwn, WyrmIsSound
  <2>2. VaultIsSound' /\ BackupsAreSound' /\ VaultPaysItsHeir' /\ DraftsAreAsked'
    BY DEF VaultIsSound, BackupsAreSound, VaultPaysItsHeir, DraftsAreAsked
  <2> QED
    BY <2>1, <2>2
<1>3. ASSUME NEW u \in Users, Gift(u) PROVE IInv'
  <2> USE <1>3 DEF Gift
  <2>1. ClockRuns' /\ WyrmIsSound'
    BY DEF ClockRuns, WyrmIsSound
  <2>2. VaultIsSound' /\ BackupsAreSound' /\ VaultPaysItsHeir'
    BY DEF VaultIsSound, BackupsAreSound, VaultPaysItsHeir
  <2>3. CoinsAreOwn'
    <3> SUFFICES ASSUME NEW o \in Users, NEW c \in coins'[o]
                 PROVE  c.script = <<"pk", o>> /\ c.daa \in Nat /\ c.daa <= now
      BY DEF CoinsAreOwn
    <3>1. c \in coins[o] \/ (o = u /\ c = CoinOf(u, GiftAmount, now, <<txs + 1, 0>>))
      OBVIOUS
    <3> QED
      BY <1>0, <3>1 DEF CoinsAreOwn, CoinOf
  <2>4. DraftsAreAsked'
    BY <1>0, DraftsStayAsked
  <2> QED
    BY <2>1, <2>2, <2>3, <2>4
<1> QED
  BY <1>1, <1>2, <1>3

\* Preparing writes nothing but the draft.
LEMMA PreparingSteps ==
  ASSUME IInv, NEW u \in Users, PrepareGenesis(u) \/ PrepareTransition(u) \/ PrepareVault(u)
  PROVE  IInv'
<1> USE DEF IInv
<1>1. UNCHANGED <<now, coins, wyrm, vault, backups, paid, spent>>
  BY DEF PrepareGenesis, PrepareTransition, PrepareVault
<1>2. ClockRuns' /\ CoinsAreOwn' /\ WyrmIsSound'
  BY <1>1 DEF ClockRuns, CoinsAreOwn, WyrmIsSound
<1>3. VaultIsSound' /\ BackupsAreSound' /\ VaultPaysItsHeir'
  BY <1>1 DEF VaultIsSound, BackupsAreSound, VaultPaysItsHeir
<1>4. \A c \in coins[u] : c.script = <<"pk", u>> /\ c.daa \in Nat /\ c.daa <= now
  BY DEF CoinsAreOwn
<1>5. ASSUME NEW d, draft' = {d}, DraftIsAsked(d) PROVE IInv'
  <2>1. DraftIsAsked(d)'
    BY <1>1, <1>5 DEF DraftIsAsked, StepIsAsked, VaultIsAsked
  <2> QED
    BY <1>2, <1>3, <1>5, <2>1 DEF DraftsAreAsked
<1>6. CASE PrepareGenesis(u)
  <2> DEFINE r == GenesisRequest(u)
             d == Shown("genesis", u, r, BuildGenesis(r))
  <2>1. draft' = {d}
    BY <1>6 DEF PrepareGenesis
  <2>2. d.user = u /\ d.request = r /\ d.what = "genesis"
    BY DEF Shown
  <2>3. r.sender = AddressOf(u) /\ r.serial = 1 /\ r.element = 0
    BY DEF GenesisRequest
  <2> HIDE DEF d, r
  <2>4. DraftIsAsked(d)
    BY <2>2, <2>3 DEF DraftIsAsked
  <2> QED
    BY <1>5, <2>1, <2>4
<1>7. CASE PrepareTransition(u)
  <2>1. PICK r \in TransitionRequests(u) :
          BuildTransition(r).ok /\ draft' = {Shown("transition", u, r, BuildTransition(r))}
    BY <1>7 DEF PrepareTransition
  <2> DEFINE d == Shown("transition", u, r, BuildTransition(r))
  <2>2. d.user = u /\ d.request = r /\ d.what = "transition" /\ d.built = BuildTransition(r)
    BY DEF Shown
  <2>3. /\ r.sender = AddressOf(u) /\ r.action \in Actions /\ r.kind \in 0 .. 5 /\ r.recipient \in Users
        /\ r.name \in WyrmNames /\ r.cell \in wyrm /\ r.coins = coins[u]
    <3> DEFINE Ask(a, kind, choice, to) ==
                 {[sender |-> AddressOf(u), action |-> a, cell |-> cell, feeRate |-> 1, coins |-> coins[u],
                   kind |-> kind, choice |-> choice, recipient |-> to, name |-> "Ash"] : cell \in wyrm}
    <3>1. \/ \E a \in Actions \ {"specialFeed"} : r \in Ask(a, 0, 0, u)
          \/ \E k \in 1 .. 2 : r \in Ask("specialFeed", k, 0, u)
          \/ r \in Ask("sleep", 1, 0, u)
          \/ \E c \in 1 .. 2 : r \in Ask("grow", 0, c, u)
          \/ \E o \in Users : r \in Ask("transfer", 0, 0, o)
      BY DEF TransitionRequests
    <3>2. \E a \in Actions, kind \in 0 .. 5, choice \in 0 .. 2, to \in Users : r \in Ask(a, kind, choice, to)
      <4> HIDE DEF Ask
      <4>1. {"specialFeed", "sleep", "grow", "transfer"} \subseteq Actions
        BY DEF Actions
      <4>2. 0 \in 0 .. 5 /\ 1 \in 0 .. 5 /\ 0 \in 0 .. 2 /\ 1 .. 2 \subseteq 0 .. 5 /\ 1 .. 2 \subseteq 0 .. 2
        OBVIOUS
      <4> QED
        BY <3>1, <4>1, <4>2, Zenon
    <3>3. PICK a \in Actions, kind \in 0 .. 5, choice \in 0 .. 2, to \in Users, cell \in wyrm :
            r = [sender |-> AddressOf(u), action |-> a, cell |-> cell, feeRate |-> 1, coins |-> coins[u],
                 kind |-> kind, choice |-> choice, recipient |-> to, name |-> "Ash"]
      BY <3>2
    <3>4. r.sender = AddressOf(u) /\ r.action = a /\ r.kind = kind /\ r.recipient = to
      BY <3>3
    <3>5. r.cell = cell /\ r.coins = coins[u] /\ r.name = "Ash"
      BY <3>3
    <3>6. r.action \in Actions /\ r.kind \in 0 .. 5 /\ r.recipient \in Users /\ r.cell \in wyrm
      BY <3>4, <3>5
    <3>7. r.name \in WyrmNames
      BY <3>5 DEF WyrmNames
    <3> QED
      BY <3>4, <3>5, <3>6, <3>7
  <2>4. Sound(r.cell.state, now) /\ r.cell.value = WyrmReserve
    BY <2>3 DEF WyrmIsSound
  <2>5. StepIsAsked(r)
    BY <1>4, <2>3, <2>4 DEF StepIsAsked, StepRequest
  <2> HIDE DEF d
  <2>6. DraftIsAsked(d)
    BY <2>1, <2>2, <2>3, <2>5 DEF DraftIsAsked
  <2> QED
    BY <1>5, <2>1, <2>6 DEF d
<1>8. CASE PrepareVault(u)
  <2>1. PICK r \in VaultRequests(u) :
          /\ r.action = "create" => vault = {} /\ paid = {}
          /\ BuildVault(r).ok /\ draft' = {Shown("vault", u, r, BuildVault(r))}
    BY <1>8 DEF PrepareVault
  <2> DEFINE d == Shown("vault", u, r, BuildVault(r))
  <2>2. d.user = u /\ d.request = r /\ d.what = "vault" /\ d.built = BuildVault(r)
    BY DEF Shown
  <2>3. /\ r.sender = AddressOf(u) /\ r.now = now /\ r.coins \subseteq coins[u]
        /\ r.action \in {"create", "heartbeat", "release", "claim"}
        /\ r.action # "create" => \E v \in vault : r.cell = v.cell
    BY DEF VaultRequests
  <2>4. r.action # "create" => /\ r.cell.daa = spent /\ r.cell.covenant = <<r.cell.covenant[1]>>
                               /\ \A e \in backups : Names(e.content, r.cell)
    BY <2>3 DEF VaultIsSound, BackupsAreSound
  <2>5. r.now \in Nat /\ r.now <= now
    BY <2>3 DEF ClockRuns
  <2>6. VaultIsAsked(u, r)
    BY <1>4, <2>1, <2>3, <2>4, <2>5 DEF VaultIsAsked
  <2> HIDE DEF d
  <2>7. DraftIsAsked(d)
    BY <2>1, <2>2, <2>3, <2>6 DEF DraftIsAsked
  <2> QED
    BY <1>5, <2>1, <2>7 DEF d
<1> QED
  BY <1>6, <1>7, <1>8

\* What the other parts of the state become when a draft is done with.
LEMMA DraftIsDone ==
  ASSUME IInv, draft' = {}, UNCHANGED <<now, spent, vault, backups, paid>>
  PROVE  ClockRuns' /\ VaultIsSound' /\ BackupsAreSound' /\ VaultPaysItsHeir' /\ DraftsAreAsked'
BY DEF IInv, ClockRuns, VaultIsSound, BackupsAreSound, VaultPaysItsHeir, DraftsAreAsked

LEMMA GenesisIsSound ==
  ASSUME NEW u \in Users, NEW at \in Nat, Compilable(GenesisState(u, 1, 0))
  PROVE  Sound(GenesisState(u, 1, 0), at)
<1> DEFINE s == GenesisState(u, 1, 0)
<1>1. /\ s.owner = u /\ s.serial = 1 /\ s.element = 0 /\ s.phase = 0 /\ s.stage = 0
      /\ s.anchor = 0 /\ s.sleep = 0
  BY DEF GenesisState, Egg
<1>2. 0 \in WyrmElements
  BY <1>1 DEF Compilable
<1>3. <<0, 0, 0, 0, 0>> \in [Kinds -> Nat]
  BY DEF Kinds
<1>4. s \in WyrmStates
  <2>1. "" \in WyrmNames /\ FALSE \in BOOLEAN
    BY DEF WyrmNames
  <2>2. Egg \in Egg .. Dead
    BY DEF Egg, Dead
  <2>3. PICK feeds \in [Kinds -> Nat], warmed \in BOOLEAN, name \in WyrmNames, phase \in Egg .. Dead :
          feeds = <<0, 0, 0, 0, 0>> /\ warmed = FALSE /\ name = "" /\ phase = Egg
    BY <1>3, <2>1, <2>2
  <2>4. s = [owner |-> u, serial |-> 1, element |-> 0, phase |-> phase, warmed |-> warmed,
             care |-> 0, days |-> 0, stage |-> 0, spec |-> 0, name |-> name, anchor |-> 0, sleep |-> 0,
             feeds |-> feeds]
    BY <2>3, Zenon DEF GenesisState
  <2> QED
    BY <1>2, <2>4 DEF WyrmStates
<1>5. s.phase # Dead
  BY <1>1 DEF Dead
<1> HIDE DEF s
<1>6. Sound(s, at)
  BY <1>1, <1>4, <1>5 DEF Sound, s
<1> QED
  BY <1>6 DEF s

LEMMA SubmittedGenesis ==
  ASSUME IInv, SubmitGenesis
  PROVE  IInv'
<1>1. PICK d \in draft :
        /\ d.what = "genesis" /\ Signed(d, BuildGenesis(d.request)) /\ draft' = {}
        /\ \/ /\ coins' = CoinsAfter(d.built.tx)
              /\ \E o, k : wyrm' = {WyrmCell(o, k, GenesisState(d.user, 1, 0))}
           \/ UNCHANGED <<coins, wyrm>>
        /\ UNCHANGED <<now, vault, backups, paid, spent>>
  BY DEF SubmitGenesis
<1>2. ClockRuns' /\ VaultIsSound' /\ BackupsAreSound' /\ VaultPaysItsHeir' /\ DraftsAreAsked'
  BY <1>1, DraftIsDone
<1>3. CoinsAreOwn'
  BY <1>1, CoinsStayOwn DEF IInv, CoinsAreOwn
<1>4. WyrmIsSound'
  <2>1. d.user \in Users /\ d.request.sender.key = d.user /\ d.request.serial = 1 /\ d.request.element = 0
    <3>1. DraftIsAsked(d)
      BY DEF IInv, DraftsAreAsked
    <3>2. \A u : AddressOf(u).key = u
      BY DEF AddressOf, Address
    <3> QED
      BY <1>1, <3>1, <3>2 DEF DraftIsAsked
  <2>2. Compilable(GenesisState(d.user, 1, 0))
    BY <1>1, <2>1, GenesisIsBuilt DEF Signed
  <2>3. Sound(GenesisState(d.user, 1, 0), now)
    BY <2>1, <2>2, GenesisIsSound DEF IInv, ClockRuns
  <2>4. CASE UNCHANGED <<coins, wyrm>>
    BY <1>1, <2>4 DEF IInv, WyrmIsSound
  <2>5. ASSUME NEW o, NEW k, wyrm' = {WyrmCell(o, k, GenesisState(d.user, 1, 0))} PROVE WyrmIsSound'
    BY <1>1, <2>3, <2>5 DEF WyrmIsSound, WyrmCell
  <2> QED
    BY <1>1, <2>4, <2>5
<1> QED
  BY <1>2, <1>3, <1>4 DEF IInv

LEMMA SubmittedTransition ==
  ASSUME IInv, SubmitTransition
  PROVE  IInv'
<1>1. PICK d \in draft :
        /\ d.what = "transition" /\ Signed(d, BuildTransition(d.request)) /\ draft' = {}
        /\ \/ /\ Simulated(d.request, d.built.review)
              /\ coins' = CoinsAfter(d.built.tx)
              /\ wyrm' = {[WyrmCell(<<txs + 1, 1>>, c.covenant, d.built.review.next)
                              EXCEPT !.value = d.built.tx.outs[1].amount] : c \in wyrm}
           \/ UNCHANGED <<coins, wyrm>>
        /\ UNCHANGED <<now, vault, backups, paid, spent>>
  BY DEF SubmitTransition
<1> DEFINE r == d.request
           b == d.built
<1>2. ClockRuns' /\ VaultIsSound' /\ BackupsAreSound' /\ VaultPaysItsHeir' /\ DraftsAreAsked'
  BY <1>1, DraftIsDone
<1>3. CoinsAreOwn'
  BY <1>1, CoinsStayOwn DEF IInv, CoinsAreOwn
<1>4. StepIsAsked(r) /\ b = BuildTransition(r) /\ b.ok
  BY <1>1 DEF IInv, DraftsAreAsked, DraftIsAsked
<1>5. /\ \E c \in r.coins : b.review.clock = c.daa
      /\ b.review.previous = r.cell.state
      /\ b.review.next \in NextStates(r.cell.state, r, b.review.clock)
      /\ b.tx.outs[1].amount = r.cell.value
  BY <1>4, TransitionIsBuilt
<1>6. CASE UNCHANGED <<coins, wyrm>>
  <2>1. WyrmIsSound'
    BY <1>1, <1>6 DEF IInv, WyrmIsSound
  <2> QED
    BY <1>2, <1>3, <2>1 DEF IInv
<1>7. CASE /\ Simulated(r, b.review)
           /\ wyrm' = {[WyrmCell(<<txs + 1, 1>>, c.covenant, b.review.next)
                           EXCEPT !.value = b.tx.outs[1].amount] : c \in wyrm}
  <2>1. /\ r.action \in Actions /\ StepRequest(r) /\ Sound(r.cell.state, now)
        /\ r.cell.value = WyrmReserve /\ b.review.clock \in Int /\ b.review.clock <= now
    BY <1>4, <1>5 DEF StepIsAsked, StepRequest
  <2>2. /\ r.action = "transfer" => b.review.next.owner \in Users
        /\ r.action = "name" => b.review.next.name \in WyrmNames
    <3>1. r.cell.state \in WyrmStates
      BY <2>1 DEF Sound
    <3> QED
      BY <1>5, <2>1, <3>1, NamesAsAsked
  <2>3. ContractAccepts(r.cell.state, b.review.next, r.action, r.kind, b.review.clock,
                        IF RequiresOwner(r.action) THEN r.sender.key ELSE "nobody", r.sender.key)
    BY <1>5, <1>7 DEF Simulated
  <2>4. Sound(b.review.next, now)
    BY <2>1, <2>2, <2>3, ContractKeepsSound DEF IInv, ClockRuns
  <2>5. ASSUME NEW c \in wyrm' PROVE c.state = b.review.next /\ c.value = WyrmReserve
    BY <1>5, <1>7, <2>1, <2>5 DEF WyrmCell
  <2>6. WyrmIsSound'
    BY <1>1, <2>4, <2>5 DEF WyrmIsSound
  <2> QED
    BY <1>2, <1>3, <2>6 DEF IInv
<1> QED
  BY <1>1, <1>6, <1>7

\* A step that another program makes.
LEMMA OutsideTransitions ==
  ASSUME IInv, NEW u \in Users, OutsideTransition(u)
  PROVE  IInv'
<1>0. \A p, clock, o : OutsideState(p, "transfer", clock, o) = [p EXCEPT !.owner = o]
  BY DEF OutsideState
<1>1. PICK cell \in wyrm, coin \in coins[u], a \in {"die", "transfer", "sleep", "wake"}, o \in Users :
        /\ ContractAccepts(cell.state, OutsideState(cell.state, a, coin.daa, o), a, 0, coin.daa, u, u)
        /\ wyrm' = {WyrmCell(<<txs + 1, 1>>, cell.covenant, OutsideState(cell.state, a, coin.daa, o))}
        /\ UNCHANGED <<now, coins, vault, draft, backups, paid, spent>>
  BY DEF OutsideTransition
<1> DEFINE n == OutsideState(cell.state, a, coin.daa, o)
<1>2. ClockRuns' /\ CoinsAreOwn' /\ VaultIsSound' /\ BackupsAreSound' /\ VaultPaysItsHeir'
  BY <1>1 DEF IInv, ClockRuns, CoinsAreOwn, VaultIsSound, BackupsAreSound, VaultPaysItsHeir
<1>3. now \in Nat
  BY DEF IInv, ClockRuns
<1>4. DraftsAreAsked'
  BY <1>1, <1>3, DraftsStayAsked DEF IInv
<1>5. Sound(cell.state, now) /\ coin.daa \in Int /\ coin.daa <= now
  BY DEF IInv, WyrmIsSound, CoinsAreOwn
<1>6. a \in Actions /\ a # "name" /\ (a = "transfer" => n.owner \in Users)
  <2>1. cell.state \in WyrmStates
    BY <1>5 DEF Sound
  <2>2. a = "transfer" => n.owner \in Users
    BY <1>0, <2>1 DEF WyrmStates
  <2> QED
    BY <2>2 DEF Actions
<1> HIDE DEF n
<1>7. Sound(n, now)
  <2>1. ContractAccepts(cell.state, n, a, 0, coin.daa, u, u)
    BY <1>1 DEF n
  <2> QED
    BY <1>3, <1>5, <1>6, <2>1, ContractKeepsSound
<1>8. WyrmIsSound'
  <2>1. wyrm' = {WyrmCell(<<txs + 1, 1>>, cell.covenant, n)} /\ now' = now
    BY <1>1 DEF n
  <2> QED
    BY <1>7, <2>1 DEF WyrmIsSound, WyrmCell
<1> QED
  BY <1>2, <1>4, <1>8 DEF IInv

----------------------------------------------------------------------------
(* The steps of the vault.                                                 *)

\* What is sealed opens with its password and names the vault.
LEMMA SealedOpens ==
  ASSUME NEW password, NEW record, NEW e \in Seal(password, record)
  PROVE  Open(password, e) = {e.content} /\ e.content = record
<1>1. RecordOk(record) /\ PasswordOk(password)
  BY DEF Seal
<1>2. e = [identity |-> password, content |-> record, signed |-> record]
  BY <1>1 DEF Seal
<1>3. e.identity = password /\ e.content = record /\ e.signed = record
  BY <1>2
<1> QED
  BY <1>1, <1>3 DEF Open

LEMMA RecordNames ==
  ASSUME NEW r, NEW tx, NEW cells
  PROVE  LET record == [VaultRecord(r, tx) EXCEPT !.confirmed = cells]
         IN  /\ record.descriptor.script = VaultScriptOf(r.terms) /\ record.amount = r.amount
             /\ record.covenant = IF r.action = "create" THEN <<tx.outs[1].covenant[1]>> ELSE r.cell.covenant
BY DEF VaultRecord, Descriptor

\* What leaves a vault by a spend that the contract and the consensus admit
\* is for the heir, in due time.
LEMMA SpendPaysHeir ==
  ASSUME NEW t, t.limit \in Nat, NEW tx, NEW action \in {"release", "claim"}, NEW key,
         NEW at \in Nat, NEW renewed \in Nat,
         VaultAcceptsSpend(t, tx, action, key, at - renewed), tx.lock \in Int, tx.lock < at
  PROVE  IF t.kind = "timeLock" THEN tx.outs[1].script = <<"pk", t.owner>> /\ at > t.limit
         ELSE tx.outs[1].script = <<"pk", t.beneficiary>> /\ at >= renewed + t.limit
<1>1. CASE action = "release"
  <2>1. t.kind = "timeLock" /\ tx.lock >= t.limit /\ tx.outs[1].script = <<"pk", t.owner>>
    BY <1>1 DEF VaultAcceptsSpend, TimeLockAccepts, PaidTo
  <2> QED
    BY <2>1
<1>2. CASE action = "claim"
  <2>1. t.kind = "deadManSwitch" /\ at - renewed >= t.limit /\ tx.outs[1].script = <<"pk", t.beneficiary>>
    BY <1>2 DEF VaultAcceptsSpend, ClaimAccepts, PaidTo
  <2> QED
    BY <2>1
<1> QED
  BY <1>1, <1>2

LEMMA OutsideSpends ==
  ASSUME IInv, NEW u \in Users, OutsideSpend(u)
  PROVE  IInv'
<1> DEFINE Spending(v, to) ==
             [version |-> 1, payload |-> <<>>, lock |-> now - 1,
              ins |-> <<[outpoint |-> v.cell.outpoint, amount |-> v.cell.value, script |-> v.cell.script,
                         covenant |-> v.cell.covenant, sequence |-> v.terms.limit]>>,
              outs |-> <<Output(v.cell.value - 1, <<"pk", to>>)>>]
<1>1. PICK v \in vault, action \in {"release", "claim"}, to \in Users :
        /\ VaultAcceptsSpend(v.terms, Spending(v, to), action, u, AgeOf(v.cell))
        /\ vault' = {}
        /\ paid' = {[to |-> <<"pk", to>>, amount |-> v.cell.value - 1, terms |-> v.terms, at |-> now, renewed |-> spent]}
        /\ UNCHANGED <<now, coins, wyrm, draft, backups, spent>>
  BY DEF OutsideSpend
<1> DEFINE tx == Spending(v, to)
<1>2. tx.lock = now - 1 /\ tx.outs[1].script = <<"pk", to>>
  BY DEF Output
<1> HIDE DEF Spending
<1>3. now \in Nat /\ spent \in Nat
  BY DEF IInv, ClockRuns
<1>4. v.terms.limit \in Nat /\ v.cell.daa = spent
  BY DEF IInv, VaultIsSound
<1>5. VaultAcceptsSpend(v.terms, tx, action, u, now - spent)
  BY <1>1, <1>4 DEF AgeOf
<1> HIDE DEF tx
<1>6. IF v.terms.kind = "timeLock" THEN tx.outs[1].script = <<"pk", v.terms.owner>> /\ now > v.terms.limit
      ELSE tx.outs[1].script = <<"pk", v.terms.beneficiary>> /\ now >= spent + v.terms.limit
  <2>1. tx.lock \in Int /\ tx.lock < now
    BY <1>2, <1>3
  <2> QED
    BY <1>3, <1>4, <1>5, <2>1, SpendPaysHeir
<1>7. VaultPaysItsHeir'
  BY <1>1, <1>2, <1>6 DEF VaultPaysItsHeir
<1>8. ClockRuns' /\ CoinsAreOwn' /\ WyrmIsSound' /\ VaultIsSound'
  BY <1>1 DEF IInv, ClockRuns, CoinsAreOwn, WyrmIsSound, VaultIsSound
<1>9. BackupsAreSound'
  BY <1>1 DEF IInv, BackupsAreSound
<1>10. DraftsAreAsked'
  BY <1>1, <1>3, DraftsStayAsked DEF IInv
<1> QED
  BY <1>7, <1>8, <1>9, <1>10 DEF IInv

LEMMA SubmittedVault ==
  ASSUME IInv, SubmitVault
  PROVE  IInv'
<1> DEFINE NewCell(d) ==
             [outpoint |-> <<txs + 1, 1>>, value |-> d.built.tx.outs[1].amount, daa |-> now,
              script |-> d.built.tx.outs[1].script, covenant |-> <<d.built.tx.outs[1].covenant[1]>>]
           NewVault(d) == [terms |-> d.request.terms, cell |-> NewCell(d)]
           Payment(d) == [to |-> d.built.tx.outs[1].script, amount |-> d.built.tx.outs[1].amount,
                          terms |-> d.request.terms, at |-> now, renewed |-> spent]
           Recorded(d) == [d.built.review.record EXCEPT !.confirmed = IF d.request.action = "create" THEN {}
                                                                    ELSE {d.request.cell}]
           Moved(d) == /\ d.request.action # "create" =>
                            /\ VaultAcceptsSpend(d.request.terms, d.built.tx, d.request.action, d.user,
                                                 AgeOf(d.request.cell))
                            /\ Final(d.built.tx, AgeOf(d.request.cell))
                       /\ coins' = CoinsAfter(d.built.tx)
                       /\ vault' = IF Opens(d.request) THEN {} ELSE {NewVault(d)}
                       /\ paid' = IF Opens(d.request) THEN {Payment(d)} ELSE paid
                       /\ spent' = IF Opens(d.request) THEN spent ELSE now
                       /\ backups' = backups \cup Seal(Password, Recorded(d))
<1>1. PICK d \in draft :
        /\ d.what = "vault" /\ draft' = {}
        /\ Moved(d) \/ UNCHANGED <<coins, vault, paid, spent, backups>>
        /\ UNCHANGED <<now, wyrm>>
  BY DEF SubmitVault
<1> DEFINE r == d.request
           b == d.built
<1>2. VaultIsAsked(d.user, r) /\ b = BuildVault(r) /\ b.ok /\ r.sender = AddressOf(d.user)
  BY <1>1 DEF IInv, DraftsAreAsked, DraftIsAsked
<1>3. now \in Nat /\ spent \in Nat /\ spent <= now
  BY DEF IInv, ClockRuns
<1>4. WyrmIsSound' /\ DraftsAreAsked'
  BY <1>1 DEF IInv, WyrmIsSound, DraftsAreAsked
<1>5. CASE UNCHANGED <<coins, vault, paid, spent, backups>>
  <2>1. ClockRuns' /\ CoinsAreOwn' /\ VaultIsSound' /\ BackupsAreSound' /\ VaultPaysItsHeir'
    BY <1>1, <1>5 DEF IInv, ClockRuns, CoinsAreOwn, VaultIsSound, BackupsAreSound, VaultPaysItsHeir
  <2> QED
    BY <1>4, <2>1 DEF IInv
<1>6. CASE Moved(d)
  <2>1. CoinsAreOwn'
    BY <1>1, <1>6, CoinsStayOwn DEF IInv
  <2>2. ClockRuns'
    <3>1. spent' = spent \/ spent' = now
      BY <1>6
    <3> QED
      BY <1>1, <3>1 DEF IInv, ClockRuns
  <2>3. PICK f \in VaultCandidates(r) : b.tx = VaultTx(r, f, VaultFee(r))
    BY <1>2, VaultIsBuilt
  <2>4. b.review.record = VaultRecord(r, b.tx) /\ r.terms.limit \in Nat
    BY <1>2, VaultIsBuilt, TermsAreTimes
  <2>5. ASSUME NEW e \in Seal(Password, Recorded(d))
        PROVE  /\ Open(Password, e) = {e.content}
               /\ e.content.descriptor.script = VaultScriptOf(r.terms) /\ e.content.amount = r.amount
               /\ e.content.covenant = IF r.action = "create" THEN <<b.tx.outs[1].covenant[1]>> ELSE r.cell.covenant
    <3> DEFINE cells == IF r.action = "create" THEN {} ELSE {r.cell}
    <3>1. Recorded(d) = [VaultRecord(r, b.tx) EXCEPT !.confirmed = cells]
      BY <2>4
    <3>2. Open(Password, e) = {e.content} /\ e.content = Recorded(d)
      <4> HIDE DEF Recorded
      <4> QED
        BY <2>5, SealedOpens
    <3> HIDE DEF Recorded, cells
    <3> QED
      BY <3>1, <3>2, RecordNames
  <2>6. r.action # "create" => r.cell.daa = spent /\ r.cell.covenant = <<r.cell.covenant[1]>>
    BY <1>2 DEF VaultIsAsked
  <2>7. CASE Opens(r)
    <3>1. r.action \in {"release", "claim"} /\ r.action # "create"
      BY <2>7 DEF Opens
    <3>2. vault' = {} /\ paid' = {Payment(d)} /\ backups' = backups \cup Seal(Password, Recorded(d))
      BY <1>6, <2>7
    <3>3. VaultAcceptsSpend(r.terms, b.tx, r.action, d.user, now - spent) /\ b.tx.lock < now
      BY <1>6, <2>6, <3>1 DEF AgeOf, Final
    <3>4. b.tx.lock \in Int
      <4>1. b.tx.lock = IF r.action = "release" THEN r.terms.limit ELSE 0
        BY <2>3 DEF VaultTx
      <4> QED
        BY <2>4, <4>1
    <3>5. IF r.terms.kind = "timeLock" THEN b.tx.outs[1].script = <<"pk", r.terms.owner>> /\ now > r.terms.limit
          ELSE b.tx.outs[1].script = <<"pk", r.terms.beneficiary>> /\ now >= spent + r.terms.limit
      BY <1>3, <2>4, <3>1, <3>3, <3>4, SpendPaysHeir
    <3>6. Payment(d).to = b.tx.outs[1].script /\ Payment(d).terms = r.terms /\ Payment(d).at = now /\ Payment(d).renewed = spent
      OBVIOUS
    <3> HIDE DEF Payment, Recorded
    <3>7. VaultPaysItsHeir'
      BY <3>2, <3>5, <3>6 DEF VaultPaysItsHeir
    <3>8. VaultIsSound'
      BY <3>2 DEF VaultIsSound
    <3>9. BackupsAreSound'
      BY <2>5, <3>2 DEF IInv, BackupsAreSound
    <3> QED
      BY <1>4, <2>1, <2>2, <3>7, <3>8, <3>9 DEF IInv
  <2>8. CASE ~Opens(r)
    <3>1. vault' = {NewVault(d)} /\ paid' = paid /\ spent' = now /\ backups' = backups \cup Seal(Password, Recorded(d))
      BY <1>6, <2>8
    <3>2. /\ b.tx.outs[1].amount = r.amount /\ b.tx.outs[1].script = VaultScriptOf(r.terms)
          /\ r.action # "create" => b.tx.outs[1].covenant = <<r.cell.covenant[1], 1>>
      BY <2>3, <2>8, FirstOutput
    <3>3. /\ NewVault(d).terms = r.terms /\ NewVault(d).cell.daa = now
          /\ NewVault(d).cell.script = VaultScriptOf(r.terms) /\ NewVault(d).cell.value = r.amount
          /\ NewVault(d).cell.covenant = <<b.tx.outs[1].covenant[1]>>
      BY <3>2
    <3>4. NewVault(d).cell.covenant = <<NewVault(d).cell.covenant[1]>>
      BY <3>3
    <3>5. r.action # "create" => r.cell.covenant = <<b.tx.outs[1].covenant[1]>>
      BY <2>6, <3>2
    <3>6. ASSUME NEW e \in backups PROVE Names(e.content, NewVault(d).cell)
      <4>1. CASE r.action = "create"
        BY <1>2, <3>6, <4>1 DEF IInv, BackupsAreSound, VaultIsAsked
      <4>2. CASE r.action # "create"
        <5>1. Names(e.content, r.cell)
          BY <1>2, <3>6, <4>2 DEF VaultIsAsked
        <5>2. r.cell.value = r.amount /\ r.cell.script = VaultScriptOf(r.terms)
          BY <1>2, <4>2, VaultIsBuilt DEF VaultCellOk
        <5> QED
          BY <3>3, <3>5, <4>2, <5>1, <5>2 DEF Names
      <4> QED
        BY <4>1, <4>2
    <3> HIDE DEF NewVault, Recorded
    <3>7. VaultIsSound'
      BY <2>4, <3>1, <3>3, <3>4 DEF VaultIsSound
    <3>8. \A e \in Seal(Password, Recorded(d)) : Names(e.content, NewVault(d).cell)
      BY <2>5, <3>3, <3>5 DEF Names
    <3>9. BackupsAreSound'
      BY <2>5, <3>1, <3>6, <3>8 DEF IInv, BackupsAreSound
    <3>10. VaultPaysItsHeir'
      BY <3>1 DEF IInv, VaultPaysItsHeir
    <3> QED
      BY <1>4, <2>1, <2>2, <3>7, <3>9, <3>10 DEF IInv
  <2> QED
    BY <2>7, <2>8
<1> QED
  BY <1>1, <1>5, <1>6

----------------------------------------------------------------------------
(* The theorems.                                                           *)
LEMMA InvariantIsKept == IInv /\ [Next]_vars => IInv'
<1> SUFFICES ASSUME IInv, [Next]_vars PROVE IInv'
  OBVIOUS
<1>1. CASE Tick \/ Decline \/ \E u \in Users : Gift(u)
  BY <1>1, WaitingSteps
<1>2. ASSUME NEW u \in Users, PrepareGenesis(u) \/ PrepareTransition(u) \/ PrepareVault(u) PROVE IInv'
  BY <1>2, PreparingSteps
<1>3. CASE SubmitGenesis
  BY <1>3, SubmittedGenesis
<1>4. CASE SubmitTransition
  BY <1>4, SubmittedTransition
<1>5. CASE SubmitVault
  BY <1>5, SubmittedVault
<1>6. ASSUME NEW u \in Users, OutsideTransition(u) PROVE IInv'
  BY <1>6, OutsideTransitions
<1>7. ASSUME NEW u \in Users, OutsideSpend(u) PROVE IInv'
  BY <1>7, OutsideSpends
<1>8. CASE UNCHANGED vars
  <2>1. UNCHANGED <<now, coins, wyrm, vault, draft, backups, paid, spent>>
    BY <1>8 DEF vars
  <2>2. ClockRuns' /\ CoinsAreOwn' /\ WyrmIsSound' /\ VaultIsSound'
    BY <2>1 DEF IInv, ClockRuns, CoinsAreOwn, WyrmIsSound, VaultIsSound
  <2>3. BackupsAreSound' /\ VaultPaysItsHeir'
    BY <2>1 DEF IInv, BackupsAreSound, VaultPaysItsHeir
  <2>4. DraftsAreAsked'
    BY <2>1, DraftsStayAsked DEF IInv, ClockRuns
  <2> QED
    BY <2>2, <2>3, <2>4 DEF IInv
<1> QED
  BY <1>1, <1>2, <1>3, <1>4, <1>5, <1>6, <1>7, <1>8 DEF Next

\* The wallet's builders, the contracts and the programs that use the
\* contracts without the wallet keep together what the properties rest on.
THEOREM Invariance == Spec => []IInv
<1>1. Init => IInv
  BY InvariantHoldsInitially
<1>2. IInv /\ [Next]_vars => IInv'
  BY InvariantIsKept
<1> QED
  BY <1>1, <1>2, PTL DEF Spec

\* Whatever transition prepare shows for approval, the contract run by sign
\* accepts it: next_state and covenant_wyrm.sil agree on every state a Wyrm
\* can come to, at every clock, and both programs compute the same successor.
THEOREM TransitionsAgree == Spec => []ContractAgrees
<1>1. IInv => ContractAgrees
  <2> SUFFICES ASSUME IInv, NEW d \in draft, d.what = "transition",
                      d.request.kind # 0 => d.request.action = "specialFeed"
               PROVE  Simulated(d.request, d.built.review)
    BY DEF ContractAgrees
  <2> DEFINE r == d.request
             review == d.built.review
             approver == IF RequiresOwner(r.action) THEN r.sender.key ELSE "nobody"
  <2>1. DraftIsAsked(d)
    BY DEF IInv, DraftsAreAsked
  <2>2. StepIsAsked(r) /\ d.built = BuildTransition(r) /\ d.built.ok
    BY <2>1 DEF DraftIsAsked
  <2>3. /\ \E c \in r.coins : review.clock = c.daa
        /\ review.previous = r.cell.state
        /\ review.next \in NextStates(r.cell.state, r, review.clock)
        /\ review.tx.outs[1].script = WyrmScript(review.next)
        /\ RequiresOwner(r.action) => r.cell.state.owner = r.sender.key
    BY <2>2, TransitionIsBuilt
  <2>4. review.clock \in Int /\ StepRequest(r) /\ Sound(r.cell.state, now)
    BY <2>2, <2>3 DEF StepIsAsked
  <2>5. RequiresOwner(r.action) => approver = r.cell.state.owner /\ r.sender.key = r.cell.state.owner
    BY <2>3
  <2> HIDE DEF approver
  <2>6. ContractAccepts(r.cell.state, review.next, r.action, r.kind, review.clock, approver, r.sender.key)
    BY <2>3, <2>4, <2>5, WalletStepsAreLegal
  <2> QED
    BY <2>3, <2>6 DEF Simulated, approver
<1> QED
  BY <1>1, Invariance, PTL

\* Nobody, with the wallet or with a program of his own, ends a Wyrm before
\* three days have passed since its last meal: the age the contract's die
\* looks at is that of a coin, and no coin was confirmed later than now.
THEOREM DeathsAreDeserved == Spec => []DeathIsDeserved
<1>1. IInv => DeathIsDeserved
  BY DEF IInv, WyrmIsSound, Sound, DeathIsDeserved
<1> QED
  BY <1>1, Invariance, PTL

\* No step of the wallet or of the contract spends the reserve, produces a
\* state that compile_state refuses or puts a clock into the future, where
\* next_state would find a negative age.
THEOREM WyrmsStaySpendable == Spec => []WyrmStaysSpendable
<1>1. IInv => WyrmStaysSpendable
  BY DEF IInv, WyrmIsSound, Sound, WyrmStaysSpendable
<1> QED
  BY <1>1, Invariance, PTL

\* Funds leave a vault only for the owner of its time lock or, after the
\* inactivity period, for the beneficiary of its dead man's switch; the
\* script alone ensures it, since another program may build the spend.
THEOREM VaultsPayTheirHeir == Spec => []VaultPaysItsHeir
<1>1. IInv => VaultPaysItsHeir
  BY DEF IInv
<1> QED
  BY <1>1, Invariance, PTL

\* The lock time, the sequence and the outputs that build writes for release,
\* heartbeat and claim are those that the contract and the consensus ask for,
\* at once and for as long as the review is open.
THEOREM DraftsAreMinable == Spec => []DraftIsMinable
<1>1. IInv => DraftIsMinable
  <2> SUFFICES ASSUME IInv, NEW d \in draft, d.what = "vault", d.request.action # "create"
               PROVE  /\ VaultAcceptsSpend(d.request.terms, d.built.tx, d.request.action, d.user, AgeOf(d.request.cell))
                      /\ Final(d.built.tx, AgeOf(d.request.cell))
    BY DEF DraftIsMinable
  <2> DEFINE r == d.request
  <2>1. VaultIsAsked(d.user, r) /\ d.built = BuildVault(r) /\ d.built.ok /\ r.sender = AddressOf(d.user)
    BY DEF IInv, DraftsAreAsked, DraftIsAsked
  <2>2. now \in Nat /\ r.now <= now /\ r.cell.daa \in Nat
    BY <2>1 DEF IInv, ClockRuns, VaultIsAsked
  <2>3. r.action \in {"heartbeat", "release", "claim"} /\ \A c \in r.coins : c.script = <<"pk", d.user>>
    BY <2>1 DEF VaultIsAsked
  <2>4. /\ VaultAcceptsSpend(r.terms, d.built.tx, r.action, d.user, now - r.cell.daa)
        /\ d.built.tx.lock < now
        /\ d.built.tx.ins[1].sequence > 0 => now - r.cell.daa >= d.built.tx.ins[1].sequence
    BY <2>1, <2>2, <2>3, VaultIsMinable
  <2> QED
    BY <2>4 DEF Final, AgeOf
<1> QED
  BY <1>1, Invariance, PTL

\* Every sealed record opens with the password it was sealed with and names
\* the script, the value and the covenant of the vault, however many
\* heartbeats have moved the vault since: a heartbeat keeps all three.
THEOREM BackupsFindTheVault == Spec => []BackupFindsVault
<1>1. IInv => BackupFindsVault
  BY DEF IInv, BackupsAreSound, Names, BackupFindsVault
<1> QED
  BY <1>1, Invariance, PTL
=============================================================================
