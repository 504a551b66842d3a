---------------------------- MODULE NexusProofs ----------------------------
(***************************************************************************)
(* Proofs about NexusOffers, for every number of requests and owners and   *)
(* every set of amounts: what is written is an offer, whoever decided      *)
(* without the buyer has told the buyer, and, with one request at a time,  *)
(* an offer is relisted at the price and by the seller that were agreed.   *)
(***************************************************************************)
EXTENDS NexusOffers, TLAPS

(***************************************************************************)
(* The inductive invariant                                                 *)
(***************************************************************************)

Requested == {"COUNTERED", "DECLINED", "CANCELLED_BY_BUYER", "AGREED_WAITING_RELIST"}

RequestType ==
    [pc : {"none", "accepting", "owning", "refresh", "invalidate", "tell", "read", "write"},
     next : Statuses \cup {None}, actor : Owners \cup {Buyer, None},
     amount : Amounts \cup {None}, seller : Owners \cup {None}]

ReconcilerType ==
    [pc : {"rest", "compare", "changed", "listed"},
     read : Offer \cup {None}, owner : Owners \cup {None}, price : Amounts \cup {None}]

\* A request being served is one of the buyer or of an owner, for a status that
\* this party may ask for, and has what its next step needs.
RequestsAreServed ==
    \A r \in Requests :
        LET q == request[r] IN
        /\ q.pc # "none" => q.next \in Requested /\ q.actor \in Owners \cup {Buyer}
        /\ q.pc # "none" /\ q.actor = Buyer => q.next \in {"CANCELLED_BY_BUYER", "AGREED_WAITING_RELIST"}
        /\ q.pc = "invalidate" => q.seller \in Owners
        /\ q.pc = "write" => q.amount \in Amounts

\* A reconciliation under way has read an offer, and its owner when it changed.
ReconcilerHasRead ==
    /\ reconciler.pc # "rest" => reconciler.read \in Offer
    /\ reconciler.pc = "changed" => reconciler.owner \in Owners

IInv == TypeOK /\ RequestsAreServed /\ ReconcilerHasRead /\ OutcomeIsTold

(***************************************************************************)
(* The steps of a request                                                  *)
(***************************************************************************)

LEMMA NoRequestType == NoRequest \in RequestType
BY DEF NoRequest, RequestType

\* One request is served, the others wait.
Serves(r, q) ==
    /\ request' \in [Requests -> RequestType]
    /\ request'[r] = q
    /\ \A s \in Requests : s # r => request'[s] = request[s]

LEMMA ServesType ==
    ASSUME TypeOK, NEW r \in Requests, NEW q \in RequestType, request' = [request EXCEPT ![r] = q]
    PROVE  Serves(r, q)
BY DEF TypeOK, Serves, RequestType

\* A request that is answered for leaves the others as they were.
LEMMA ServedStep ==
    ASSUME RequestsAreServed, NEW r \in Requests, NEW q, Serves(r, q),
           /\ q.pc # "none" => q.next \in Requested /\ q.actor \in Owners \cup {Buyer}
           /\ q.pc # "none" /\ q.actor = Buyer => q.next \in {"CANCELLED_BY_BUYER", "AGREED_WAITING_RELIST"}
           /\ q.pc = "invalidate" => q.seller \in Owners
           /\ q.pc = "write" => q.amount \in Amounts
    PROVE  RequestsAreServed'
BY DEF RequestsAreServed, Serves

\* What a request makes of itself, of the offer and of what the buyer knows.
LEMMA RequestStep ==
    ASSUME IInv, NEW r \in Requests, BuyerAsks(r) \/ SellerAsks(r) \/ Serve(r)
    PROVE  /\ request' \in [Requests -> RequestType] /\ RequestsAreServed'
           /\ UNCHANGED <<world, worker, reconciler>>
           /\ told \subseteq told' /\ told' \subseteq Statuses
           /\ \/ UNCHANGED offer
              \/ /\ offer' \in Offer
                 /\ offer'.status \in Requested \cup {"INVALIDATED_OWNER_CHANGED"}
                 /\ offer'.status \in {"COUNTERED", "DECLINED"} => offer'.status \in told'
<1> USE DEF At, Others
<1>0. /\ TypeOK /\ RequestsAreServed /\ offer \in Offer /\ owner \in Owners /\ told \subseteq Statuses
      /\ request \in [Requests -> RequestType] /\ request[r] \in RequestType
      /\ Requested \subseteq Statuses /\ "INVALIDATED_OWNER_CHANGED" \in Statuses
  BY DEF IInv, TypeOK, RequestType, Requested, Statuses, Active, Negotiable, TERMINAL_STATUSES
<1> DEFINE p == request[r]
<1>1. ASSUME End(r)
      PROVE  request' \in [Requests -> RequestType] /\ RequestsAreServed'
  <2>1. Serves(r, NoRequest)
    BY <1>0, <1>1, NoRequestType, ServesType DEF End
  <2>2. QED
    BY <1>0, <2>1, ServedStep DEF Serves, NoRequest
<1>2. ASSUME NEW actor \in Owners \cup {Buyer}, NEW next \in Requested, Begin(r, actor, next),
             actor = Buyer => next \in {"CANCELLED_BY_BUYER", "AGREED_WAITING_RELIST"}
      PROVE  request' \in [Requests -> RequestType] /\ RequestsAreServed'
  <2> DEFINE q == [NoRequest EXCEPT !.actor = actor, !.next = next,
                     !.pc = IF next = "CANCELLED_BY_BUYER" THEN "read"
                            ELSE IF actor = Buyer THEN "accepting" ELSE "owning"]
  <2>1. /\ q \in RequestType /\ q.actor = actor /\ q.next = next
        /\ q.pc \notin {"invalidate", "write"}
    BY <1>0 DEF NoRequest, RequestType
  <2>2. request' = [request EXCEPT ![r] = q]
    BY <1>2 DEF Begin
  <2> HIDE DEF q
  <2>3. Serves(r, q)
    BY <1>0, <2>1, <2>2, ServesType
  <2>4. QED
    BY <1>0, <1>2, <2>1, <2>3, ServedStep DEF Serves
<1>3. CASE BuyerAsks(r) \/ SellerAsks(r)
  <2>1. \E actor \in Owners \cup {Buyer}, next \in Requested :
           /\ Begin(r, actor, next)
           /\ actor = Buyer => next \in {"CANCELLED_BY_BUYER", "AGREED_WAITING_RELIST"}
    BY <1>3, BuyerIsNoOwner DEF BuyerAsks, SellerAsks, Requested
  <2>2. UNCHANGED <<offer, told, world, worker, reconciler>>
    BY <2>1 DEF Begin
  <2>3. QED
    BY <1>0, <1>2, <2>1, <2>2
<1>4. ASSUME NEW q \in RequestType, request' = [request EXCEPT ![r] = q], p.pc # "none",
             q.next = p.next, q.actor = p.actor,
             q.pc = "invalidate" => q.seller \in Owners,
             q.pc = "write" => q.amount \in Amounts
      PROVE  request' \in [Requests -> RequestType] /\ RequestsAreServed'
  <2>1. Serves(r, q)
    BY <1>0, <1>4, ServesType
  <2>2. /\ q.next \in Requested /\ q.actor \in Owners \cup {Buyer}
        /\ q.actor = Buyer => q.next \in {"CANCELLED_BY_BUYER", "AGREED_WAITING_RELIST"}
    BY <1>0, <1>4 DEF RequestsAreServed
  <2>3. QED
    BY <1>0, <1>4, <2>1, <2>2, ServedStep DEF Serves
<1>5. CASE AcceptCounter(r)
  <2>1. [p EXCEPT !.pc = "refresh"] \in RequestType
    BY <1>0 DEF RequestType
  <2>2. request' = [request EXCEPT ![r] = [p EXCEPT !.pc = "refresh"]] /\ p.pc # "none"
    BY <1>5 DEF AcceptCounter
  <2>3. UNCHANGED <<offer, told, world, worker, reconciler>>
    BY <1>5 DEF AcceptCounter
  <2>4. QED
    BY <1>0, <1>4, <2>1, <2>2, <2>3 DEF RequestType
<1>6. ASSUME NEW amount \in Amounts, OwnerChecked(r, amount)
      PROVE  /\ request' \in [Requests -> RequestType] /\ RequestsAreServed'
             /\ UNCHANGED <<offer, told, world, worker, reconciler>>
  <2> DEFINE q == [p EXCEPT !.pc = "refresh", !.amount = IF p.next = "COUNTERED" THEN amount ELSE None]
  <2>1. q \in RequestType /\ q.next = p.next /\ q.actor = p.actor /\ q.pc = "refresh"
    BY <1>0 DEF RequestType
  <2>2. request' = [request EXCEPT ![r] = q] /\ p.pc # "none"
    BY <1>6 DEF OwnerChecked
  <2> HIDE DEF q
  <2>3. QED
    BY <1>4, <1>6, <2>1, <2>2 DEF OwnerChecked
<1>7. CASE Refresh(r)
  <2> DEFINE q == [p EXCEPT !.seller = owner,
                            !.pc = IF p.actor \in {Buyer, owner} THEN "read" ELSE "invalidate"]
  <2>1. /\ q \in RequestType /\ q.next = p.next /\ q.actor = p.actor
        /\ q.seller \in Owners /\ q.pc # "write"
    BY <1>0 DEF RequestType
  <2>2. request' = [request EXCEPT ![r] = q] /\ p.pc # "none"
    BY <1>7 DEF Refresh
  <2>3. UNCHANGED <<offer, told, world, worker, reconciler>>
    BY <1>7 DEF Refresh
  <2> HIDE DEF q
  <2>4. QED
    BY <1>0, <1>4, <2>1, <2>2, <2>3
<1>8. CASE Invalidate(r)
  <2>1. [p EXCEPT !.pc = "tell"] \in RequestType
    BY <1>0 DEF RequestType
  <2>2. request' = [request EXCEPT ![r] = [p EXCEPT !.pc = "tell"]] /\ p.pc = "invalidate"
    BY <1>8 DEF Invalidate
  <2>3. request' \in [Requests -> RequestType] /\ RequestsAreServed'
    BY <1>0, <1>4, <2>1, <2>2 DEF RequestType
  <2>4. p.seller \in Owners
    BY <1>0, <2>2 DEF RequestsAreServed
  <2>5. offer' \in Offer /\ offer'.status = "INVALIDATED_OWNER_CHANGED"
    BY <1>0, <1>8, <2>4 DEF Invalidate, Offer
  <2>6. QED
    BY <1>0, <1>8, <2>3, <2>5 DEF Invalidate
<1>9. CASE Tell(r)
  BY <1>0, <1>1, <1>9 DEF Tell
<1>10. CASE Transition(r)
  <2> DEFINE q == [p EXCEPT !.pc = "write", !.amount = IF @ = None THEN offer.amount ELSE @]
  <2>1. offer.amount \in Amounts
    BY <1>0 DEF Offer
  <2>2. q \in RequestType /\ q.next = p.next /\ q.actor = p.actor /\ q.amount \in Amounts
        /\ q.pc = "write"
    BY <1>0, <2>1 DEF RequestType
  <2>3. request' = [request EXCEPT ![r] = q] /\ p.pc # "none"
    BY <1>10 DEF Transition
  <2>4. UNCHANGED <<offer, told, world, worker, reconciler>>
    BY <1>10 DEF Transition
  <2> HIDE DEF q
  <2>5. QED
    BY <1>0, <1>4, <2>2, <2>3, <2>4
<1>11. CASE Write(r)
  <2>1. /\ p.pc = "write" /\ p.next \in Requested /\ p.amount \in Amounts
        /\ p.actor = Buyer => p.next \in {"CANCELLED_BY_BUYER", "AGREED_WAITING_RELIST"}
    BY <1>0, <1>11 DEF Write, RequestsAreServed
  <2>2. offer' = [status |-> p.next, amount |-> p.amount,
                  seller |-> IF p.actor = Buyer /\ p.seller # None THEN p.seller ELSE offer.seller]
    BY <1>11 DEF Write
  <2>3. offer' \in Offer /\ offer'.status = p.next
    BY <1>0, <2>1, <2>2 DEF Offer, RequestType
  <2>4. told' = IF p.actor = Buyer THEN told ELSE told \cup {p.next}
    BY <1>11 DEF Write
  <2>5. request' \in [Requests -> RequestType] /\ RequestsAreServed'
        /\ UNCHANGED <<world, worker, reconciler>>
    BY <1>1, <1>11 DEF Write
  <2>6. QED
    BY <1>0, <2>1, <2>3, <2>4, <2>5
<1>12. CASE Fail(r)
  BY <1>0, <1>1, <1>12 DEF Fail
<1>13. QED
  BY <1>0, <1>3, <1>5, <1>6, <1>7, <1>8, <1>9, <1>10, <1>11, <1>12 DEF Serve

(***************************************************************************)
(* The other actors                                                        *)
(***************************************************************************)

LEMMA ReconcilerStep ==
    ASSUME IInv, Reconciling
    PROVE  /\ reconciler' \in ReconcilerType /\ ReconcilerHasRead'
           /\ UNCHANGED <<world, request, worker>>
           /\ told \subseteq told' /\ told' \subseteq Statuses
           /\ \/ UNCHANGED offer
              \/ /\ offer' \in Offer /\ offer'.status = "INVALIDATED_OWNER_CHANGED"
              \/ /\ offer' \in Offer /\ offer'.status = "RELIST_DETECTED" /\ "RELIST_DETECTED" \in told'
                 /\ offer.status = "AGREED_WAITING_RELIST"
<1>0. /\ ReconcilerHasRead /\ offer \in Offer /\ owner \in Owners /\ told \subseteq Statuses
      /\ reconciler \in ReconcilerType /\ Resting \in ReconcilerType /\ Resting.pc = "rest"
      /\ {"INVALIDATED_OWNER_CHANGED", "RELIST_DETECTED"} \subseteq Statuses
  BY DEF IInv, TypeOK, ReconcilerType, Resting, Statuses, Active, TERMINAL_STATUSES
<1>1. CASE Candidate
  <2>1. reconciler' = [reconciler EXCEPT !.pc = "compare", !.read = offer]
        /\ UNCHANGED <<offer, world, request, worker, told>>
    BY <1>1 DEF Candidate
  <2>2. QED
    BY <1>0, <2>1 DEF ReconcilerType, ReconcilerHasRead
<1>2. CASE Compare
  <2>1. /\ reconciler.read \in Offer /\ UNCHANGED <<offer, world, request, worker, told>>
        /\ \/ reconciler' = [reconciler EXCEPT !.pc = "changed", !.owner = owner]
           \/ /\ reconciler' = [reconciler EXCEPT !.pc = "listed", !.price = listing]
              /\ listing = reconciler.read.amount
    BY <1>0, <1>2 DEF Compare, ReconcilerHasRead
  <2>2. reconciler.read.amount \in Amounts
    BY <2>1 DEF Offer
  <2>3. QED
    BY <1>0, <2>1, <2>2 DEF ReconcilerType, ReconcilerHasRead
<1>3. CASE OwnerChanged
  <2>1. reconciler' = Resting /\ UNCHANGED <<world, request, worker>> /\ reconciler.owner \in Owners
    BY <1>0, <1>3 DEF OwnerChanged, ReconcilerHasRead
  <2>2. \/ UNCHANGED <<offer, told>>
        \/ /\ offer' = [offer EXCEPT !.status = "INVALIDATED_OWNER_CHANGED", !.seller = reconciler.owner]
           /\ told' = told \cup {"INVALIDATED_OWNER_CHANGED"}
    BY <1>3 DEF OwnerChanged
  <2>3. QED
    BY <1>0, <2>1, <2>2 DEF Offer, ReconcilerHasRead
<1>4. CASE Relist
  <2>1. reconciler' = Resting /\ UNCHANGED <<world, request, worker>>
    BY <1>4 DEF Relist
  <2>2. \/ UNCHANGED <<offer, told>>
        \/ /\ offer.status = "AGREED_WAITING_RELIST"
           /\ offer' = [offer EXCEPT !.status = "RELIST_DETECTED"]
           /\ told' = told \cup {"RELIST_DETECTED"}
    BY <1>4 DEF Relist
  <2>3. QED
    BY <1>0, <2>1, <2>2 DEF Offer, ReconcilerHasRead
<1>5. CASE ReconcilerFails
  BY <1>0, <1>5 DEF ReconcilerFails, ReconcilerHasRead
<1>6. QED
  BY <1>1, <1>2, <1>3, <1>4, <1>5 DEF Reconciling

LEMMA WorkerStep ==
    ASSUME IInv, Working
    PROVE  /\ worker' \in {"rest", "found", "expire"}
           /\ UNCHANGED <<world, request, reconciler>>
           /\ told \subseteq told' /\ told' \subseteq Statuses
           /\ \/ UNCHANGED offer
              \/ offer' \in Offer /\ offer'.status = "EXPIRED" /\ "EXPIRED" \in told'
<1>0. offer \in Offer /\ told \subseteq Statuses /\ "EXPIRED" \in Statuses
  BY DEF IInv, TypeOK, Statuses, TERMINAL_STATUSES
<1>1. CASE Expire
  BY <1>0, <1>1 DEF Expire, Offer
<1>2. CASE Find \/ Look \/ WorkerFails
  BY <1>0, <1>2 DEF Find, Look, WorkerFails
<1>3. QED
  BY <1>1, <1>2 DEF Working

\* The world moves without the service.
LEMMA WorldStep ==
    ASSUME IInv, Overdue \/ Trade
    PROVE  /\ overdue' \in BOOLEAN /\ owner' \in Owners /\ listing' \in Amounts \cup {None}
           /\ UNCHANGED <<offer, request, worker, reconciler, told>>
BY DEF IInv, TypeOK, Overdue, Trade

(***************************************************************************)
(* Theorems                                                                *)
(***************************************************************************)

LEMMA IInvInit == Init => IInv
<1>1. Init => TypeOK
  <2>1. NoRequest \in RequestType /\ Resting \in ReconcilerType
    BY NoRequestType DEF Resting, ReconcilerType
  <2>2. Init => offer \in Offer
    BY DEF Init, Offer, Statuses, Active, Negotiable
  <2>3. Init => request \in [Requests -> RequestType]
    BY <2>1 DEF Init
  <2>4. Init => reconciler \in ReconcilerType
    BY <2>1 DEF Init
  <2>5. Init => /\ overdue \in BOOLEAN /\ owner \in Owners /\ listing \in Amounts \cup {None}
                /\ worker \in {"rest", "found", "expire"} /\ told \subseteq Statuses
    BY DEF Init
  <2>6. QED
    BY <2>2, <2>3, <2>4, <2>5 DEF TypeOK, RequestType, ReconcilerType
<1>2. Init => RequestsAreServed /\ ReconcilerHasRead /\ OutcomeIsTold
  BY DEF Init, RequestsAreServed, ReconcilerHasRead, OutcomeIsTold, NoRequest, Resting
<1>3. QED
  BY <1>1, <1>2 DEF IInv

LEMMA IInvStep ==
    ASSUME IInv, [Next]_vars
    PROVE  IInv'
<1> USE DEF world
<1>0. TypeOK /\ RequestsAreServed /\ ReconcilerHasRead /\ OutcomeIsTold
  BY DEF IInv
<1>1. CASE UNCHANGED vars
  BY <1>0, <1>1 DEF IInv, TypeOK, RequestsAreServed, ReconcilerHasRead, OutcomeIsTold, vars
<1>2. ASSUME NEW r \in Requests, BuyerAsks(r) \/ SellerAsks(r) \/ Serve(r)
      PROVE  IInv'
  <2>1. /\ request' \in [Requests -> RequestType] /\ RequestsAreServed'
        /\ UNCHANGED <<overdue, owner, listing, worker, reconciler>>
        /\ told \subseteq told' /\ told' \subseteq Statuses
        /\ \/ UNCHANGED offer
           \/ /\ offer' \in Offer
              /\ offer'.status \in Requested \cup {"INVALIDATED_OWNER_CHANGED"}
              /\ offer'.status \in {"COUNTERED", "DECLINED"} => offer'.status \in told'
    BY <1>2, RequestStep
  <2>2. TypeOK'
    BY <1>0, <2>1 DEF TypeOK, RequestType
  <2>3. ReconcilerHasRead'
    BY <1>0, <2>1 DEF ReconcilerHasRead
  <2>4. OutcomeIsTold'
    BY <1>0, <2>1 DEF OutcomeIsTold, Requested
  <2>5. QED
    BY <2>1, <2>2, <2>3, <2>4 DEF IInv
<1>3. CASE Reconciling
  <2>1. TypeOK'
    BY <1>0, <1>3, ReconcilerStep DEF TypeOK, ReconcilerType
  <2>2. RequestsAreServed' /\ OutcomeIsTold' /\ ReconcilerHasRead'
    BY <1>0, <1>3, ReconcilerStep DEF RequestsAreServed, OutcomeIsTold
  <2>3. QED
    BY <2>1, <2>2 DEF IInv
<1>4. CASE Working
  <2>1. TypeOK'
    BY <1>0, <1>4, WorkerStep DEF TypeOK
  <2>2. RequestsAreServed' /\ OutcomeIsTold' /\ ReconcilerHasRead'
    BY <1>0, <1>4, WorkerStep DEF RequestsAreServed, OutcomeIsTold, ReconcilerHasRead
  <2>3. QED
    BY <2>1, <2>2 DEF IInv
<1>5. CASE Overdue \/ Trade
  BY <1>0, <1>5, WorldStep DEF IInv, TypeOK, RequestsAreServed, OutcomeIsTold, ReconcilerHasRead
<1>6. QED
  BY <1>1, <1>2, <1>3, <1>4, <1>5 DEF Next

LEMMA Invariance == Spec => []IInv
BY IInvInit, IInvStep, PTL DEF Spec

\* The row and everything read from it keep their types, however the statements of
\* the service interleave.
THEOREM TypeCorrect == Spec => []TypeOK
<1>1. IInv => TypeOK
  BY DEF IInv
<1>2. QED
  BY <1>1, Invariance, PTL

\* What happens to an offer without its buyer has been told to the buyer
\* (offer-service.ts:322, expiry-worker.ts:35): the notification commits with the
\* update, so no interleaving and no failure separates the two.
THEOREM OutcomesAreTold == Spec => []OutcomeIsTold
<1>1. IInv => OutcomeIsTold
  BY DEF IInv
<1>2. QED
  BY <1>1, Invariance, PTL

(***************************************************************************)
(* Agreements                                                              *)
(***************************************************************************)

OneRequest == \A r, s \in Requests : r = s

Quiet == \A r \in Requests : At(r, "none")

\* Nobody is served once an offer is agreed, and an agreement that a reconciliation
\* has read stays what it was until it is over; a listing was compared with one.
AgreedIsSettled ==
    /\ offer.status \in {"AGREED_WAITING_RELIST", "RELIST_DETECTED"} => Quiet
    /\ reconciler.pc # "rest" /\ reconciler.read.status = "AGREED_WAITING_RELIST" =>
          /\ Quiet /\ offer.status \notin Negotiable
          /\ offer.status = "AGREED_WAITING_RELIST" =>
                /\ offer.amount = reconciler.read.amount
                /\ offer.seller = reconciler.read.seller
    /\ reconciler.pc = "listed" =>
          /\ reconciler.read.status = "AGREED_WAITING_RELIST"
          /\ reconciler.price = reconciler.read.amount

\* A request that is being served ends with what it writes.
LEMMA ServeEnds ==
    ASSUME IInv, NEW r \in Requests, Serve(r)
    PROVE  /\ ~ At(r, "none")
           /\ \/ UNCHANGED offer
              \/ offer'.status = "INVALIDATED_OWNER_CHANGED"
              \/ request'[r].pc = "none"
<1>0. /\ offer \in Offer /\ request \in [Requests -> RequestType]
  BY DEF IInv, TypeOK, RequestType
<1>1. CASE Write(r)
  BY <1>0, <1>1 DEF Write, At, End, NoRequest
<1>2. CASE Invalidate(r)
  BY <1>0, <1>2 DEF Invalidate, At, Offer
<1>3. CASE \/ AcceptCounter(r) \/ (\E amount \in Amounts : OwnerChecked(r, amount))
           \/ Refresh(r) \/ Tell(r) \/ Transition(r) \/ Fail(r)
  BY <1>3 DEF AcceptCounter, OwnerChecked, Refresh, Tell, Transition, Fail, At
<1>4. QED
  BY <1>1, <1>2, <1>3 DEF Serve

LEMMA AgreedStep ==
    ASSUME OneRequest, IInv, AgreedIsSettled, [Next]_vars
    PROVE  AgreedIsSettled'
<1>0. /\ offer \in Offer /\ reconciler \in ReconcilerType /\ ReconcilerHasRead
  BY DEF IInv, TypeOK, ReconcilerType
<1>1. CASE UNCHANGED vars \/ Overdue \/ Trade
  BY <1>1, WorldStep DEF AgreedIsSettled, Quiet, At, vars
<1>2. ASSUME NEW r \in Requests, BuyerAsks(r) \/ SellerAsks(r)
      PROVE  AgreedIsSettled'
  <2>1. offer.status \in Negotiable /\ UNCHANGED <<offer, reconciler>>
    BY <1>2 DEF BuyerAsks, SellerAsks, Begin, Others
  <2>2. QED
    BY <2>1 DEF AgreedIsSettled, Negotiable
<1>3. ASSUME NEW r \in Requests, Serve(r)
      PROVE  AgreedIsSettled'
  <2>1. ~ Quiet /\ UNCHANGED reconciler
    BY <1>3, RequestStep, ServeEnds DEF Quiet
  <2>2. offer'.status \in {"AGREED_WAITING_RELIST", "RELIST_DETECTED"} => Quiet'
    <3>1. UNCHANGED offer => offer'.status \notin {"AGREED_WAITING_RELIST", "RELIST_DETECTED"}
      BY <2>1 DEF AgreedIsSettled
    <3>2. request'[r].pc = "none" => Quiet'
      BY OneRequest DEF OneRequest, Quiet, At
    <3>3. QED
      BY <1>3, <3>1, <3>2, ServeEnds
  <2>3. QED
    BY <2>1, <2>2 DEF AgreedIsSettled
<1>4. CASE Candidate
  <2>1. /\ reconciler'.pc = "compare" /\ reconciler'.read = offer
        /\ UNCHANGED <<offer, request>>
    BY <1>0, <1>4 DEF Candidate, ReconcilerType
  <2>2. QED
    BY <2>1 DEF AgreedIsSettled, Quiet, At, Negotiable
<1>5. CASE Compare
  <2>1. /\ reconciler.pc = "compare" /\ reconciler'.read = reconciler.read
        /\ UNCHANGED <<offer, request>>
        /\ \/ reconciler'.pc = "changed"
           \/ /\ reconciler.read.status = "AGREED_WAITING_RELIST"
              /\ reconciler'.price = reconciler.read.amount
    BY <1>0, <1>5 DEF Compare, ReconcilerType
  <2>2. QED
    BY <2>1 DEF AgreedIsSettled, Quiet, At
<1>6. CASE OwnerChanged \/ Relist \/ ReconcilerFails
  <2>1. /\ reconciler'.pc = "rest" /\ UNCHANGED request
        /\ \/ UNCHANGED offer
           \/ offer'.status = "INVALIDATED_OWNER_CHANGED"
           \/ offer.status = "AGREED_WAITING_RELIST"
    <3>1. CASE OwnerChanged
      BY <1>0, <3>1 DEF OwnerChanged, Resting, Offer
    <3>2. CASE Relist
      BY <3>2 DEF Relist, Resting
    <3>3. CASE ReconcilerFails
      BY <3>3 DEF ReconcilerFails, Resting
    <3>4. QED
      BY <1>6, <3>1, <3>2, <3>3
  <2>2. QED
    BY <2>1 DEF AgreedIsSettled, Quiet, At
<1>7. CASE Working
  <2>1. /\ UNCHANGED <<request, reconciler>>
        /\ UNCHANGED offer \/ offer'.status = "EXPIRED"
    BY <1>7, WorkerStep
  <2>2. QED
    BY <2>1 DEF AgreedIsSettled, Quiet, At, Negotiable
<1>8. QED
  BY <1>1, <1>2, <1>3, <1>4, <1>5, <1>6, <1>7 DEF Next, Reconciling

\* nexus-server.ts:87 "NFT relisted at your agreed price": with requests that are
\* served one at a time an offer is marked as relisted (:84) only when it is agreed
\* at the price that was compared (:82), several awaits before, with the seller it
\* was compared for, whatever the worker, the reconciliation and the owners do between.
THEOREM RelistingsAreAsAgreed ==
    ASSUME OneRequest
    PROVE  Spec => RelistedAsAgreed
<1>1. Init => AgreedIsSettled
  BY DEF Init, AgreedIsSettled, Quiet, At, NoRequest, Resting
<1>2. ASSUME IInv, AgreedIsSettled, [Next]_vars,
             offer'.status = "RELIST_DETECTED", offer.status # "RELIST_DETECTED"
      PROVE  offer.amount = reconciler.price /\ offer.seller = reconciler.read.seller
  <2>1. ~ UNCHANGED offer
    BY <1>2
  <2>2. ASSUME NEW r \in Requests, BuyerAsks(r) \/ SellerAsks(r) \/ Serve(r)
        PROVE  FALSE
    BY <1>2, <2>1, <2>2, RequestStep DEF Requested
  <2>3. Reconciling
    BY <1>2, <2>1, <2>2, WorkerStep, WorldStep DEF Next, vars
  <2>4. reconciler.pc = "listed" /\ offer.status = "AGREED_WAITING_RELIST"
    <3>1. offer \in Offer
      BY <1>2 DEF IInv, TypeOK
    <3>2. ~ OwnerChanged
      BY <1>2, <3>1 DEF OwnerChanged, Offer
    <3>3. Relist
      BY <2>1, <2>3, <3>2 DEF Reconciling, Candidate, Compare, ReconcilerFails
    <3>4. QED
      BY <2>1, <3>3 DEF Relist
  <2>5. QED
    BY <1>2, <2>4 DEF AgreedIsSettled
<1>3. IInv /\ AgreedIsSettled /\ [Next]_vars
        => [offer'.status = "RELIST_DETECTED" /\ offer.status # "RELIST_DETECTED"
              => offer.amount = reconciler.price /\ offer.seller = reconciler.read.seller]_vars
  BY <1>2
<1>4. AgreedIsSettled /\ IInv /\ [Next]_vars => AgreedIsSettled'
  BY AgreedStep, OneRequest
<1>5. QED
  BY <1>1, <1>3, <1>4, Invariance, PTL DEF Spec, RelistedAsAgreed

=============================================================================
