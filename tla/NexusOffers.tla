---------------------------- MODULE NexusOffers ----------------------------
(***************************************************************************)
(* A private NFT offer of the Nexus service: offer-service.ts and           *)
(* expiry-worker.ts of services/nft-nexus, and the routes and the           *)
(* reconciliation of scripts/nexus-server.ts that drive them.               *)
(*                                                                          *)
(* One row of the database is negotiated by its buyer and by whoever owns   *)
(* the NFT, expired by a worker and reconciled with the marketplace.  Each  *)
(* of them reads the row, decides, and writes it in a later statement; the  *)
(* database runs their transactions at its default isolation, where a read  *)
(* sees what is committed and keeps nobody from changing it.                *)
(***************************************************************************)
EXTENDS Naturals

CONSTANTS
    Requests,   \* requests being served; their number is a bound
    Buyer,      \* the wallet that made the offer
    Owners,     \* wallets that may own the NFT
    Amounts,    \* offered, countered and listed amounts
    None        \* not listed

ASSUME BuyerIsNoOwner == Buyer \notin Owners
ASSUME NoneIsNoAmount == None \notin Amounts

Negotiable == {"OPEN", "COUNTERED"}
Active == Negotiable \cup {"AGREED_WAITING_RELIST", "RELIST_DETECTED"}
TERMINAL_STATUSES == {"DECLINED", "CANCELLED_BY_BUYER", "EXPIRED", "INVALIDATED_OWNER_CHANGED"}
Statuses == Active \cup TERMINAL_STATUSES

allowedTransitions ==
    [s \in Statuses |->
        CASE s = "OPEN" -> {"COUNTERED", "DECLINED", "CANCELLED_BY_BUYER", "EXPIRED",
                            "AGREED_WAITING_RELIST"}
          [] s = "COUNTERED" -> {"CANCELLED_BY_BUYER", "EXPIRED", "AGREED_WAITING_RELIST"}
          [] s = "AGREED_WAITING_RELIST" -> {"RELIST_DETECTED", "EXPIRED",
                                             "INVALIDATED_OWNER_CHANGED"}
          [] s = "RELIST_DETECTED" -> {"INVALIDATED_OWNER_CHANGED"}
          [] OTHER -> {}]

VARIABLES
    offer,      \* the row: status, currentAmountSompi, currentSellerWallet
    overdue,    \* expiresAt has passed
    owner,      \* who owns the NFT
    listing,    \* the price at which the owner lists it, or None
    request,    \* per request: what it wants and what it has read
    worker,     \* the expiry worker: at rest, or with the offer in its list
    reconciler, \* a reconciliation: the row, the owner and the price it has read
    told        \* the outcomes of which the buyer has been notified

world == <<overdue, owner, listing>>
vars == <<offer, world, request, worker, reconciler, told>>

Offer == [status : Statuses, amount : Amounts, seller : Owners]
Resting == [pc |-> "rest", read |-> None, owner |-> None, price |-> None]
NoRequest == [pc |-> "none", next |-> None, actor |-> None, amount |-> None, seller |-> None]

\* createOffer: the wallet that owns the NFT is the seller.
Init ==
    /\ owner \in Owners
    /\ offer \in [status : {"OPEN"}, amount : Amounts, seller : {owner}]
    /\ overdue = FALSE /\ listing = None
    /\ request = [r \in Requests |-> NoRequest]
    /\ worker = "rest" /\ reconciler = Resting
    /\ told = {}

(***************************************************************************)
(* Requests                                                                *)
(***************************************************************************)

At(r, pc) == request[r].pc = pc
End(r) == request' = [request EXCEPT ![r] = NoRequest]
Others(r) == UNCHANGED <<world, worker, reconciler>>

\* The route reads the row first and refuses what is no longer negotiable.
Begin(r, actor, next) ==
    /\ At(r, "none")
    /\ offer.status \in Negotiable /\ ~overdue
    /\ request' = [request EXCEPT ![r] =
         [NoRequest EXCEPT !.actor = actor, !.next = next,
            !.pc = IF next = "CANCELLED_BY_BUYER" THEN "read"
                   ELSE IF actor = Buyer THEN "accepting" ELSE "owning"]]
    /\ UNCHANGED <<offer, told>> /\ Others(r)

BuyerAsks(r) == \E next \in {"CANCELLED_BY_BUYER", "AGREED_WAITING_RELIST"} :
                    Begin(r, Buyer, next)
SellerAsks(r) == \E actor \in Owners, next \in {"COUNTERED", "DECLINED", "AGREED_WAITING_RELIST"} :
                    Begin(r, actor, next)

\* acceptCounterOffer: a counter must be there.
AcceptCounter(r) ==
    /\ At(r, "accepting") /\ offer.status = "COUNTERED"
    /\ request' = [request EXCEPT ![r].pc = "refresh"]
    /\ UNCHANGED <<offer, told>> /\ Others(r)

\* The route checks who owns the NFT; the amount of a counter is the seller's.
OwnerChecked(r, amount) ==
    /\ At(r, "owning") /\ owner = request[r].actor
    /\ request' = [request EXCEPT ![r].pc = "refresh",
                     ![r].amount = IF request[r].next = "COUNTERED" THEN amount ELSE None]
    /\ UNCHANGED <<offer, told>> /\ Others(r)

\* The owner is looked up again; a seller must still be the one.
Refresh(r) ==
    /\ At(r, "refresh")
    /\ request' = [request EXCEPT ![r].seller = owner,
         ![r].pc = IF request[r].actor \in {Buyer, owner} THEN "read" ELSE "invalidate"]
    /\ UNCHANGED <<offer, told>> /\ Others(r)

\* sellerTransition gives the offer up, whatever has become of it ...
Invalidate(r) ==
    /\ At(r, "invalidate")
    /\ offer' = [offer EXCEPT !.status = "INVALIDATED_OWNER_CHANGED", !.seller = request[r].seller]
    /\ request' = [request EXCEPT ![r].pc = "tell"]
    /\ UNCHANGED told /\ Others(r)

\* ... and notifies the buyer in a call of its own.
Tell(r) ==
    /\ At(r, "tell")
    /\ told' = told \cup {"INVALIDATED_OWNER_CHANGED"}
    /\ End(r)
    /\ UNCHANGED offer /\ Others(r)

\* Mutant: without a new amount the old one is lost.
TransitionUnpriced(r) ==
    /\ At(r, "read")
    /\ request[r].next \in allowedTransitions[offer.status]
    /\ request' = [request EXCEPT ![r].pc = "write"]
    /\ UNCHANGED <<offer, told>> /\ Others(r)

\* transitionOffer reads the row and checks the transition ...
Transition(r) ==
    /\ At(r, "read")
    /\ request[r].next \in allowedTransitions[offer.status]
    /\ request' = [request EXCEPT ![r].pc = "write",
                     ![r].amount = IF @ = None THEN offer.amount ELSE @]
    /\ UNCHANGED <<offer, told>> /\ Others(r)

\* ... and updates it; the buyer is told what a seller did.  The transaction
\* commits.  Only an accepted counter makes the owner the seller.
Write(r) ==
    LET q == request[r] IN
    /\ At(r, "write")
    /\ offer' = [status |-> q.next, amount |-> q.amount,
                 seller |-> IF q.actor = Buyer /\ q.seller # None THEN q.seller ELSE offer.seller]
    /\ told' = IF q.actor = Buyer THEN told ELSE told \cup {q.next}
    /\ End(r)
    /\ Others(r)

\* A check refuses, a call fails, the transaction is rolled back.
Fail(r) ==
    /\ ~At(r, "none")
    /\ End(r)
    /\ UNCHANGED <<offer, told>> /\ Others(r)

Serve(r) ==
    \/ AcceptCounter(r) \/ (\E amount \in Amounts : OwnerChecked(r, amount))
    \/ Refresh(r) \/ Invalidate(r) \/ Tell(r)
    \/ Transition(r) \/ Write(r) \/ Fail(r)

(***************************************************************************)
(* The expiry worker                                                       *)
(***************************************************************************)

\* Mutant: only offers nobody has answered are looked for.
FindOpen ==
    /\ worker = "rest" /\ overdue /\ offer.status = "OPEN"
    /\ worker' = "found"
    /\ UNCHANGED <<offer, world, request, reconciler, told>>

\* Every minute, unless it is running: the overdue offers are listed.
Find ==
    /\ worker = "rest" /\ overdue /\ offer.status \in Negotiable
    /\ worker' = "found"
    /\ UNCHANGED <<offer, world, request, reconciler, told>>

\* The transaction reads the row again; nothing is done if it moved on.
Look ==
    /\ worker = "found"
    /\ worker' = IF offer.status \in Negotiable THEN "expire" ELSE "rest"
    /\ UNCHANGED <<offer, world, request, reconciler, told>>

\* Mutant: the notification is left to somebody else.
ExpireSilently ==
    /\ worker = "expire"
    /\ offer' = [offer EXCEPT !.status = "EXPIRED"]
    /\ worker' = "rest"
    /\ UNCHANGED <<world, request, reconciler, told>>

Expire ==
    /\ worker = "expire"
    /\ offer' = [offer EXCEPT !.status = "EXPIRED"]
    /\ told' = told \cup {"EXPIRED"}
    /\ worker' = "rest"
    /\ UNCHANGED <<world, request, reconciler>>

\* A query fails: the finally block lets the next tick try again.
WorkerFails ==
    /\ worker # "rest"
    /\ worker' = "rest"
    /\ UNCHANGED <<offer, world, request, reconciler, told>>

(***************************************************************************)
(* Reconciliation with the marketplace                                     *)
(***************************************************************************)

\* The active offers of a wallet are read.
Candidate ==
    /\ reconciler.pc = "rest" /\ offer.status \in Active
    /\ reconciler' = [reconciler EXCEPT !.pc = "compare", !.read = offer]
    /\ UNCHANGED <<offer, world, request, worker, told>>

\* Mutant: the status is left to the update.
CompareAny ==
    /\ reconciler.pc = "compare"
    /\ \/ /\ owner # reconciler.read.seller
          /\ reconciler' = [reconciler EXCEPT !.pc = "changed", !.owner = owner]
       \/ /\ owner = reconciler.read.seller /\ listing = reconciler.read.amount
          /\ reconciler' = [reconciler EXCEPT !.pc = "listed", !.price = listing]
    /\ UNCHANGED <<offer, world, request, worker, told>>

\* The owner is looked up, then the listing of an offer that waits for one.
Compare ==
    /\ reconciler.pc = "compare"
    /\ \/ /\ owner # reconciler.read.seller
          /\ reconciler' = [reconciler EXCEPT !.pc = "changed", !.owner = owner]
       \/ /\ owner = reconciler.read.seller /\ listing = reconciler.read.amount
          /\ reconciler.read.status = "AGREED_WAITING_RELIST"
          /\ reconciler' = [reconciler EXCEPT !.pc = "listed", !.price = listing]
    /\ UNCHANGED <<offer, world, request, worker, told>>

\* Both updates name the status they expect to find.
OwnerChanged ==
    /\ reconciler.pc = "changed"
    /\ IF offer.status = reconciler.read.status /\ offer.seller = reconciler.read.seller
         THEN /\ offer' = [offer EXCEPT !.status = "INVALIDATED_OWNER_CHANGED",
                                        !.seller = reconciler.owner]
              /\ told' = told \cup {"INVALIDATED_OWNER_CHANGED"}
         ELSE UNCHANGED <<offer, told>>
    /\ reconciler' = Resting
    /\ UNCHANGED <<world, request, worker>>

Relist ==
    /\ reconciler.pc = "listed"
    /\ IF offer.status = "AGREED_WAITING_RELIST"
         THEN /\ offer' = [offer EXCEPT !.status = "RELIST_DETECTED"]
              /\ told' = told \cup {"RELIST_DETECTED"}
         ELSE UNCHANGED <<offer, told>>
    /\ reconciler' = Resting
    /\ UNCHANGED <<world, request, worker>>

ReconcilerFails ==
    /\ reconciler.pc # "rest"
    /\ reconciler' = Resting
    /\ UNCHANGED <<offer, world, request, worker, told>>

(***************************************************************************)
(* The world                                                               *)
(***************************************************************************)

Overdue ==
    /\ ~overdue /\ overdue' = TRUE
    /\ UNCHANGED <<offer, owner, listing, request, worker, reconciler, told>>

\* The NFT is sold or given away, or listed at another price.
Trade ==
    /\ \/ owner' \in Owners \ {owner} /\ listing' = None
       \/ listing' \in (Amounts \cup {None}) \ {listing} /\ UNCHANGED owner
    /\ UNCHANGED <<offer, overdue, request, worker, reconciler, told>>

(***************************************************************************)
(* Specification                                                           *)
(***************************************************************************)

Working == Find \/ Look \/ Expire \/ WorkerFails
Reconciling == Candidate \/ Compare \/ OwnerChanged \/ Relist \/ ReconcilerFails

Next ==
    \/ \E r \in Requests : BuyerAsks(r) \/ SellerAsks(r) \/ Serve(r)
    \/ Working \/ Reconciling \/ Overdue \/ Trade

\* Requests end; the worker ticks, and the database does not fail it forever.
Fairness ==
    /\ \A r \in Requests : WF_vars(Serve(r))
    /\ WF_vars(Find) /\ SF_vars(Look) /\ SF_vars(Expire)

Spec == Init /\ [][Next]_vars /\ Fairness

(***************************************************************************)
(* Properties                                                              *)
(***************************************************************************)

\* The variables have their types.
TypeOK ==
    /\ offer \in Offer
    /\ overdue \in BOOLEAN /\ owner \in Owners /\ listing \in Amounts \cup {None}
    /\ request \in [Requests ->
         [pc : {"none", "accepting", "owning", "refresh", "invalidate", "tell", "read", "write"},
          next : Statuses \cup {None}, actor : Owners \cup {Buyer, None},
          amount : Amounts \cup {None}, seller : Owners \cup {None}]]
    /\ worker \in {"rest", "found", "expire"}
    /\ reconciler \in [pc : {"rest", "compare", "changed", "listed"},
                       read : Offer \cup {None}, owner : Owners \cup {None},
                       price : Amounts \cup {None}]
    /\ told \subseteq Statuses

\* An overdue offer stops being negotiable for good: a request that was already
\* being served may bring it back (to COUNTERED), but the worker comes again
\* (expiry-worker.ts:11).
ExpiresForGood == overdue ~> [](offer.status \notin Negotiable)

\* Whatever happens to an offer without its buyer has been told to the buyer,
\* however the transactions interleave and wherever they fail: the notification
\* commits with the update (offer-service.ts:322, expiry-worker.ts:35).
OutcomeIsTold ==
    offer.status \in {"COUNTERED", "DECLINED", "EXPIRED", "RELIST_DETECTED"}
        => offer.status \in told

\* nexus-server.ts:87 "NFT relisted at your agreed price": the price was compared
\* with an amount read before several network calls (:82), and the update asks for
\* the status only (:84).  What is reported as relisted is nevertheless agreed, at
\* the price that was seen and with the seller who listed it, as long as requests
\* are served one at a time; the race of TerminalStaysTerminal would break it.
RelistedAsAgreed ==
    [][offer'.status = "RELIST_DETECTED" /\ offer.status # "RELIST_DETECTED"
         => offer.amount = reconciler.price /\ offer.seller = reconciler.read.seller]_vars

\* status-machine.ts:21 "Terminal offers cannot be changed."
TerminalStaysTerminal ==
    [][offer.status \in TERMINAL_STATUSES => offer'.status = offer.status]_vars

=============================================================================
