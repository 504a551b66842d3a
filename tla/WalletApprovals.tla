-------------------------- MODULE WalletApprovals --------------------------
(***************************************************************************)
(* The approvals of the browser extension: approve, resolveApproval and     *)
(* rejectApprovals of apps/browser_extension/src/background/index.ts, and   *)
(* the side panels of sidePanelApprovals.ts in which they are shown.        *)
(*                                                                          *)
(* A site's request opens approvals, one at a time for each origin.  If all *)
(* requests of the origin come from one browser window and a side panel is  *)
(* connected there, the approval is queued in that panel; otherwise a popup *)
(* opens.  Decisions are processed after a storage call; meanwhile the      *)
(* wallet is locked or unlocked, its session expires, an approval times     *)
(* out, and panels are closed and connected again.                          *)
(***************************************************************************)
EXTENDS Naturals, Sequences, FiniteSets, Functions

CONSTANTS
    Origins,        \* sites
    Requests,       \* slots for running requests; their number is a bound
    Windows,        \* browser windows
    Panels,         \* side panel documents
    Ids,            \* approval ids, each used once; their number is a bound
    MaxApprovals,   \* approvals pending at a time (4 in the code)
    MaxGeneration,  \* bound on sessions and locks
    None            \* no window, no approval

ASSUME LimitsAreNatural == MaxApprovals \in Nat \ {0} /\ MaxGeneration \in Nat \ {0}
ASSUME NoneIsNoName == None \notin Windows \cup Ids \cup Origins \cup Panels \cup Requests

VARIABLES
    request,     \* per slot: the running request's origin and window, or None
    approval,    \* per id: what was asked and how it was answered
    panel,       \* per document: its window, what it shows and what waits
    decisions,   \* decisions that are being processed
    generation,  \* sessionGeneration
    unlocked,    \* sessionVault is not null
    expired      \* the auto-lock time has passed since the last activity

session == <<generation, unlocked, expired>>
vars == <<request, approval, panel, decisions, session>>

\* generation 0: the approval was opened without a session.
Unused == [state |-> "unused", request |-> None, generation |-> 0, inPanel |-> FALSE]
\* alive: the document still holds its port; the worker learns later.
Off == [on |-> FALSE, alive |-> FALSE, window |-> None, queue |-> <<>>, active |-> None]

Init ==
    /\ request = [r \in Requests |-> None]
    /\ approval = [id \in Ids |-> Unused]
    /\ panel = [p \in Panels |-> Off]
    /\ decisions = {}
    /\ generation = 0 /\ unlocked = FALSE /\ expired = FALSE

Running == {r \in Requests : request[r] # None}
Pending == {id \in Ids : approval[id].state = "pending"}
Bound == {id \in Pending : approval[id].generation # 0}
OriginOf(id) == request[approval[id].request].origin

(***************************************************************************)
(* One panel: what becomes of it, and the requests it denies on the way     *)
(***************************************************************************)

Shown(rec) == Range(rec.queue) \cup ({rec.active} \ {None})
Kept(rec) == [panel |-> rec, denied |-> {}]

\* The queue in its order, without those reviews.
Without(queue, gone) ==
    LET kept == {i \in DOMAIN queue : queue[i] \notin gone}
        place(i) == Cardinality({j \in kept : j <= i})
    IN [k \in 1 .. Cardinality(kept) |-> queue[CHOOSE i \in kept : place(i) = k]]

\* Mutant: the reviews that wait behind the visible one are dropped.
DetachedVisible(rec) == [panel |-> Off, denied |-> {rec.active} \ {None}]

\* detach: the visible review and the waiting ones are refused.
Detached(rec) == [panel |-> Off, denied |-> Shown(rec)]

\* The next request is shown; a port that is gone detaches the panel.
Advanced(rec) ==
    IF ~rec.on \/ rec.active # None \/ rec.queue = <<>> THEN Kept(rec)
    ELSE IF rec.alive THEN Kept([rec EXCEPT !.active = Head(rec.queue), !.queue = Tail(@)])
    ELSE Detached(rec)

\* Mutant: a cancelled review makes no room for the next one.
CancelledOnly(rec, gone) ==
    LET left == [rec EXCEPT !.queue = Without(@, gone)]
    IN IF rec.active \notin gone THEN Kept(left) ELSE Kept([left EXCEPT !.active = None])

\* Mutant: only the visible review is cancelled.
CancelledVisible(rec, gone) ==
    IF rec.active \notin gone THEN Kept(rec)
    ELSE IF rec.alive THEN Advanced([rec EXCEPT !.active = None])
    ELSE Detached([rec EXCEPT !.active = None])

\* cancel, for every approval that has just been answered.
Cancelled(rec, gone) ==
    LET left == [rec EXCEPT !.queue = Without(@, gone)]
    IN IF rec.active \notin gone THEN Kept(left)
       ELSE IF rec.alive THEN Advanced([left EXCEPT !.active = None])
       ELSE Detached([left EXCEPT !.active = None])

\* All panels move to their outcome.  What they deny is decided like a refusal;
\* the decision of a panel that is gone does not come back to it.
Panelwise(outcome, deciding) ==
    /\ panel' = [p \in Panels |-> outcome[p].panel]
    /\ decisions' =
         {IF d.from # None /\ ~outcome[d.from].panel.on
            THEN [d EXCEPT !.from = None] ELSE d : d \in deciding}
         \cup {[id |-> id, approved |-> FALSE, from |-> None] :
                 id \in UNION {outcome[p].denied : p \in Panels}}

\* Approvals leave the map with an answer, and every panel drops them.
Answered(ids, state) ==
    [id \in Ids |-> IF id \in ids THEN [Unused EXCEPT !.state = state,
                                                     !.inPanel = approval[id].inPanel]
                    ELSE approval[id]]

Close(ids, state, deciding) ==
    /\ approval' = Answered(ids, state)
    /\ Panelwise([p \in Panels |-> Cancelled(panel[p], ids)], deciding)

(***************************************************************************)
(* Requests and approvals                                                  *)
(***************************************************************************)

\* inRequestWindow: the request is registered with its window for its duration.
Begin(r, origin, window) ==
    /\ request[r] = None
    /\ request' = [request EXCEPT ![r] = [origin |-> origin, window |-> window]]
    /\ UNCHANGED <<approval, panel, decisions, session>>

End(r) ==
    /\ request[r] # None
    /\ \A id \in Pending : approval[id].request # r
    /\ request' = [request EXCEPT ![r] = None]
    /\ UNCHANGED <<approval, panel, decisions, session>>

WindowsOf(origin) == {request[q].window : q \in {q \in Running : request[q].origin = origin}}

\* Mutant: any window of the origin will do.
PresentersAnywhere(origin) ==
    {p \in Panels : panel[p].on /\ panel[p].window \in WindowsOf(origin) \ {None}}

\* "Never send a request to another browser window or guess between callers."
Presenters(origin) ==
    {p \in Panels : panel[p].on /\ WindowsOf(origin) = {panel[p].window}}

\* Mutant: a site may have several approvals pending.
MayAskTwice(origin) == Cardinality(Pending) < MaxApprovals

\* approve refuses when the map is full or the site has an approval pending.
MayAsk(origin) ==
    /\ Cardinality(Pending) < MaxApprovals
    /\ \A other \in Pending : OriginOf(other) # origin

\* The approval is entered and presented in the same step.
Ask(r, id) ==
    LET origin == request[r].origin
        new(inPanel) == [state |-> "pending", request |-> r, inPanel |-> inPanel,
                         generation |-> IF unlocked THEN generation ELSE 0]
        shownBy(p) == [panel[p] EXCEPT !.queue = Append(@, id)]
    IN /\ request[r] # None /\ approval[id].state = "unused"
       /\ MayAsk(origin)
       /\ \/ /\ Presenters(origin) = {}
             /\ approval' = [approval EXCEPT ![id] = new(FALSE)]
             /\ UNCHANGED <<panel, decisions>>
          \/ \E p \in Presenters(origin) :
               /\ approval' = [approval EXCEPT ![id] = new(TRUE)]
               /\ Panelwise([q \in Panels |-> IF q = p THEN Advanced(shownBy(q)) ELSE Kept(panel[q])],
                            decisions)
       /\ UNCHANGED <<request, session>>

\* finish(false): ten minutes have passed, the operation was aborted, or the
\* popup could not be opened.
Finish(id) ==
    /\ id \in Pending
    /\ Close({id}, "denied", decisions)
    /\ UNCHANGED <<request, session>>

\* A popup or the wallet view sends its decision; it cannot answer for a panel.
DecideInPopup(id, approved) ==
    /\ id \in Pending /\ ~approval[id].inPanel
    /\ \A d \in decisions : d.id # id
    /\ decisions' = decisions \cup {[id |-> id, approved |-> approved, from |-> None]}
    /\ UNCHANGED <<request, approval, panel, session>>

\* A panel sends its decision on the review it shows, and shows none for now.
DecideInPanel(p, approved) ==
    /\ panel[p].on /\ panel[p].alive /\ panel[p].active # None
    /\ panel' = [panel EXCEPT ![p].active = None]
    /\ decisions' = decisions \cup
         {[id |-> panel[p].active, approved |-> approved, from |-> p]}
    /\ UNCHANGED <<request, approval, session>>

\* After a decision the panel it came from goes on to its next review.
Onward(p, d, ids) ==
    IF p # d.from THEN Cancelled(panel[p], ids)
    ELSE LET cancelled == Cancelled(panel[p], ids)
         IN [panel  |-> Advanced(cancelled.panel).panel,
             denied |-> cancelled.denied \cup Advanced(cancelled.panel).denied]

ExpiresFirst(d) == approval[d.id].inPanel /\ unlocked /\ expired

\* Mutant: a panel's decision is taken without looking at the clock.
ResolveUnchecked(d) ==
    LET open == {d.id} \cap Pending
        valid == approval[d.id].generation = 0
                   \/ (unlocked /\ approval[d.id].generation = generation)
    IN /\ approval' = Answered(open, IF d.approved /\ valid THEN "approved" ELSE "denied")
       /\ Panelwise([p \in Panels |-> Onward(p, d, open)], decisions \ {d})
       /\ UNCHANGED <<request, session>>

\* resolveApproval: an approval that is still pending gets its answer, which is
\* yes only in the session it was opened in, or if it was opened in none.
Resolve(d) ==
    LET open == {d.id} \cap Pending
        valid == approval[d.id].generation = 0
                   \/ (unlocked /\ approval[d.id].generation = generation)
    IN /\ ~ExpiresFirst(d)
       /\ approval' = Answered(open, IF d.approved /\ valid THEN "approved" ELSE "denied")
       /\ Panelwise([p \in Panels |-> Onward(p, d, open)], decisions \ {d})
       /\ UNCHANGED <<request, session>>

(***************************************************************************)
(* The session                                                             *)
(***************************************************************************)

EndSession ==
    /\ generation' = generation + 1
    /\ unlocked' = FALSE /\ expired' = FALSE

\* Mutant: locking forgets the open approvals.
LockQuietly ==
    /\ unlocked /\ generation < MaxGeneration
    /\ EndSession
    /\ UNCHANGED <<request, approval, panel, decisions>>

\* lockSession, by the user or by the alarm: every approval is rejected.
Lock ==
    /\ unlocked /\ generation < MaxGeneration
    /\ EndSession
    /\ Close(Pending, "denied", decisions)
    /\ UNCHANGED request

\* The decision of a panel finds the session expired and locks it.
LockOnDecision(d) ==
    /\ ExpiresFirst(d) /\ generation < MaxGeneration
    /\ EndSession
    /\ approval' = Answered(Pending, "denied")
    /\ Panelwise([p \in Panels |-> Onward(p, d, Pending)], decisions \ {d})
    /\ UNCHANGED request

\* unlock starts a session; approvals of an earlier one are rejected.
Unlock ==
    /\ generation < MaxGeneration
    /\ generation' = generation + 1
    /\ unlocked' = TRUE /\ expired' = FALSE
    /\ Close(Bound, "denied", decisions)
    /\ UNCHANGED request

\* Time passes, and commands of the wallet view count as activity.
Expire ==
    /\ unlocked /\ ~expired
    /\ expired' = TRUE
    /\ UNCHANGED <<request, approval, panel, decisions, generation, unlocked>>

Touch ==
    /\ unlocked /\ expired
    /\ expired' = FALSE
    /\ UNCHANGED <<request, approval, panel, decisions, generation, unlocked>>

(***************************************************************************)
(* Side panels                                                             *)
(***************************************************************************)

Fresh(window) == [Off EXCEPT !.on = TRUE, !.alive = TRUE, !.window = window]

\* connect: the document's former registration is detached first.
Connect(p, window) ==
    /\ Panelwise([q \in Panels |-> IF q = p THEN [Detached(panel[q]) EXCEPT !.panel = Fresh(window)]
                                          ELSE Kept(panel[q])],
                 {IF d.from = p THEN [d EXCEPT !.from = None] ELSE d : d \in decisions})
    /\ UNCHANGED <<request, approval, session>>

\* The document goes away; the worker has not been told yet.
Vanish(p) ==
    /\ panel[p].on /\ panel[p].alive
    /\ panel' = [panel EXCEPT ![p].alive = FALSE]
    /\ UNCHANGED <<request, approval, decisions, session>>

Disconnect(p) ==
    /\ panel[p].on /\ ~panel[p].alive
    /\ Panelwise([q \in Panels |-> IF q = p THEN Detached(panel[q]) ELSE Kept(panel[q])], decisions)
    /\ UNCHANGED <<request, approval, session>>

(***************************************************************************)
(* Specification                                                           *)
(***************************************************************************)

Serving ==
    \E r \in Requests :
        \/ \E origin \in Origins, window \in Windows \cup {None} : Begin(r, origin, window)
        \/ End(r)
        \/ \E id \in Ids : Ask(r, id)

Deciding ==
    \/ \E id \in Ids, approved \in BOOLEAN : DecideInPopup(id, approved)
    \/ \E p \in Panels, approved \in BOOLEAN : DecideInPanel(p, approved)

Answering ==
    \/ \E id \in Ids : Finish(id)
    \/ \E d \in decisions : Resolve(d) \/ LockOnDecision(d)

Presenting ==
    \E p \in Panels :
        \/ \E window \in Windows : Connect(p, window)
        \/ Vanish(p) \/ Disconnect(p)

Next == Serving \/ Deciding \/ Answering \/ Presenting \/ Lock \/ Unlock \/ Expire \/ Touch

Spec == Init /\ [][Next]_vars

(***************************************************************************)
(* Properties                                                              *)
(***************************************************************************)

\* The variables have their types; at most one approval of a site is pending.
TypeOK ==
    /\ request \in [Requests -> [origin : Origins, window : Windows \cup {None}] \cup {None}]
    /\ approval \in [Ids -> [state : {"unused", "pending", "approved", "denied"},
                             request : Requests \cup {None},
                             generation : 0 .. MaxGeneration, inPanel : BOOLEAN]]
    /\ panel \in [Panels -> [on : BOOLEAN, alive : BOOLEAN, window : Windows \cup {None},
                            queue : Seq(Ids), active : Ids \cup {None}]]
    /\ \A p \in Panels : IsInjective(panel[p].queue)
    /\ decisions \subseteq [id : Ids, approved : BOOLEAN, from : Panels \cup {None}]
    /\ generation \in 0 .. MaxGeneration /\ unlocked \in BOOLEAN /\ expired \in BOOLEAN
    /\ \A a, b \in Pending : OriginOf(a) = OriginOf(b) => a = b

\* README.md:231 of the extension, "Lock ... changes invalidate prepared signing
\* approvals": no approval outlives the session it was opened in.
ApprovalsEndWithSession ==
    \A id \in Bound : unlocked /\ approval[id].generation = generation

\* A panel shows or queues pending approvals only, each in one place: nobody is
\* asked about a request that was cancelled, or asked twice.
PanelsShowPending ==
    \A p, q \in Panels :
        /\ Shown(panel[p]) \subseteq {id \in Pending : approval[id].inPanel}
        /\ p # q => Shown(panel[p]) \cap Shown(panel[q]) = {}

\* An approval that was given to a panel, which no popup may answer, is in a
\* panel or its decision is being processed: it never hangs unseen while the
\* site is refused further approvals.
NoApprovalIsLost ==
    \A id \in Pending : approval[id].inPanel =>
        \/ \E p \in Panels : panel[p].on /\ id \in Shown(panel[p])
        \/ \E d \in decisions : d.id = id

\* A panel whose queue is not empty shows a review or is about to.
QueuesAdvance ==
    \A p \in Panels : panel[p].queue # <<>> /\ panel[p].active = None
                        => \E d \in decisions : d.from = p

\* "Never send a request to another browser window" (sidePanelApprovals.ts:55).
ShownInItsWindow ==
    \A p \in Panels : \A id \in Shown(panel[p]) :
        request[approval[id].request].window = panel[p].window

\* README.md:50 of the extension: "Expired sessions cannot authorize a request
\* through a delayed panel decision."
ExpiredNeverApproves ==
    [][\A id \in Bound :
          approval[id].inPanel /\ expired => approval'[id].state # "approved"]_vars

=============================================================================
