---------------------------- MODULE DesktopSession ----------------------------
(***************************************************************************)
(* The Windows shell of the core (desktop.rs): one session behind a mutex, *)
(* calls that wait for the user in native dialogs while they hold it, and  *)
(* lock and cancel, which must not wait and therefore work on two atomics  *)
(* beside the mutex.  Time is a minute clock.                              *)
(***************************************************************************)
EXTENDS CoreWallet
LOCAL INSTANCE Functions
LOCAL INSTANCE FiniteSets

CONSTANTS
  SecretOf,         \* the secret of every wallet id the store may come to hold
  Requests,         \* name -> [method, request, wallet]: what the app asks to prepare and sign
  Plays,            \* bounds: [methods, left] of an app: what it calls and how much happens to it
  FirstWallet,      \* the wallet of the store at the start
  MaxFailures,      \* wrong passwords before the store refuses to try (5)
  SessionLife,      \* minutes a password is remembered (5; 60 at most)
  ReviewLife,       \* minutes a review can be authorised (10)
  MaxReviews,       \* reviews kept (100)
  MaxQueued         \* bound: calls waiting for the mutex at once

\* The requests of CoreWallet the shell prepares.
ReviewedMethods ==
  {"prepareTransaction", "prepareKaspacomCommit", "prepareReveal", "prepareKaspacomReveal", "preparePskt",
   "prepareKaspacomPskt", "prepareKcc20Transfer", "prepareEvmTransaction", "preparePolicyTransaction",
   "prepareDotkMarket"}

ASSUME DesktopAssumption ==
  /\ FirstWallet \in DOMAIN SecretOf
  /\ {MaxFailures, SessionLife, ReviewLife, MaxReviews} \subseteq Nat \ {0}
  /\ \A k \in DOMAIN Requests : Requests[k].method \in ReviewedMethods
  /\ \A play \in Plays : play.left \in [{"calls", "cancels", "locks", "restarts", "minutes"} -> Nat]

VARIABLES
  app,              \* the methods this app calls
  store,            \* on disk: [wallets, active, failures, retryAfter]
  session,          \* in memory, under the mutex
  cancellation,     \* CANCELLATION
  forget,           \* FORGET_AUTH
  call,             \* <<>>, or the call that holds the mutex
  queued,           \* the calls that have read CANCELLATION and wait for the mutex
  locking,          \* how far kaspire_desktop_lock has come
  clock,
  approvals,        \* history: what the user agreed to and has not been used
  guesses,          \* history: wrong passwords since the last right one
  locks,            \* history: completed calls of kaspire_desktop_lock
  left              \* bound: [calls, cancels, locks, restarts, minutes] that may still happen

desktopVars == <<app, store, session, cancellation, forget, call, queued, locking, clock,
                 approvals, guesses, locks, left>>

Wallets == DOMAIN SecretOf

\* The approval an answer uses: the consent to a session of the offers market
\* covers every challenge of it, any other covers the one signature it is for.
Covers(a, out) ==
  IF a.standing THEN out # <<>> /\ out[1] = a.operation ELSE out = <<a.operation, a.binding, a.wallet, a.id>>

(* What the core makes of the requests.                                    *)
Reviewed == [k \in DOMAIN Requests |-> PrepareAs(SecretOf[Requests[k].wallet], Requests[k].method, Requests[k].request)]
\* A review hash is the name of the first request with that review.
Hash(table, k) == CHOOSE j \in DOMAIN table : table[j] = table[k]
Operation == [k \in DOMAIN Requests |-> OperationOf(Requests[k].method)]
SignedWith(k, built, approved) ==
  SignPrepared(SecretOf[Requests[k].wallet], Requests[k].method, Requests[k].request, built, approved)
Signatures(table) == [k \in DOMAIN table, h \in DOMAIN table |-> SignedWith(k, table[k], table[h].review)]
SignedFor == Signatures(Reviewed)
CoreSigns(k, h) == SignedFor[k, h].ok

\* The reviews the app may show itself: KaspaCom listings only.
InApp(asked, review) ==
  LET r == asked.request
  IN  CASE asked.method = "prepareKaspacomCommit" ->
             LET op == asked.operation
             IN  /\ op.kind \in ListKinds /\ op.sender = op.recipient /\ r.sender = op.sender
                 /\ r.recipient.script = CommitScript(op, "schnorr")
                 /\ r.amount = Committed(op) /\ ~r.sendAll
        [] asked.method = "prepareKaspacomReveal" ->
             r.operation.kind \in ListKinds /\ r.operation.sender = r.operation.recipient
        [] asked.method = "prepareKaspacomPskt" -> review.profile = "kaspacom"
        [] OTHER -> FALSE
KaspacomOnly == {"prepareKaspacomCommit", "prepareKaspacomReveal", "prepareKaspacomPskt"}

----------------------------------------------------------------------------
(* The session.  A key is <<l>>: the password was given when l locks had    *)
(* begun.  The generation is left out: whatever raises it clears the    *)
(* tokens and the reviews as well, so none of an older one is ever there.  *)
locksBegun == IF locking = "idle" THEN locks ELSE locks + 1
NewSession == [tokens |-> {}, reviews |-> {}, until |-> 0, nexus |-> FALSE, key |-> <<>>, seen |-> 0]

Invalidated(s) ==
  [s EXCEPT !.tokens = {}, !.reviews = {}, !.until = 0, !.nexus = FALSE, !.key = <<>>]
SwitchedKeepingTokens(s) ==
  IF s.until > clock THEN [s EXCEPT !.reviews = {}, !.nexus = FALSE] ELSE Invalidated(s)
Switched(s) ==
  IF s.until > clock THEN [Invalidated(s) EXCEPT !.until = s.until, !.key = s.key] ELSE Invalidated(s)
WithKey(s) == [Invalidated(s) EXCEPT !.key = <<locksBegun>>, !.until = clock + SessionLife]
Locked(s) == s.until <= clock \/ s.key = <<>>

\* What a call does first: forget what has run out.
Pruned(s) ==
  [s EXCEPT !.tokens = {t \in @ : t.expires > clock}, !.key = IF s.until <= clock THEN <<>> ELSE @]

\* The wipe a call performs when CANCELLATION has moved.
Wiped(s) == IF forget THEN Invalidated(s) ELSE Switched(s)

(* Tokens: [operation, binding, wallet, expires, id].                      *)
Fits(t, operation, binding) ==
  /\ t.operation = operation /\ t.binding = binding /\ t.wallet = store.active
  /\ t.expires >= clock
WithoutToken(s, t) == [s EXCEPT !.tokens = @ \ {t}]

\* The review an operation was shown for.
LiveReview(s, operation, binding) ==
  \E r \in s.reviews : /\ r.hash = binding /\ r.operation = operation /\ r.wallet = store.active
                       /\ r.expires >= clock

----------------------------------------------------------------------------
(* The methods the app calls.                                              *)
Methods ==
  [name : {"prepare"}, request : DOMAIN Requests]
  \cup [name : {"authorize"}, operation : Range(Operation), binding : DOMAIN Requests, inApp : BOOLEAN, short : BOOLEAN]
  \cup [name : {"authorize"}, operation : {"deleteWallet"}, binding : Wallets, inApp : {FALSE}, short : {FALSE}]
  \cup [name : {"authorize"}, operation : {"signInternalNexusChallenge"}, binding : {"challenge"}, inApp : {FALSE}, short : {FALSE}]
  \cup [name : {"sign"}, request : DOMAIN Requests, binding : DOMAIN Requests]
  \cup [name : {"nexus"}, on : BOOLEAN]
  \cup [name : {"deleteWallet", "selectWallet"}, wallet : Wallets]
  \cup [name : {"addWallet", "restore"}, wallet : Wallets]
  \cup [name : {"verifyPin", "configurePin", "refreshUnlock", "publicKey", "signChallenge", "lockSession"}]

----------------------------------------------------------------------------
SessionStart(methods, budget) ==
  /\ app = methods /\ left = budget
  /\ store = [wallets |-> {FirstWallet}, active |-> FirstWallet, failures |-> 0, retryAfter |-> 0]
  /\ session = NewSession /\ cancellation = 0 /\ forget = FALSE
  /\ call = <<>> /\ queued = {} /\ locking = "idle" /\ clock = 1
  /\ approvals = {} /\ guesses = 0 /\ locks = 0
SessionInit == \E play \in Plays : SessionStart(play.methods, play.left)

history == <<approvals, guesses, locks>>

\* A call arrives and reads CANCELLATION before it waits for the mutex.
Arrive ==
  /\ left.calls > 0 /\ Cardinality(queued) < MaxQueued
  /\ left' = [left EXCEPT !.calls = @ - 1]
  /\ queued' = queued \cup {[id |-> left.calls, canc |-> cancellation, locks |-> locks]}
  /\ UNCHANGED <<app, store, session, cancellation, forget, call, locking, clock, history>>

\* It has the mutex: a cancellation it has not seen revokes what was granted.
Enter ==
  /\ call = <<>>
  /\ \E q \in queued, m \in {n \in Methods : n.name \in app} :
       /\ queued' = queued \ {q}
       /\ call' = [id |-> q.id, method |-> m, canc |-> q.canc, locks |-> q.locks, pc |-> "dispatch", agreed |-> FALSE]
       /\ IF session.seen # q.canc
          THEN session' = Pruned([Wiped(session) EXCEPT !.seen = q.canc]) /\ forget' = FALSE
          ELSE session' = Pruned(session) /\ UNCHANGED forget
  /\ UNCHANGED <<app, store, cancellation, locking, clock, history, left>>

At(name) == call # <<>> /\ call.pc = "dispatch" /\ call.method.name = name
\* What a method answers matters only when it is a signature.
Answer(out) == call' = [pc |-> "check", canc |-> call.canc, out |-> out]
Done == Answer(<<>>)
Fail == Done
Prompt(pc) == call' = [call EXCEPT !.pc = pc]
elsewhere == <<app, cancellation, forget, queued, locking, clock, locks, left>>

(* Prompts.  Host.ask drops an answer that comes after a cancellation, and *)
(* the user may close any dialog.                                          *)
Interrupted == cancellation # call.canc
AskPassword == IF store.retryAfter > clock THEN Fail ELSE Prompt("password")

Dismiss ==
  /\ call # <<>> /\ call.pc \in {"review", "password", "newPassword", "secret", "backup"}
  /\ Fail
  /\ UNCHANGED <<store, session, approvals, guesses, elsewhere>>
Answered(pc) == call # <<>> /\ call.pc = pc /\ ~Interrupted

----------------------------------------------------------------------------
(* prepare: needs no unlock; the review is remembered for authorising.     *)
Remembered(k, hash, inApp) ==
  [hash |-> hash, operation |-> Operation[k], wallet |-> store.active,
   expires |-> clock + ReviewLife, inApp |-> inApp]
Kept(reviews) ==
  LET live == {r \in reviews : r.expires > clock} IN IF Cardinality(live) > MaxReviews THEN {} ELSE live

Remember(k, hash, inApp) ==
  IF Requests[k].method \in KaspacomOnly /\ ~inApp THEN Fail /\ UNCHANGED session
  ELSE /\ session' = [session EXCEPT !.reviews = {r \in Kept(@) : r.hash # hash} \cup {Remembered(k, hash, inApp)}]
       /\ Done
Prepared(table, k) ==
  IF ~table[k].ok THEN Fail /\ UNCHANGED session
  ELSE Remember(k, Hash(table, k), InApp(Requests[k], table[k].review))
Prepare ==
  /\ At("prepare") /\ Prepared(Reviewed, call.method.request)
  /\ UNCHANGED <<store, approvals, guesses, elsewhere>>

----------------------------------------------------------------------------
(* authorizeOperation and authorizeKaspacomOperation.  Short is a session  *)
(* of no minutes: the password each time.                                  *)
Silent ==
  call.method.operation = "signInternalNexusChallenge" /\ session.nexus /\ session.until >= clock

Granted(s, agreed) ==
  LET m == call.method
  IN  [s EXCEPT !.tokens = {t \in @ : t.expires > clock}
                             \cup {[operation |-> m.operation, binding |-> m.binding, wallet |-> store.active,
                                    expires |-> clock + 1, id |-> call.id]},
                !.until = IF ~agreed THEN @ ELSE IF m.short THEN clock ELSE clock + SessionLife]
Grant(s, agreed) ==
  /\ session' = Granted(s, agreed)
  /\ Done
  /\ approvals' = IF agreed /\ ~Interrupted
                  THEN approvals \cup {[operation |-> call.method.operation, binding |-> call.method.binding,
                                        wallet |-> store.active, id |-> call.id, expires |-> clock + 1, standing |-> FALSE]}
                  ELSE approvals

AskAgain(agreed) ==
  agreed /\ (session.until < clock \/ call.method.short \/ call.method.operation = "deleteWallet")
Agreed(agreed) ==
  IF AskAgain(agreed) \/ Locked(session)
  THEN /\ IF store.retryAfter > clock THEN Fail ELSE call' = [call EXCEPT !.pc = "password", !.agreed = agreed]
       /\ UNCHANGED <<session, approvals>>
  ELSE Grant(session, agreed)

Authorize ==
  /\ At("authorize")
  /\ LET m == call.method
     IN  CASE Silent -> Agreed(FALSE)
           [] m.operation \in Range(Operation) ->
                IF ~LiveReview(session, m.operation, m.binding) THEN Fail /\ UNCHANGED <<session, approvals>>
                ELSE IF m.inApp /\ \E r \in session.reviews : r.hash = m.binding /\ r.inApp THEN Agreed(TRUE)
                ELSE Prompt("review") /\ UNCHANGED <<session, approvals>>
           [] OTHER -> Prompt("review") /\ UNCHANGED <<session, approvals>>
  /\ UNCHANGED <<store, guesses, elsewhere>>

AgreeToReview ==
  /\ Answered("review") /\ Agreed(TRUE)
  /\ UNCHANGED <<store, guesses, elsewhere>>

----------------------------------------------------------------------------
(* Methods that need the key: they ask for the password when the session   *)
(* is locked, verifyPin and configurePin always.                           *)
Unlocked(s) ==
  CASE call.method.name = "authorize" -> Grant(s, call.agreed)
    [] call.method.name = "verifyPin" ->
         session' = [s EXCEPT !.until = clock + SessionLife] /\ Done /\ UNCHANGED approvals
    [] call.method.name = "publicKey" -> session' = s /\ Done /\ UNCHANGED approvals
    [] call.method.name = "configurePin" -> session' = s /\ Prompt("newPassword") /\ UNCHANGED approvals
    [] call.method.name = "addWallet" -> session' = s /\ Prompt("secret") /\ UNCHANGED approvals
    [] call.method.name = "restore" -> session' = s /\ Prompt("backup") /\ UNCHANGED approvals

NeedKey ==
  /\ \E name \in {"verifyPin", "configurePin", "publicKey", "addWallet", "restore"} : At(name)
  /\ IF Locked(session) \/ call.method.name \in {"verifyPin", "configurePin"}
     THEN AskPassword /\ UNCHANGED <<session, approvals>>
     ELSE Unlocked(session)
  /\ UNCHANGED <<store, guesses, elsewhere>>

RightPassword ==
  /\ Answered("password")
  /\ store' = [store EXCEPT !.failures = 0, !.retryAfter = 0]
  /\ guesses' = 0
  /\ Unlocked(WithKey(session))
  /\ UNCHANGED elsewhere

FailureCountedLate(v) ==
  [v EXCEPT !.failures = @ + 1, !.retryAfter = IF v.failures >= MaxFailures THEN clock + 1 ELSE @]
Failure(v) ==
  [v EXCEPT !.failures = @ + 1, !.retryAfter = IF v.failures + 1 >= MaxFailures THEN clock + 1 ELSE @]
WrongPassword ==
  /\ Answered("password")
  /\ store' = Failure(store)
  /\ session' = Invalidated(session)
  /\ guesses' = guesses + 1
  /\ Fail
  /\ UNCHANGED <<approvals, elsewhere>>

\* configure_pin under a live key; the new key is dropped again at once.
NewPassword ==
  /\ Answered("newPassword")
  /\ IF Locked(session) THEN Fail /\ UNCHANGED session ELSE Done /\ session' = Invalidated(session)
  /\ UNCHANGED <<store, approvals, guesses, elsewhere>>

Stored(w) == [store EXCEPT !.wallets = @ \cup {w}, !.active = w]
AddWallet ==
  /\ Answered("secret")
  /\ LET w == call.method.wallet
     IN  IF w \in store.wallets THEN Fail /\ UNCHANGED <<store, session, approvals>>
         ELSE store' = Stored(w) /\ session' = Switched(session) /\ approvals' = {} /\ Done
  /\ UNCHANGED <<guesses, elsewhere>>

\* restore saves the wallet first, then its vault catalogue and addresses;
\* when the second save fails the session is not switched.
Restore ==
  /\ Answered("backup")
  /\ LET w == call.method.wallet
     IN  IF w \in store.wallets THEN Fail /\ UNCHANGED <<store, session, approvals>>
         ELSE /\ store' = Stored(w)
              /\ \/ session' = Switched(session) /\ approvals' = {} /\ Done
                 \/ UNCHANGED <<session, approvals>> /\ Fail
  /\ UNCHANGED <<guesses, elsewhere>>

----------------------------------------------------------------------------
(* Methods that use a token up.  The token goes whether or not it fits.    *)
Redeem(t) == session' = WithoutToken(session, t)
NoToken == session.tokens = {} /\ UNCHANGED session /\ Fail
SignatureOf(t) == <<t.operation, t.binding, store.active, t.id>>

SignRequest ==
  /\ At("sign")
  /\ LET k == call.method.request
         h == call.method.binding
     IN  \/ NoToken
         \/ \E t \in session.tokens :
              /\ Redeem(t)
              /\ IF Fits(t, Operation[k], h) /\ Requests[k].wallet = store.active /\ CoreSigns(k, h)
                 THEN Answer(SignatureOf(t)) ELSE Fail
  /\ UNCHANGED <<store, approvals, guesses, elsewhere>>

SignChallenge ==
  /\ At("signChallenge")
  /\ \/ NoToken
     \/ \E t \in session.tokens :
          /\ Redeem(t)
          /\ IF Fits(t, "signInternalNexusChallenge", "challenge") /\ session.nexus
             THEN Answer(SignatureOf(t)) ELSE Fail
  /\ UNCHANGED <<store, approvals, guesses, elsewhere>>

Remaining(w) ==
  LET rest == store.wallets \ {w}
  IN  [store EXCEPT !.wallets = rest,
                    !.active = IF @ # w THEN @ ELSE IF rest = {} THEN "none" ELSE CHOOSE x \in rest : TRUE]
DeleteWallet ==
  /\ At("deleteWallet")
  /\ LET w == call.method.wallet
     IN  \/ NoToken /\ UNCHANGED <<store, approvals>>
         \/ \E t \in session.tokens :
              IF Fits(t, "deleteWallet", w)
              THEN store' = Remaining(w) /\ session' = Invalidated(session) /\ approvals' = {} /\ Done
              ELSE Redeem(t) /\ Fail /\ UNCHANGED <<store, approvals>>
  /\ UNCHANGED <<guesses, elsewhere>>

----------------------------------------------------------------------------
(* Methods that ask for nothing.                                           *)
SelectWallet ==
  /\ At("selectWallet")
  /\ LET w == call.method.wallet
     IN  IF w \notin store.wallets THEN Fail /\ UNCHANGED <<store, session, approvals>>
         ELSE store' = [store EXCEPT !.active = w] /\ session' = Switched(session) /\ approvals' = {} /\ Done
  /\ UNCHANGED <<guesses, elsewhere>>

SetNexus ==
  /\ At("nexus")
  /\ CASE ~call.method.on -> session' = Switched(session) /\ approvals' = {} /\ Done
       [] call.method.on /\ Locked(session) -> Fail /\ UNCHANGED <<session, approvals>>
       [] OTHER -> /\ session' = [session EXCEPT !.nexus = TRUE]
                   /\ Done
                   /\ approvals' = IF Interrupted THEN approvals ELSE approvals \cup
                        {[operation |-> "signInternalNexusChallenge", binding |-> "challenge", wallet |-> store.active,
                          id |-> call.id, expires |-> clock, standing |-> TRUE]}
  /\ UNCHANGED <<store, guesses, elsewhere>>

RefreshUnlock ==
  /\ At("refreshUnlock")
  /\ session' = IF session.nexus /\ ~Locked(session) THEN [session EXCEPT !.until = clock + SessionLife] ELSE session
  /\ Done
  /\ UNCHANGED <<store, approvals, guesses, elsewhere>>

\* lockWindowsSession; and a panic in any method ends the same way.
LockSession ==
  /\ call # <<>> /\ call.pc = "dispatch"
  /\ session' = Invalidated(session) /\ approvals' = {} /\ Fail
  /\ UNCHANGED <<store, guesses, elsewhere>>

Dispatch ==
  \/ Prepare \/ Authorize \/ AgreeToReview \/ NeedKey \/ RightPassword \/ WrongPassword \/ NewPassword
  \/ AddWallet \/ Restore \/ SignRequest \/ SignChallenge \/ DeleteWallet \/ SelectWallet \/ SetNexus
  \/ RefreshUnlock \/ LockSession \/ Dismiss

----------------------------------------------------------------------------
(* The end of a call: its answer leaves only when nothing was cancelled    *)
(* since it arrived; otherwise it wipes in two steps of its own.           *)
Return ==
  /\ call # <<>> /\ call.pc = "check" /\ ~Interrupted
  /\ call' = <<>>
  /\ approvals' = {a \in approvals : a.standing \/ ~Covers(a, call.out)}
  /\ UNCHANGED <<app, store, session, cancellation, forget, queued, locking, clock, guesses, locks, left>>

Refuse ==
  /\ call # <<>> /\ call.pc = "check" /\ Interrupted
  /\ session' = Wiped(session) /\ forget' = FALSE
  /\ call' = [pc |-> "reload"]
  /\ UNCHANGED <<app, store, cancellation, queued, locking, clock, history, left>>

Reload ==
  /\ call # <<>> /\ call.pc = "reload"
  /\ session' = [session EXCEPT !.seen = cancellation]
  /\ call' = <<>>
  /\ UNCHANGED <<app, store, cancellation, forget, queued, locking, clock, history, left>>

----------------------------------------------------------------------------
(* kaspire_desktop_cancel and kaspire_desktop_lock, on another thread.     *)
Cancel ==
  /\ left.cancels > 0 /\ left' = [left EXCEPT !.cancels = @ - 1]
  /\ cancellation' = cancellation + 1 /\ approvals' = {}
  /\ UNCHANGED <<app, store, session, forget, call, queued, locking, clock, guesses, locks>>

LockForget ==
  /\ locking = "idle" /\ locking' = "forget" /\ forget' = TRUE
  /\ left.locks > 0 /\ left' = [left EXCEPT !.locks = @ - 1]
  /\ UNCHANGED <<app, store, session, cancellation, call, queued, clock, history>>
LockCancel ==
  /\ locking = "forget" /\ locking' = "wipe"
  /\ cancellation' = cancellation + 1 /\ approvals' = {}
  /\ UNCHANGED <<app, store, session, forget, call, queued, clock, guesses, locks, left>>
LockTryWipe ==
  /\ locking = "wipe" /\ locking' = "idle" /\ locks' = locks + 1
  /\ session' = IF call = <<>> THEN Invalidated(session) ELSE session
  /\ UNCHANGED <<app, store, cancellation, forget, call, queued, clock, approvals, guesses, left>>

(* The program ends, at any point, and starts again.                       *)
Restart ==
  /\ left.restarts > 0 /\ left' = [left EXCEPT !.restarts = @ - 1]
  /\ session' = NewSession /\ cancellation' = 0 /\ forget' = FALSE
  /\ call' = <<>> /\ queued' = {} /\ locking' = "idle" /\ approvals' = {} /\ locks' = 0
  /\ UNCHANGED <<app, store, clock, guesses>>

\* An approval ends with its minute, unless the signature is made already.
Signed(a) == call # <<>> /\ call.pc = "check" /\ Covers(a, call.out)
Minute ==
  /\ left.minutes > 0 /\ left' = [left EXCEPT !.minutes = @ - 1]
  /\ clock' = clock + 1
  /\ approvals' = {a \in approvals : a.standing \/ a.expires > clock \/ Signed(a)}
  /\ UNCHANGED <<app, store, session, cancellation, forget, call, queued, locking, guesses, locks>>

SessionNext ==
  \/ Arrive \/ Enter \/ Dispatch \/ Return \/ Refuse \/ Reload
  \/ Cancel \/ LockForget \/ LockCancel \/ LockTryWipe \/ Restart \/ Minute

----------------------------------------------------------------------------
(* Properties.                                                             *)

\* Every signature a call returns was agreed to: the user saw this review
\* and said yes, for the wallet that is active now, has not been given a
\* signature for that yes before, and has not locked, cancelled, switched
\* or closed the wallet since.  A challenge of the offers market needs the
\* consent to a session of it, which a restore that fails half way through
\* leaves standing for the wallet it has stored.
SignatureNeedsApproval ==
  call # <<>> /\ call.pc = "check" /\ ~Interrupted /\ call.out # <<>> => \E a \in approvals : Covers(a, call.out)

\* Closing and reopening the program, waiting, or cancelling dialogs gives
\* nobody more guesses: after MaxFailures wrong passwords in a row every
\* further one costs a minute.
GuessesAreThrottled == guesses < MaxFailures + clock

\* desktop.rs says of a lock that finds the session busy that the running
\* call "wipes before any result can be returned".  So no call that arrives
\* after the lock runs with the password given before it.
LockForgetsPassword ==
  call # <<>> /\ call.pc = "dispatch" /\ session.key # <<>> => session.key[1] >= call.locks
=============================================================================
