---------------------------- MODULE DesktopProofs ----------------------------
(***************************************************************************)
(* Proofs about the Windows shell of the core (DesktopSession) as CoreHosts*)
(* runs it: a signature that leaves the shell was agreed to, and closing,  *)
(* reopening and waiting win nobody more guesses at the password.  Nothing *)
(* of the builders is used but the names of their operations.              *)
(***************************************************************************)
EXTENDS CoreHosts, TLAPS

Nexus == "signInternalNexusChallenge"

----------------------------------------------------------------------------
(* The invariant.                                                          *)

\* A call that is being carried out, or waits for the user in a dialog.
Steps == {"dispatch", "review", "password", "newPassword", "secret", "backup"}
Running == call # <<>> /\ call.pc \in Steps
Answering == call # <<>> /\ call.pc = "check"
Reloading == call # <<>> /\ call.pc = "reload"

IsSession(s) ==
  s = [tokens |-> s.tokens, reviews |-> s.reviews, until |-> s.until, nexus |-> s.nexus, key |-> s.key, seen |-> s.seen]
IsStore(v) == v = [wallets |-> v.wallets, active |-> v.active, failures |-> v.failures, retryAfter |-> v.retryAfter]
IsRunning(c) ==
  /\ c.pc \in Steps
  /\ c = [id |-> c.id, method |-> c.method, canc |-> c.canc, locks |-> c.locks, pc |-> c.pc, agreed |-> c.agreed]
  /\ c.id \in Nat /\ c.agreed \in BOOLEAN
IsAnswer(c) == c.pc = "check" /\ c = [pc |-> "check", canc |-> c.canc, out |-> c.out]

\* What the steps need of the types.
Shape ==
  /\ IsSession(session) /\ session.nexus \in BOOLEAN
  /\ IsStore(store) /\ store.failures \in Nat /\ store.retryAfter \in Nat
  /\ clock \in Nat \ {0} /\ guesses \in Nat
  /\ left \in [{"calls", "cancels", "locks", "restarts", "minutes"} -> Nat]
  /\ \/ call = <<>>
     \/ IsRunning(call)
     \/ IsAnswer(call)
     \/ call = [pc |-> "reload"]

\* No count of cancellations is ahead of the real one, and the session of a
\* call stands at the count the call came with until it is wiped.
CountsAgree ==
  /\ cancellation \in Nat
  /\ session.seen \in Nat /\ session.seen <= cancellation
  /\ \A q \in queued : q.canc \in Nat /\ q.canc <= cancellation
  /\ Running \/ Answering => call.canc = session.seen
  /\ Reloading => session.tokens = {} /\ ~session.nexus

\* A token carries the number of the call that granted it, and no two calls
\* have the same.
TokensAreNumbered ==
  /\ \A q \in queued : q.id \in Nat /\ left.calls < q.id
  /\ \A q, r \in queued : q.id = r.id => q = r
  /\ \A t \in session.tokens : t.id \in Nat /\ t.expires \in Nat /\ left.calls < t.id /\ \A q \in queued : q.id # t.id
  /\ \A t, u \in session.tokens : t.id = u.id => t = u
  /\ Running => /\ left.calls < call.id
                /\ \A q \in queued : q.id # call.id
                /\ \A t \in session.tokens : t.id # call.id
  /\ Answering /\ call.out # <<>> => \A t \in session.tokens : t.id # call.out[4]

\* What a call asks for, and what is asked for in its dialogs.
CallsFit ==
  /\ Running /\ call.method.name = "sign" => call.method.request \in DOMAIN Requests
  /\ Running /\ call.pc = "review" => call.method.name = "authorize"
  /\ Running /\ call.pc = "password" =>
       /\ call.method.name \in {"authorize", "verifyPin", "publicKey", "configurePin", "addWallet", "restore"}
       /\ call.method.name = "authorize" /\ ~call.agreed => call.method.operation = Nexus
       /\ store.retryAfter <= clock

\* Until the next cancellation every token that still counts, and the consent
\* to the offers market, stands for an approval nobody has used.
ApprovedAs(t) ==
  \E a \in approvals : /\ ~a.standing /\ a.id = t.id /\ a.expires = t.expires
                       /\ a.operation = t.operation /\ a.binding = t.binding /\ a.wallet = t.wallet
Consented == \E a \in approvals : a.standing /\ a.operation = Nexus
GrantsAreApproved ==
  session.seen = cancellation =>
    /\ \A t \in session.tokens : t.operation # Nexus /\ t.expires >= clock => ApprovedAs(t)
    /\ session.nexus => Consented

\* A wrong password beyond the last free one moved the store's clock on.
GuessesAreCounted ==
  /\ guesses = store.failures
  /\ store.retryAfter <= clock + 1
  /\ guesses >= MaxFailures => guesses - MaxFailures + 2 <= store.retryAfter

IInv ==
  /\ Shape /\ CountsAgree /\ TokensAreNumbered /\ CallsFit /\ GrantsAreApproved /\ GuessesAreCounted
  /\ SignatureNeedsApproval

----------------------------------------------------------------------------
(* The start.                                                              *)

LEMMA Initially ==
  ASSUME NEW methods, NEW budget \in [{"calls", "cancels", "locks", "restarts", "minutes"} -> Nat],
         SessionStart(methods, budget)
  PROVE  IInv
<1>1. Shape
  BY DEF SessionStart, NewSession, Shape, IsSession, IsStore
<1>2. CountsAgree /\ TokensAreNumbered /\ CallsFit /\ GrantsAreApproved
  BY DEF SessionStart, NewSession, CountsAgree, TokensAreNumbered, CallsFit, GrantsAreApproved, Running, Answering, Reloading
<1>3. GuessesAreCounted
  BY DesktopAssumption DEF SessionStart, GuessesAreCounted
<1>4. SignatureNeedsApproval
  BY DEF SessionStart, SignatureNeedsApproval
<1> QED
  BY <1>1, <1>2, <1>3, <1>4 DEF IInv

----------------------------------------------------------------------------
(* Steps of a call.  Most grant nothing: they leave the session with fewer *)
(* tokens, and touch the approvals only when no grant is left.             *)

GrantsNothing ==
  /\ IsSession(session') /\ session'.nexus \in BOOLEAN /\ session'.seen = session.seen
  /\ session'.tokens \subseteq session.tokens
  /\ session'.nexus => session.nexus
  /\ approvals' = approvals \/ (session'.tokens = {} /\ ~session'.nexus)

\* The store and its password counters after a step.
GuessesMove ==
  /\ IsStore(store') /\ store'.failures \in Nat /\ store'.retryAfter \in Nat /\ guesses' \in Nat
  /\ GuessesAreCounted'

\* A step that leaves the password counters alone.
LEMMA GuessingNothing ==
  ASSUME IInv, IsStore(store'), store'.failures = store.failures, store'.retryAfter = store.retryAfter,
         guesses' = guesses, clock' = clock
  PROVE  GuessesMove
BY DEF IInv, Shape, GuessesMove, GuessesAreCounted

LEMMA GrantingNothing ==
  ASSUME IInv, GrantsNothing, UNCHANGED <<clock, cancellation>>
  PROVE  GrantsAreApproved'
BY DEF IInv, GrantsAreApproved, GrantsNothing, ApprovedAs, Consented

\* A call that grants nothing ends without a signature.
LEMMA Ending ==
  ASSUME IInv, Running, Done, GrantsNothing, GuessesMove, UNCHANGED elsewhere
  PROVE  IInv'
<1>0. call' = [pc |-> "check", canc |-> call.canc, out |-> <<>>]
  BY DEF Done, Answer
<1>1. Shape'
  BY <1>0 DEF IInv, Shape, GrantsNothing, GuessesMove, elsewhere, IsAnswer
<1>2. CountsAgree'
  BY <1>0 DEF IInv, CountsAgree, GrantsNothing, elsewhere, Running, Answering, Reloading, Steps
<1>3. TokensAreNumbered'
  BY <1>0 DEF IInv, TokensAreNumbered, GrantsNothing, elsewhere, Running, Answering, Steps
<1>4. CallsFit'
  BY <1>0 DEF IInv, CallsFit, Running, Steps
<1>5. GrantsAreApproved'
  BY GrantingNothing DEF elsewhere
<1>6. GuessesAreCounted'
  BY DEF GuessesMove
<1>7. SignatureNeedsApproval'
  BY <1>0 DEF SignatureNeedsApproval
<1> QED
  BY <1>1, <1>2, <1>3, <1>4, <1>5, <1>6, <1>7 DEF IInv

\* A call that grants nothing opens a dialog.
LEMMA Prompting ==
  ASSUME IInv, Running, GrantsNothing, GuessesMove, UNCHANGED elsewhere,
         NEW pc \in Steps, NEW agreed \in BOOLEAN,
         call' = [call EXCEPT !.pc = pc, !.agreed = agreed],
         CallsFit'
  PROVE  IInv'
<1>a. IsRunning(call)
  BY DEF IInv, Shape, IsAnswer, Running, Steps
<1>b. call' = [id |-> call.id, method |-> call.method, canc |-> call.canc, locks |-> call.locks, pc |-> pc, agreed |-> agreed]
  BY <1>a DEF IsRunning
<1>0. call'.pc = pc /\ call'.id = call.id /\ call'.canc = call.canc /\ IsRunning(call)'
  BY <1>a, <1>b DEF IsRunning
<1>1. Shape'
  BY <1>0 DEF IInv, Shape, GrantsNothing, GuessesMove, elsewhere
<1>2. CountsAgree'
  BY <1>0 DEF IInv, CountsAgree, GrantsNothing, elsewhere, Running, Answering, Reloading, Steps
<1>3. TokensAreNumbered'
  BY <1>0 DEF IInv, TokensAreNumbered, GrantsNothing, elsewhere, Running, Answering, Steps
<1>5. GrantsAreApproved'
  BY GrantingNothing DEF elsewhere
<1>6. GuessesAreCounted'
  BY DEF GuessesMove
<1>7. SignatureNeedsApproval'
  BY <1>0 DEF SignatureNeedsApproval, Steps
<1> QED
  BY <1>1, <1>2, <1>3, <1>5, <1>6, <1>7 DEF IInv

\* The token a call grants, and the approval that goes with it.
NewToken(t) ==
  t = [operation |-> call.method.operation, binding |-> call.method.binding, wallet |-> store.active,
       expires |-> clock + 1, id |-> call.id]

LEMMA Granting ==
  ASSUME IInv, Running, NEW s, s = session \/ s = WithKey(session),
         NEW agreed \in BOOLEAN, ~agreed => call.method.operation = Nexus,
         Grant(s, agreed), GuessesMove, UNCHANGED elsewhere
  PROVE  IInv'
<1>0. /\ call' = [pc |-> "check", canc |-> call.canc, out |-> <<>>]
      /\ session' = Granted(s, agreed)
  BY DEF Grant, Done, Answer
<1>a. /\ IsSession(s) /\ s.nexus \in BOOLEAN /\ s.seen = session.seen
      /\ s.tokens \subseteq session.tokens /\ (s.nexus => session.nexus)
  BY DEF IInv, Shape, IsSession, WithKey, Invalidated
<1>b. /\ IsSession(session') /\ session'.nexus = s.nexus /\ session'.seen = s.seen
      /\ \A t \in session'.tokens : t \in session.tokens \/ NewToken(t)
  BY <1>0, <1>a DEF IsSession, Granted, NewToken
<1>1. Shape'
  BY <1>0, <1>a, <1>b DEF IInv, Shape, GuessesMove, elsewhere, IsAnswer
<1>2. CountsAgree'
  BY <1>0, <1>a, <1>b DEF IInv, CountsAgree, elsewhere, Running, Answering, Reloading, Steps
<1>3. TokensAreNumbered'
  BY <1>0, <1>a, <1>b DEF IInv, Shape, TokensAreNumbered, elsewhere, Running, Answering, Steps, NewToken, IsRunning, IsAnswer
<1>4. CallsFit'
  BY <1>0 DEF IInv, CallsFit, Running, Steps
<1>5. GrantsAreApproved'
  <2> SUFFICES ASSUME session.seen = cancellation
               PROVE  /\ \A t \in session'.tokens : t.operation # Nexus /\ t.expires >= clock => ApprovedAs(t)'
                      /\ session'.nexus => Consented'
    BY <1>a, <1>b DEF GrantsAreApproved, elsewhere
  <2>1. approvals \subseteq approvals' /\ ~Interrupted
    BY DEF Grant, IInv, CountsAgree, Interrupted
  <2>2. \A t \in session.tokens : t.operation # Nexus /\ t.expires >= clock => ApprovedAs(t)'
    BY <2>1 DEF IInv, GrantsAreApproved, ApprovedAs
  <2>3. ASSUME NEW t, NewToken(t), t.operation # Nexus PROVE ApprovedAs(t)'
    <3> DEFINE a == [operation |-> call.method.operation, binding |-> call.method.binding, wallet |-> store.active,
                     id |-> call.id, expires |-> clock + 1, standing |-> FALSE]
    <3>1. agreed
      BY <2>3 DEF NewToken
    <3>2. a \in approvals'
      BY <2>1, <3>1 DEF Grant
    <3>3. /\ ~a.standing /\ a.id = t.id /\ a.expires = t.expires
          /\ a.operation = t.operation /\ a.binding = t.binding /\ a.wallet = t.wallet
      BY <2>3 DEF NewToken
    <3> QED
      BY <3>2, <3>3 DEF ApprovedAs
  <2>4. session'.nexus => Consented'
    BY <1>a, <1>b, <2>1 DEF IInv, GrantsAreApproved, Consented
  <2> QED
    BY <1>b, <2>2, <2>3, <2>4
<1>6. GuessesAreCounted'
  BY DEF GuessesMove
<1>7. SignatureNeedsApproval'
  BY <1>0 DEF SignatureNeedsApproval
<1> QED
  BY <1>1, <1>2, <1>3, <1>4, <1>5, <1>6, <1>7 DEF IInv

\* Authorisation once the user agreed, or silently under the consent.
LEMMA Agreeing ==
  ASSUME IInv, Running, NEW agreed \in BOOLEAN, Agreed(agreed),
         call.method.name = "authorize", ~agreed => call.method.operation = Nexus,
         UNCHANGED <<store, guesses, elsewhere>>
  PROVE  IInv'
<1>1. GuessesMove
  BY GuessingNothing DEF IInv, Shape, elsewhere
<1>2. CASE AskAgain(agreed) \/ Locked(session)
  <2>1. GrantsNothing
    BY <1>2 DEF Agreed, GrantsNothing, IInv, Shape
  <2>2. CASE store.retryAfter > clock
    BY <1>1, <1>2, <2>1, <2>2, Ending DEF Agreed, Fail
  <2>3. CASE ~(store.retryAfter > clock)
    <3>1. call' = [call EXCEPT !.pc = "password", !.agreed = agreed]
      BY <1>2, <2>3 DEF Agreed
    <3>2. IsRunning(call)
      BY DEF IInv, Shape, Running, IsAnswer, Steps
    <3>3. call'.pc = "password" /\ call'.method = call.method /\ call'.agreed = agreed
      BY <3>1, <3>2 DEF IsRunning
    <3>4. CallsFit'
      BY <2>3, <3>3 DEF CallsFit, IInv, Shape, elsewhere
    <3> QED
      BY <1>1, <2>1, <3>1, <3>4, Prompting DEF Steps
  <2> QED
    BY <2>2, <2>3
<1>3. CASE ~(AskAgain(agreed) \/ Locked(session))
  BY <1>1, <1>3, Granting DEF Agreed
<1> QED
  BY <1>2, <1>3

\* A method that has the key.
LEMMA Unlocking ==
  ASSUME IInv, Running, NEW s, s = session \/ s = WithKey(session), Unlocked(s), GuessesMove, UNCHANGED elsewhere,
         call.method.name \in {"authorize", "verifyPin", "publicKey", "configurePin", "addWallet", "restore"},
         call.method.name = "authorize" /\ ~call.agreed => call.method.operation = Nexus
  PROVE  IInv'
<1>0. /\ IsSession(s) /\ s.nexus \in BOOLEAN /\ s.seen = session.seen
      /\ s.tokens \subseteq session.tokens /\ (s.nexus => session.nexus)
  BY DEF IInv, Shape, IsSession, WithKey, Invalidated
<1>r. IsRunning(call)
  BY DEF IInv, Shape, Running, IsAnswer, Steps
<1>1. CASE call.method.name = "authorize"
  BY <1>1, <1>r, Granting DEF Unlocked, IsRunning
<1>2. CASE call.method.name = "verifyPin"
  <2>1. session' = [s EXCEPT !.until = clock + SessionLife] /\ Done /\ approvals' = approvals
    BY <1>2 DEF Unlocked
  <2>2. GrantsNothing
    BY <1>0, <2>1 DEF GrantsNothing, IsSession
  <2> QED
    BY <2>1, <2>2, Ending
<1>3. CASE call.method.name = "publicKey"
  <2>1. session' = s /\ Done /\ approvals' = approvals
    BY <1>3 DEF Unlocked
  <2>2. GrantsNothing
    BY <1>0, <2>1 DEF GrantsNothing
  <2> QED
    BY <2>1, <2>2, Ending
<1>4. CASE call.method.name \in {"configurePin", "addWallet", "restore"}
  <2>1. PICK pc \in {"newPassword", "secret", "backup"} : session' = s /\ Prompt(pc) /\ approvals' = approvals
    BY <1>4 DEF Unlocked
  <2>2. GrantsNothing
    BY <1>0, <2>1 DEF GrantsNothing
  <2>3. call' = [call EXCEPT !.pc = pc, !.agreed = call.agreed] /\ call'.pc = pc /\ call'.method = call.method
    BY <1>r, <2>1 DEF Prompt, IsRunning
  <2>4. CallsFit'
    BY <1>4, <2>3 DEF CallsFit
  <2> QED
    BY <1>r, <2>2, <2>3, <2>4, Prompting DEF Steps, IsRunning
<1> QED
  BY <1>1, <1>2, <1>3, <1>4

----------------------------------------------------------------------------
(* The methods and the dialogs.                                            *)

\* The method names of the calls that are being carried out.
LEMMA AtRuns == ASSUME NEW name, At(name) PROVE Running /\ call.pc = "dispatch" /\ call.method.name = name
BY DEF At, Running, Steps
LEMMA AnsweredRuns == ASSUME NEW pc \in Steps, Answered(pc) PROVE Running /\ call.pc = pc
BY DEF Answered, Running

\* What a step does that leaves the session, the store and the history alone.
LEMMA NothingChanges ==
  ASSUME IInv, UNCHANGED <<session, approvals>> PROVE GrantsNothing
BY DEF IInv, Shape, GrantsNothing
LEMMA NothingCounted ==
  ASSUME IInv, UNCHANGED <<store, guesses, elsewhere>> PROVE GuessesMove
BY GuessingNothing DEF IInv, Shape, elsewhere

LEMMA PrepareKeeps == ASSUME IInv, Prepare PROVE IInv'
<1>1. Running /\ GuessesMove
  BY AtRuns, NothingCounted DEF Prepare
<1>2. Done /\ (session' = session \/ \E reviews : session' = [session EXCEPT !.reviews = reviews])
  BY DEF Prepare, Prepared, Remember, Fail
<1>3. GrantsNothing
  BY <1>2 DEF Prepare, GrantsNothing, IInv, Shape, IsSession
<1> QED
  BY <1>1, <1>2, <1>3, Ending DEF Prepare

LEMMA AuthorizeKeeps == ASSUME IInv, Authorize PROVE IInv'
<1>1. /\ Running /\ call.method.name = "authorize" /\ GuessesMove
      /\ IsRunning(call)
  BY AtRuns, NothingCounted DEF Authorize, IInv, Shape, Running, IsAnswer, Steps
<1>2. CASE Agreed(TRUE)
  BY <1>1, <1>2, Agreeing DEF Authorize
<1>3. CASE Silent /\ Agreed(FALSE)
  BY <1>1, <1>3, Agreeing DEF Authorize, Silent, Nexus
<1>4. CASE Fail /\ UNCHANGED <<session, approvals>>
  BY <1>1, <1>4, NothingChanges, Ending DEF Authorize, Fail
<1>5. CASE Prompt("review") /\ UNCHANGED <<session, approvals>>
  <2>1. call' = [call EXCEPT !.pc = "review", !.agreed = call.agreed] /\ call'.pc = "review" /\ call'.method = call.method
    BY <1>1, <1>5 DEF Prompt, IsRunning
  <2>2. CallsFit'
    BY <1>1, <2>1 DEF CallsFit
  <2> QED
    BY <1>1, <1>5, <2>1, <2>2, NothingChanges, Prompting DEF Authorize, Steps, IsRunning
<1> QED
  BY <1>2, <1>3, <1>4, <1>5 DEF Authorize

LEMMA AgreeToReviewKeeps == ASSUME IInv, AgreeToReview PROVE IInv'
<1>1. Running /\ call.pc = "review"
  BY AnsweredRuns DEF AgreeToReview, Steps
<1>2. call.method.name = "authorize"
  BY <1>1 DEF IInv, CallsFit
<1> QED
  BY <1>1, <1>2, Agreeing DEF AgreeToReview

LEMMA NeedKeyKeeps == ASSUME IInv, NeedKey PROVE IInv'
<1>1. /\ Running /\ GuessesMove
      /\ call.method.name \in {"verifyPin", "configurePin", "publicKey", "addWallet", "restore"}
  BY AtRuns, NothingCounted DEF NeedKey
<1>2. CASE Locked(session) \/ call.method.name \in {"verifyPin", "configurePin"}
  <2>1. GrantsNothing
    BY <1>2, NothingChanges DEF NeedKey
  <2>2. CASE store.retryAfter > clock
    BY <1>1, <1>2, <2>1, <2>2, Ending DEF NeedKey, AskPassword, Fail
  <2>3. CASE ~(store.retryAfter > clock)
    <3>1. IsRunning(call)
      BY <1>1 DEF IInv, Shape, Running, IsAnswer, Steps
    <3>2. /\ call' = [call EXCEPT !.pc = "password", !.agreed = call.agreed]
          /\ call'.pc = "password" /\ call'.method = call.method
      BY <1>2, <2>3, <3>1 DEF NeedKey, AskPassword, Prompt, IsRunning
    <3>3. CallsFit'
      BY <1>1, <2>3, <3>2 DEF CallsFit, NeedKey, elsewhere, IInv, Shape
    <3> QED
      BY <1>1, <2>1, <3>1, <3>2, <3>3, Prompting DEF NeedKey, Steps, IsRunning
  <2> QED
    BY <2>2, <2>3
<1>3. CASE ~(Locked(session) \/ call.method.name \in {"verifyPin", "configurePin"})
  BY <1>1, <1>3, Unlocking DEF NeedKey
<1> QED
  BY <1>2, <1>3

LEMMA SomeFailures == MaxFailures \in Nat \ {0}
BY DesktopAssumption

LEMMA RightPasswordKeeps == ASSUME IInv, RightPassword PROVE IInv'
<1>1. Running /\ call.pc = "password"
  BY AnsweredRuns DEF RightPassword, Steps
<1>2. /\ call.method.name \in {"authorize", "verifyPin", "publicKey", "configurePin", "addWallet", "restore"}
      /\ call.method.name = "authorize" /\ ~call.agreed => call.method.operation = Nexus
  BY <1>1 DEF IInv, CallsFit
<1>3. GuessesMove
  <2>1. IsStore(store') /\ store'.failures = 0 /\ store'.retryAfter = 0
    BY DEF RightPassword, IInv, Shape, IsStore
  <2>2. clock' = clock /\ guesses' = 0 /\ clock \in Nat
    BY DEF RightPassword, elsewhere, IInv, Shape
  <2> QED
    BY <2>1, <2>2, SomeFailures DEF GuessesMove, GuessesAreCounted
<1> QED
  BY <1>1, <1>2, <1>3, Unlocking DEF RightPassword

LEMMA WrongPasswordKeeps == ASSUME IInv, WrongPassword PROVE IInv'
<1>1. Running /\ call.pc = "password" /\ store.retryAfter <= clock
  BY AnsweredRuns DEF WrongPassword, Steps, IInv, CallsFit
<1>2. GuessesMove
  <2>1. /\ store'.failures = store.failures + 1
        /\ store'.retryAfter = IF store.failures + 1 >= MaxFailures THEN clock + 1 ELSE store.retryAfter
        /\ IsStore(store')
    BY DEF WrongPassword, Failure, IInv, Shape, IsStore
  <2>2. clock' = clock /\ guesses' = guesses + 1
    BY DEF WrongPassword, elsewhere
  <2>3. /\ store.failures \in Nat /\ store.retryAfter \in Nat /\ clock \in Nat \ {0} /\ guesses = store.failures
        /\ guesses >= MaxFailures => guesses - MaxFailures + 2 <= store.retryAfter
        /\ store.retryAfter <= clock + 1
    BY DEF IInv, Shape, GuessesAreCounted
  <2>4. store'.failures \in Nat /\ store'.retryAfter \in Nat /\ guesses' \in Nat /\ store'.retryAfter <= clock' + 1
    BY <2>1, <2>2, <2>3
  <2>5. guesses' >= MaxFailures => guesses' - MaxFailures + 2 <= store'.retryAfter
    <3>1. CASE store.failures + 1 >= MaxFailures
      <4>1. store'.retryAfter = clock + 1 /\ guesses' = store.failures + 1 /\ store.retryAfter <= clock
        BY <1>1, <2>1, <2>2, <2>3, <3>1
      <4>2. CASE store.failures >= MaxFailures
        BY <2>3, <4>1, <4>2, SomeFailures
      <4>3. CASE store.failures + 1 = MaxFailures
        BY <2>3, <4>1, <4>3, SomeFailures
      <4> QED
        BY <2>3, <3>1, <4>2, <4>3, SomeFailures
    <3>2. CASE ~(store.failures + 1 >= MaxFailures)
      BY <2>2, <2>3, <3>2
    <3> QED
      BY <3>1, <3>2
  <2> QED
    BY <2>1, <2>2, <2>3, <2>4, <2>5 DEF GuessesMove, GuessesAreCounted
<1>3. GrantsNothing
  BY DEF WrongPassword, Invalidated, GrantsNothing, IInv, Shape, IsSession
<1> QED
  BY <1>1, <1>2, <1>3, Ending DEF WrongPassword, Fail

LEMMA DismissKeeps == ASSUME IInv, Dismiss PROVE IInv'
<1>1. Running /\ GuessesMove /\ GrantsNothing
  BY NothingCounted, NothingChanges DEF Dismiss, Running, Steps
<1> QED
  BY <1>1, Ending DEF Dismiss, Fail

LEMMA NewPasswordKeeps == ASSUME IInv, NewPassword PROVE IInv'
<1>1. Running /\ GuessesMove
  BY AnsweredRuns, NothingCounted DEF NewPassword, Steps
<1>2. GrantsNothing
  BY DEF NewPassword, Invalidated, GrantsNothing, IInv, Shape, IsSession
<1> QED
  BY <1>1, <1>2, Ending DEF NewPassword, Fail

\* A switched session has no grants.
LEMMA Switching ==
  ASSUME IInv, NEW s, s = Switched(session) \/ s = Invalidated(session)
  PROVE  IsSession(s) /\ s.tokens = {} /\ s.nexus = FALSE /\ s.seen = session.seen
BY DEF Switched, Invalidated, IInv, Shape, IsSession

\* Another wallet is stored or chosen under the same counters.
LEMMA StoringCounts ==
  ASSUME IInv, NEW v, IsStore(v), v.failures = store.failures, v.retryAfter = store.retryAfter,
         store' = v, UNCHANGED <<guesses, elsewhere>>
  PROVE  GuessesMove
BY GuessingNothing DEF elsewhere

LEMMA StoredCounts ==
  ASSUME IInv, NEW w, NEW v, v = Stored(w)
  PROVE  IsStore(v) /\ v.failures = store.failures /\ v.retryAfter = store.retryAfter
BY DEF Stored, IInv, Shape, IsStore

LEMMA AddWalletKeeps == ASSUME IInv, AddWallet PROVE IInv'
<1>1. Running
  BY AnsweredRuns DEF AddWallet, Steps
<1>2. Done /\ GuessesMove
  BY NothingCounted, StoredCounts, StoringCounts DEF AddWallet, Fail
<1>3. GrantsNothing
  BY NothingChanges, Switching DEF AddWallet, GrantsNothing
<1> QED
  BY <1>1, <1>2, <1>3, Ending DEF AddWallet

LEMMA RestoreKeeps == ASSUME IInv, Restore PROVE IInv'
<1>1. Running
  BY AnsweredRuns DEF Restore, Steps
<1>2. Done /\ GuessesMove
  BY NothingCounted, StoredCounts, StoringCounts DEF Restore, Fail
<1>3. GrantsNothing
  BY NothingChanges, Switching DEF Restore, GrantsNothing
<1> QED
  BY <1>1, <1>2, <1>3, Ending DEF Restore

LEMMA SelectWalletKeeps == ASSUME IInv, SelectWallet PROVE IInv'
<1>1. Running
  BY AtRuns DEF SelectWallet
<1>2. Done /\ GuessesMove
  <2>1. ASSUME NEW w PROVE /\ IsStore([store EXCEPT !.active = w])
                           /\ [store EXCEPT !.active = w].failures = store.failures
                           /\ [store EXCEPT !.active = w].retryAfter = store.retryAfter
    BY DEF IInv, Shape, IsStore
  <2> QED
    BY <2>1, NothingCounted, StoringCounts DEF SelectWallet, Fail
<1>3. GrantsNothing
  BY NothingChanges, Switching DEF SelectWallet, GrantsNothing
<1> QED
  BY <1>1, <1>2, <1>3, Ending DEF SelectWallet

LEMMA RefreshUnlockKeeps == ASSUME IInv, RefreshUnlock PROVE IInv'
<1>1. Running /\ GuessesMove
  BY AtRuns, NothingCounted DEF RefreshUnlock
<1>2. GrantsNothing
  BY DEF RefreshUnlock, GrantsNothing, IInv, Shape, IsSession
<1> QED
  BY <1>1, <1>2, Ending DEF RefreshUnlock

LEMMA LockSessionKeeps == ASSUME IInv, LockSession PROVE IInv'
<1>1. Running /\ GuessesMove
  BY NothingCounted DEF LockSession, Running, Steps
<1>2. GrantsNothing
  BY Switching DEF LockSession, GrantsNothing
<1> QED
  BY <1>1, <1>2, Ending DEF LockSession, Fail

\* A token that is used up, or taken for something it does not fit.
LEMMA Redeeming ==
  ASSUME IInv, NEW t, session' = WithoutToken(session, t), approvals' = approvals
  PROVE  GrantsNothing
BY DEF WithoutToken, GrantsNothing, IInv, Shape, IsSession

LEMMA DeleteWalletKeeps == ASSUME IInv, DeleteWallet PROVE IInv'
<1>1. Running
  BY AtRuns DEF DeleteWallet
<1>2. Done /\ GuessesMove
  <2>1. ASSUME NEW w, NEW v, v = Remaining(w)
        PROVE  IsStore(v) /\ v.failures = store.failures /\ v.retryAfter = store.retryAfter
    BY <2>1 DEF Remaining, IInv, Shape, IsStore
  <2> QED
    BY <2>1, NothingCounted, StoringCounts DEF DeleteWallet, NoToken, Fail
<1>3. GrantsNothing
  BY NothingChanges, Switching, Redeeming DEF DeleteWallet, NoToken, Redeem, GrantsNothing
<1> QED
  BY <1>1, <1>2, <1>3, Ending DEF DeleteWallet

----------------------------------------------------------------------------
(* Signatures.                                                             *)

\* No request is signed under the name of the challenge.
LEMMA OperationsAreNotNexus == ASSUME NEW k \in DOMAIN Requests PROVE Operation[k] # Nexus
<1>1. Requests[k].method \in ReviewedMethods
  BY DesktopAssumption
<1>2. Operation[k] = OperationOf(Requests[k].method)
  BY DEF Operation
<1> DEFINE entry == Requests[k].method
<1> HIDE DEF entry
<1>3. entry \in ReviewedMethods => OperationOf(entry) # Nexus
  BY DEF OperationOf, ReviewedMethods, Nexus
<1> QED
  BY <1>1, <1>2, <1>3 DEF entry

\* A call that answers with the signature of a token used up, which an
\* approval covers as long as nothing was cancelled.
LEMMA Signing ==
  ASSUME IInv, Running, NEW t \in session.tokens, session' = WithoutToken(session, t),
         call' = [pc |-> "check", canc |-> call.canc, out |-> <<t.operation, t.binding, store.active, t.id>>],
         session.seen = cancellation =>
            \E a \in approvals : Covers(a, <<t.operation, t.binding, store.active, t.id>>),
         UNCHANGED <<store, approvals, guesses, elsewhere>>
  PROVE  IInv'
<1>a. GrantsNothing /\ session'.tokens = session.tokens \ {t}
  BY Redeeming DEF WithoutToken, IInv, Shape, IsSession
<1>b. GuessesMove
  BY NothingCounted
<1>1. Shape'
  BY <1>a, <1>b DEF IInv, Shape, GrantsNothing, GuessesMove, elsewhere, IsAnswer
<1>2. CountsAgree'
  BY <1>a DEF IInv, CountsAgree, GrantsNothing, elsewhere, Running, Answering, Reloading, Steps
<1>3. TokensAreNumbered'
  <2>1. call'.out[4] = t.id /\ call'.pc = "check"
    OBVIOUS
  <2>2. \A u \in session'.tokens : u.id # t.id
    BY <1>a DEF IInv, TokensAreNumbered
  <2> QED
    BY <1>a, <2>1, <2>2 DEF IInv, TokensAreNumbered, elsewhere, Running, Answering, Steps
<1>4. CallsFit'
  BY DEF IInv, CallsFit, Running, Steps
<1>5. GrantsAreApproved'
  BY <1>a, GrantingNothing DEF elsewhere
<1>6. SignatureNeedsApproval'
  BY DEF SignatureNeedsApproval, IInv, CountsAgree, Interrupted, elsewhere, Covers
<1> QED
  BY <1>1, <1>2, <1>3, <1>4, <1>5, <1>6, <1>b DEF IInv, GuessesMove

LEMMA SignRequestKeeps == ASSUME IInv, SignRequest PROVE IInv'
<1>1. Running /\ call.method.name = "sign"
  BY AtRuns DEF SignRequest
<1> DEFINE k == call.method.request
           h == call.method.binding
<1>2. k \in DOMAIN Requests
  BY <1>1 DEF IInv, CallsFit
<1>3. CASE Fail /\ GrantsNothing
  BY <1>1, <1>3, NothingCounted, Ending DEF SignRequest, Fail
<1>4. CASE NoToken
  BY <1>3, <1>4, NothingChanges DEF NoToken, SignRequest
<1>5. ASSUME NEW t \in session.tokens, Redeem(t), Fits(t, Operation[k], h), Answer(SignatureOf(t))
      PROVE  IInv'
  <2>1. session' = WithoutToken(session, t)
    BY <1>5 DEF Redeem
  <2>2. call' = [pc |-> "check", canc |-> call.canc, out |-> <<t.operation, t.binding, store.active, t.id>>]
    BY <1>5 DEF Answer, SignatureOf
  <2>3. t.operation # Nexus /\ t.expires >= clock /\ t.wallet = store.active
    BY <1>2, <1>5, OperationsAreNotNexus DEF Fits
  <2>4. session.seen = cancellation =>
           \E a \in approvals : Covers(a, <<t.operation, t.binding, store.active, t.id>>)
    BY <2>3 DEF IInv, GrantsAreApproved, ApprovedAs, Covers
  <2> QED
    BY <1>1, <2>1, <2>2, <2>4, Signing DEF SignRequest
<1>6. ASSUME NEW t \in session.tokens, Redeem(t), Fail
      PROVE  IInv'
  BY <1>3, <1>6, Redeeming DEF SignRequest, Redeem
<1> QED
  BY <1>4, <1>5, <1>6 DEF SignRequest

LEMMA SignChallengeKeeps == ASSUME IInv, SignChallenge PROVE IInv'
<1>1. Running
  BY AtRuns DEF SignChallenge
<1>3. CASE Fail /\ GrantsNothing
  BY <1>1, <1>3, NothingCounted, Ending DEF SignChallenge, Fail
<1>4. CASE NoToken
  BY <1>3, <1>4, NothingChanges DEF NoToken, SignChallenge
<1>5. ASSUME NEW t \in session.tokens, Redeem(t), Fits(t, Nexus, "challenge"), session.nexus, Answer(SignatureOf(t))
      PROVE  IInv'
  <2>1. session' = WithoutToken(session, t)
    BY <1>5 DEF Redeem
  <2>2. call' = [pc |-> "check", canc |-> call.canc, out |-> <<t.operation, t.binding, store.active, t.id>>]
    BY <1>5 DEF Answer, SignatureOf
  <2>4. session.seen = cancellation =>
           \E a \in approvals : Covers(a, <<t.operation, t.binding, store.active, t.id>>)
    BY <1>5 DEF IInv, GrantsAreApproved, Consented, Covers, Fits
  <2> QED
    BY <1>1, <2>1, <2>2, <2>4, Signing DEF SignChallenge
<1>6. ASSUME NEW t \in session.tokens, Redeem(t), Fail
      PROVE  IInv'
  BY <1>3, <1>6, Redeeming DEF SignChallenge, Redeem
<1> QED
  BY <1>4, <1>5, <1>6 DEF SignChallenge, Nexus

LEMMA SetNexusKeeps == ASSUME IInv, SetNexus PROVE IInv'
<1>1. Running /\ GuessesMove
  BY AtRuns, NothingCounted DEF SetNexus
<1>2. CASE ~call.method.on
  <2>1. GrantsNothing
    BY <1>2, Switching DEF SetNexus, GrantsNothing
  <2> QED
    BY <1>1, <1>2, <2>1, Ending DEF SetNexus
<1>3. CASE call.method.on /\ Locked(session)
  <2>1. GrantsNothing
    BY <1>3, NothingChanges DEF SetNexus
  <2> QED
    BY <1>1, <1>3, <2>1, Ending DEF SetNexus, Fail
<1>4. CASE call.method.on /\ ~Locked(session)
  <2> DEFINE a == [operation |-> Nexus, binding |-> "challenge", wallet |-> store.active,
                   id |-> call.id, expires |-> clock, standing |-> TRUE]
  <2>1. /\ session' = [session EXCEPT !.nexus = TRUE]
        /\ call' = [pc |-> "check", canc |-> call.canc, out |-> <<>>]
        /\ approvals' = IF Interrupted THEN approvals ELSE approvals \cup {a}
    BY <1>4 DEF SetNexus, Done, Answer, Nexus
  <2>2. /\ IsSession(session') /\ session'.nexus = TRUE /\ session'.seen = session.seen
        /\ session'.tokens = session.tokens
    BY <2>1 DEF IInv, Shape, IsSession
  <2>3. UNCHANGED elsewhere
    BY DEF SetNexus
  <2>4. Shape'
    BY <1>1, <2>1, <2>2, <2>3 DEF IInv, Shape, GuessesMove, elsewhere, IsAnswer
  <2>5. CountsAgree'
    BY <2>1, <2>2, <2>3, <1>1 DEF IInv, CountsAgree, elsewhere, Running, Answering, Reloading, Steps
  <2>6. TokensAreNumbered'
    BY <2>1, <2>2, <2>3 DEF IInv, TokensAreNumbered, elsewhere, Running, Answering, Steps
  <2>7. CallsFit'
    BY <2>1 DEF CallsFit, Running, Steps
  <2>8. GrantsAreApproved'
    <3> SUFFICES ASSUME session.seen = cancellation
                 PROVE  /\ \A t \in session.tokens : t.operation # Nexus /\ t.expires >= clock => ApprovedAs(t)'
                        /\ Consented'
      BY <2>2, <2>3 DEF GrantsAreApproved, elsewhere
    <3>1. approvals' = approvals \cup {a}
      BY <1>1, <2>1 DEF IInv, CountsAgree, Interrupted
    <3>2. Consented'
      <4>1. a \in approvals' /\ a.standing /\ a.operation = Nexus
        BY <3>1
      <4> QED
        BY <4>1 DEF Consented
    <3>3. \A t \in session.tokens : t.operation # Nexus /\ t.expires >= clock => ApprovedAs(t)'
      BY <3>1 DEF IInv, GrantsAreApproved, ApprovedAs
    <3> QED
      BY <3>2, <3>3
  <2>9. SignatureNeedsApproval'
    BY <2>1 DEF SignatureNeedsApproval
  <2> QED
    BY <1>1, <2>4, <2>5, <2>6, <2>7, <2>8, <2>9 DEF IInv, GuessesMove
<1> QED
  BY <1>2, <1>3, <1>4

LEMMA DispatchKeeps == ASSUME IInv, Dispatch PROVE IInv'
BY PrepareKeeps, AuthorizeKeeps, AgreeToReviewKeeps, NeedKeyKeeps, RightPasswordKeeps, WrongPasswordKeeps,
   NewPasswordKeeps, AddWalletKeeps, RestoreKeeps, SignRequestKeeps, SignChallengeKeeps, DeleteWalletKeeps,
   SelectWalletKeeps, SetNexusKeeps, RefreshUnlockKeeps, LockSessionKeeps, DismissKeeps DEF Dispatch

----------------------------------------------------------------------------
(* The arrival and the end of a call.                                      *)

LEMMA ArriveKeeps == ASSUME IInv, Arrive PROVE IInv'
<1> DEFINE q == [id |-> left.calls, canc |-> cancellation, locks |-> locks]
<1>1. /\ left.calls \in Nat /\ left.calls > 0 /\ left'.calls = left.calls - 1
      /\ left' \in [{"calls", "cancels", "locks", "restarts", "minutes"} -> Nat]
  BY DEF Arrive, IInv, Shape
<1>2. queued' = queued \cup {q} /\ q.id = left.calls /\ q.canc = cancellation
  BY DEF Arrive
<1> HIDE DEF q
<1>3. UNCHANGED <<store, session, cancellation, call, clock, approvals, guesses>>
  BY DEF Arrive, history
<1>4. Shape'
  BY <1>1, <1>3 DEF IInv, Shape, Running, IsRunning, IsAnswer
<1>5. CountsAgree'
  BY <1>2, <1>3 DEF IInv, CountsAgree, Running, Answering, Reloading
<1>6. TokensAreNumbered'
  <2>1. \A r \in queued : r.id \in Nat /\ left.calls < r.id
    BY DEF IInv, TokensAreNumbered
  <2>2. \A r \in queued' : r.id \in Nat /\ left'.calls < r.id
    BY <1>1, <1>2, <2>1
  <2>3. \A r, u \in queued' : r.id = u.id => r = u
    BY <1>1, <1>2, <2>1 DEF IInv, TokensAreNumbered
  <2>4. \A t \in session'.tokens : t.id \in Nat /\ t.expires \in Nat /\ left'.calls < t.id /\ \A r \in queued' : r.id # t.id
    BY <1>1, <1>2, <1>3 DEF IInv, TokensAreNumbered
  <2>5. Running' => left'.calls < call'.id /\ \A r \in queued' : r.id # call'.id
    BY <1>1, <1>2, <1>3 DEF IInv, TokensAreNumbered, Running, Shape, IsRunning, IsAnswer, Steps
  <2> QED
    BY <1>3, <2>2, <2>3, <2>4, <2>5 DEF IInv, TokensAreNumbered, Running, Answering
<1>7. CallsFit' /\ GrantsAreApproved' /\ GuessesAreCounted' /\ SignatureNeedsApproval'
  BY <1>3 DEF IInv, CallsFit, Running, GrantsAreApproved, ApprovedAs, Consented, GuessesAreCounted,
              SignatureNeedsApproval, Interrupted
<1> QED
  BY <1>4, <1>5, <1>6, <1>7 DEF IInv

\* A wipe leaves no grants, whichever way it goes.
LEMMA Wiping ==
  ASSUME IInv, NEW s, s = Wiped(session)
  PROVE  IsSession(s) /\ s.tokens = {} /\ s.nexus = FALSE /\ s.seen = session.seen
BY Switching DEF Wiped

LEMMA EnterKeeps == ASSUME IInv, Enter PROVE IInv'
<1>1. PICK q \in queued, m \in Methods :
        /\ queued' = queued \ {q}
        /\ call' = [id |-> q.id, method |-> m, canc |-> q.canc, locks |-> q.locks, pc |-> "dispatch", agreed |-> FALSE]
        /\ IF session.seen # q.canc
           THEN session' = Pruned([Wiped(session) EXCEPT !.seen = q.canc]) ELSE session' = Pruned(session)
  BY DEF Enter
<1>2. UNCHANGED <<store, cancellation, clock, approvals, guesses, left>>
  BY DEF Enter, history
<1>3. /\ IsSession(session') /\ session'.nexus \in BOOLEAN /\ session'.seen = q.canc
      /\ \/ session'.tokens = {} /\ ~session'.nexus
         \/ session'.tokens \subseteq session.tokens /\ session'.nexus = session.nexus /\ session'.seen = session.seen
  <2>1. CASE session.seen = q.canc
    BY <1>1, <2>1 DEF Pruned, IInv, Shape, IsSession
  <2>2. CASE session.seen # q.canc
    <3> DEFINE s == [Wiped(session) EXCEPT !.seen = q.canc]
    <3>1. \A w : IsSession(w) /\ w.tokens = {} /\ w.nexus = FALSE =>
                   \A v : v = [w EXCEPT !.seen = q.canc] => IsSession(v) /\ v.tokens = {} /\ v.nexus = FALSE /\ v.seen = q.canc
      BY DEF IsSession
    <3>2. IsSession(s) /\ s.tokens = {} /\ s.nexus = FALSE /\ s.seen = q.canc
      BY <3>1, Wiping
    <3>3. session' = Pruned(s)
      BY <1>1, <2>2
    <3> HIDE DEF s
    <3> QED
      BY <3>2, <3>3 DEF Pruned, IsSession
  <2> QED
    BY <2>1, <2>2
<1>4. Shape'
  BY <1>1, <1>2, <1>3 DEF IInv, Shape, TokensAreNumbered, IsRunning, Steps
<1>5. CountsAgree'
  BY <1>1, <1>2, <1>3 DEF IInv, CountsAgree, Running, Answering, Reloading, Steps
<1>6. TokensAreNumbered'
  BY <1>1, <1>2, <1>3 DEF IInv, TokensAreNumbered, Running, Answering, Steps
<1>7. CallsFit'
  <2>1. m.name = "sign" => m.request \in DOMAIN Requests
    BY DEF Methods
  <2> QED
    BY <1>1, <2>1 DEF CallsFit, Running
<1>8. GrantsAreApproved'
  BY <1>2, <1>3 DEF IInv, GrantsAreApproved, ApprovedAs, Consented
<1>9. GuessesAreCounted' /\ SignatureNeedsApproval'
  BY <1>1, <1>2 DEF IInv, GuessesAreCounted, SignatureNeedsApproval
<1> QED
  BY <1>4, <1>5, <1>6, <1>7, <1>8, <1>9 DEF IInv

LEMMA ReturnKeeps == ASSUME IInv, Return PROVE IInv'
<1>1. /\ Answering /\ call' = <<>>
      /\ approvals' = {a \in approvals : a.standing \/ ~Covers(a, call.out)}
      /\ UNCHANGED <<store, session, cancellation, queued, clock, guesses, left>>
  BY DEF Return, Answering
<1>2. Shape'
  BY <1>1 DEF IInv, Shape
<1>3. CountsAgree'
  BY <1>1 DEF IInv, CountsAgree, Running, Answering, Reloading
<1>4. TokensAreNumbered'
  BY <1>1 DEF IInv, TokensAreNumbered, Running, Answering
<1>5. CallsFit'
  BY <1>1 DEF CallsFit, Running
<1>6. GrantsAreApproved'
  <2> SUFFICES ASSUME session.seen = cancellation
               PROVE  /\ \A t \in session.tokens : t.operation # Nexus /\ t.expires >= clock => ApprovedAs(t)'
                      /\ session.nexus => Consented'
    BY <1>1 DEF GrantsAreApproved
  <2>1. session.nexus => Consented'
    BY <1>1 DEF IInv, GrantsAreApproved, Consented
  <2>2. ASSUME NEW t \in session.tokens, t.operation # Nexus, t.expires >= clock
        PROVE  ApprovedAs(t)'
    <3>1. PICK a \in approvals : /\ ~a.standing /\ a.id = t.id /\ a.expires = t.expires
                                 /\ a.operation = t.operation /\ a.binding = t.binding /\ a.wallet = t.wallet
      BY <2>2 DEF IInv, GrantsAreApproved, ApprovedAs
    <3>2. call.out # <<>> => t.id # call.out[4]
      BY <1>1 DEF IInv, TokensAreNumbered
    <3>3. ~Covers(a, call.out)
      <4>1. ASSUME call.out = <<a.operation, a.binding, a.wallet, a.id>> PROVE FALSE
        BY <3>1, <3>2, <4>1
      <4> QED
        BY <3>1, <4>1 DEF Covers
    <3> QED
      BY <1>1, <3>1, <3>3 DEF ApprovedAs
  <2> QED
    BY <2>1, <2>2
<1>7. GuessesAreCounted' /\ SignatureNeedsApproval'
  BY <1>1 DEF IInv, GuessesAreCounted, SignatureNeedsApproval
<1> QED
  BY <1>2, <1>3, <1>4, <1>5, <1>6, <1>7 DEF IInv

LEMMA RefuseKeeps == ASSUME IInv, Refuse PROVE IInv'
<1>1. /\ call' = [pc |-> "reload"] /\ session' = Wiped(session)
      /\ UNCHANGED <<store, cancellation, queued, clock, approvals, guesses, left>>
  BY DEF Refuse, history
<1>2. IsSession(session') /\ session'.tokens = {} /\ session'.nexus = FALSE /\ session'.seen = session.seen
  BY <1>1, Wiping
<1>3. Shape'
  BY <1>1, <1>2 DEF IInv, Shape
<1>4. CountsAgree' /\ TokensAreNumbered' /\ CallsFit' /\ GrantsAreApproved'
  BY <1>1, <1>2 DEF IInv, CountsAgree, TokensAreNumbered, CallsFit, GrantsAreApproved, Running, Answering, Reloading, Steps
<1>5. GuessesAreCounted' /\ SignatureNeedsApproval'
  BY <1>1 DEF IInv, GuessesAreCounted, SignatureNeedsApproval
<1> QED
  BY <1>3, <1>4, <1>5 DEF IInv

LEMMA ReloadKeeps == ASSUME IInv, Reload PROVE IInv'
<1>1. /\ call' = <<>> /\ session' = [session EXCEPT !.seen = cancellation]
      /\ UNCHANGED <<store, cancellation, queued, clock, approvals, guesses, left>>
  BY DEF Reload, history
<1>2. session.tokens = {} /\ ~session.nexus
  BY DEF Reload, IInv, CountsAgree, Reloading
<1>3. /\ IsSession(session') /\ session'.tokens = {} /\ session'.nexus = session.nexus /\ session'.seen = cancellation
  BY <1>1, <1>2 DEF IInv, Shape, IsSession
<1>4. Shape'
  BY <1>1, <1>3 DEF IInv, Shape
<1>5. CountsAgree' /\ TokensAreNumbered' /\ CallsFit' /\ GrantsAreApproved'
  BY <1>1, <1>2, <1>3 DEF IInv, CountsAgree, TokensAreNumbered, CallsFit, GrantsAreApproved, Running, Answering, Reloading
<1>6. GuessesAreCounted' /\ SignatureNeedsApproval'
  BY <1>1 DEF IInv, GuessesAreCounted, SignatureNeedsApproval
<1> QED
  BY <1>4, <1>5, <1>6 DEF IInv

----------------------------------------------------------------------------
(* The other threads, the end of the program, and time.                    *)

\* The bounds go down, the number of calls that may still arrive does not.
Spends ==
  /\ left' \in [{"calls", "cancels", "locks", "restarts", "minutes"} -> Nat]
  /\ left'.calls = left.calls

\* A cancellation ends every approval, and no session has seen it yet.
LEMMA Cancelling ==
  ASSUME IInv, Spends, cancellation' = cancellation + 1, approvals' = {},
         UNCHANGED <<store, session, call, queued, clock, guesses>>
  PROVE  IInv'
<1>1. Shape'
  BY DEF IInv, Shape, Spends, IsRunning, IsAnswer
<1>2. CountsAgree'
  BY DEF IInv, CountsAgree, Running, Answering, Reloading
<1>3. TokensAreNumbered' /\ CallsFit' /\ GuessesAreCounted'
  BY DEF IInv, TokensAreNumbered, CallsFit, GuessesAreCounted, Spends, Running, Answering
<1>4. GrantsAreApproved'
  BY DEF IInv, CountsAgree, GrantsAreApproved
<1>5. SignatureNeedsApproval'
  BY DEF IInv, CountsAgree, SignatureNeedsApproval, Interrupted, Answering
<1> QED
  BY <1>1, <1>2, <1>3, <1>4, <1>5 DEF IInv

LEMMA CancelKeeps == ASSUME IInv, Cancel PROVE IInv'
<1>1. Spends
  BY DEF Cancel, Spends, IInv, Shape
<1> QED
  BY <1>1, Cancelling DEF Cancel

LEMMA LockForgetKeeps == ASSUME IInv, LockForget PROVE IInv'
<1>1. Spends
  BY DEF LockForget, Spends, IInv, Shape
<1>2. UNCHANGED <<store, session, cancellation, call, queued, clock, approvals, guesses>>
  BY DEF LockForget, history
<1>3. Shape'
  BY <1>1, <1>2 DEF IInv, Shape, Spends, IsRunning, IsAnswer
<1>4. CountsAgree' /\ TokensAreNumbered' /\ CallsFit' /\ GuessesAreCounted'
  BY <1>1, <1>2 DEF IInv, CountsAgree, TokensAreNumbered, CallsFit, GuessesAreCounted, Spends, Running, Answering, Reloading
<1>5. GrantsAreApproved' /\ SignatureNeedsApproval'
  BY <1>2 DEF IInv, GrantsAreApproved, ApprovedAs, Consented, SignatureNeedsApproval, Interrupted
<1> QED
  BY <1>3, <1>4, <1>5 DEF IInv

LEMMA LockCancelKeeps == ASSUME IInv, LockCancel PROVE IInv'
<1>1. Spends
  BY DEF LockCancel, Spends, IInv, Shape
<1> QED
  BY <1>1, Cancelling DEF LockCancel

LEMMA LockTryWipeKeeps == ASSUME IInv, LockTryWipe PROVE IInv'
<1>1. /\ session' = IF call = <<>> THEN Invalidated(session) ELSE session
      /\ UNCHANGED <<store, cancellation, call, queued, clock, approvals, guesses, left>>
  BY DEF LockTryWipe
<1>2. /\ IsSession(session') /\ session'.nexus \in BOOLEAN /\ session'.seen = session.seen
      /\ session'.tokens \subseteq session.tokens /\ (session'.nexus => session.nexus)
  BY <1>1, Switching DEF IInv, Shape
<1>3. Shape'
  BY <1>1, <1>2 DEF IInv, Shape, IsRunning, IsAnswer
<1>4. CountsAgree' /\ TokensAreNumbered' /\ CallsFit' /\ GuessesAreCounted'
  BY <1>1, <1>2 DEF IInv, CountsAgree, TokensAreNumbered, CallsFit, GuessesAreCounted, Running, Answering, Reloading
<1>5. GrantsAreApproved' /\ SignatureNeedsApproval'
  BY <1>1, <1>2 DEF IInv, GrantsAreApproved, ApprovedAs, Consented, SignatureNeedsApproval, Interrupted
<1> QED
  BY <1>3, <1>4, <1>5 DEF IInv

LEMMA RestartKeeps == ASSUME IInv, Restart PROVE IInv'
<1>1. Spends
  BY DEF Restart, Spends, IInv, Shape
<1>2. /\ session' = NewSession /\ cancellation' = 0 /\ call' = <<>> /\ queued' = {}
      /\ UNCHANGED <<store, clock, guesses>>
  BY DEF Restart
<1>3. Shape'
  BY <1>1, <1>2 DEF IInv, Shape, Spends, NewSession, IsSession
<1>4. CountsAgree' /\ TokensAreNumbered' /\ CallsFit' /\ GrantsAreApproved'
  BY <1>2 DEF CountsAgree, TokensAreNumbered, CallsFit, GrantsAreApproved, NewSession, Running, Answering, Reloading
<1>5. GuessesAreCounted' /\ SignatureNeedsApproval'
  BY <1>2 DEF IInv, GuessesAreCounted, SignatureNeedsApproval
<1> QED
  BY <1>3, <1>4, <1>5 DEF IInv

LEMMA MinuteKeeps == ASSUME IInv, Minute PROVE IInv'
<1>1. Spends /\ clock' = clock + 1 /\ clock \in Nat \ {0}
  BY DEF Minute, Spends, IInv, Shape
<1>2. /\ approvals' = {a \in approvals : a.standing \/ a.expires > clock \/ Signed(a)}
      /\ UNCHANGED <<store, session, cancellation, call, queued, guesses>>
  BY DEF Minute
<1>3. Shape'
  BY <1>1, <1>2 DEF IInv, Shape, Spends, IsRunning, IsAnswer
<1>4. CountsAgree' /\ TokensAreNumbered'
  BY <1>1, <1>2 DEF IInv, CountsAgree, TokensAreNumbered, Spends, Running, Answering, Reloading
<1>5. CallsFit' /\ GuessesAreCounted'
  BY <1>1, <1>2 DEF IInv, Shape, CallsFit, GuessesAreCounted, Running
<1>6. GrantsAreApproved'
  <2> SUFFICES ASSUME session.seen = cancellation
               PROVE  /\ \A t \in session.tokens : t.operation # Nexus /\ t.expires >= clock + 1 => ApprovedAs(t)'
                      /\ session.nexus => Consented'
    BY <1>1, <1>2 DEF GrantsAreApproved
  <2>1. session.nexus => Consented'
    BY <1>2 DEF IInv, GrantsAreApproved, Consented
  <2>2. ASSUME NEW t \in session.tokens, t.operation # Nexus, t.expires \in Int, t.expires >= clock + 1
        PROVE  ApprovedAs(t)'
    <3>1. t.expires >= clock /\ t.expires > clock
      BY <1>1, <2>2
    <3>2. PICK a \in approvals : /\ ~a.standing /\ a.id = t.id /\ a.expires = t.expires
                                 /\ a.operation = t.operation /\ a.binding = t.binding /\ a.wallet = t.wallet
      BY <2>2, <3>1 DEF IInv, GrantsAreApproved, ApprovedAs
    <3> QED
      BY <1>2, <3>1, <3>2 DEF ApprovedAs
  <2> QED
    BY <2>1, <2>2 DEF IInv, TokensAreNumbered
<1>7. SignatureNeedsApproval'
  BY <1>2 DEF IInv, SignatureNeedsApproval, Interrupted, Signed
<1> QED
  BY <1>3, <1>4, <1>5, <1>6, <1>7 DEF IInv

LEMMA SessionKeeps == ASSUME IInv, SessionNext PROVE IInv'
BY ArriveKeeps, EnterKeeps, DispatchKeeps, ReturnKeeps, RefuseKeeps, ReloadKeeps, CancelKeeps, LockForgetKeeps,
   LockCancelKeeps, LockTryWipeKeeps, RestartKeeps, MinuteKeeps DEF SessionNext

\* What the other host does leaves the session where it is.
LEMMA ElsewhereKeeps == ASSUME IInv, UNCHANGED desktopVars PROVE IInv'
<1>1. UNCHANGED <<store, session, cancellation, call, queued, clock, approvals, guesses, left>>
  BY DEF desktopVars
<1>2. Shape' /\ CountsAgree' /\ TokensAreNumbered' /\ CallsFit'
  BY <1>1 DEF IInv, Shape, IsRunning, IsAnswer, CountsAgree, TokensAreNumbered, CallsFit, Running, Answering, Reloading
<1>3. GrantsAreApproved' /\ GuessesAreCounted' /\ SignatureNeedsApproval'
  BY <1>1 DEF IInv, GrantsAreApproved, ApprovedAs, Consented, GuessesAreCounted, SignatureNeedsApproval, Interrupted
<1> QED
  BY <1>2, <1>3 DEF IInv

LEMMA InitIsFine == ASSUME Init PROVE IInv
<1>1. CASE NoSession
  BY <1>1, Initially DEF NoSession
<1>2. CASE SessionInit
  <2>1. PICK play \in Plays : SessionStart(play.methods, play.left)
    BY <1>2 DEF SessionInit
  <2>2. play.left \in [{"calls", "cancels", "locks", "restarts", "minutes"} -> Nat]
    BY DesktopAssumption
  <2> QED
    BY <2>1, <2>2, Initially
<1> QED
  BY <1>1, <1>2 DEF Init

\* In every host and at every moment the tokens, counts and dialogs of the
\* Windows shell are as IInv says; the type of the session is part of it.
THEOREM Invariance == Spec => []IInv
<1>1. Init => IInv
  BY InitIsFine
<1>2. IInv /\ [Next]_vars => IInv'
  <2> SUFFICES ASSUME IInv, [Next]_vars PROVE IInv'
    OBVIOUS
  <2>1. CASE SessionNext
    BY <2>1, SessionKeeps
  <2>2. CASE UNCHANGED desktopVars
    BY <2>2, ElsewhereKeeps
  <2> QED
    BY <2>1, <2>2 DEF Next, vars
<1> QED
  BY <1>1, <1>2, PTL DEF Spec

\* Every signature that leaves the Windows shell was agreed to by the user
\* and not revoked since, with any number of calls, cancellations, locks,
\* restarts and minutes between the review and the answer.
THEOREM SignaturesNeedApproval == Spec => []SignatureNeedsApproval
<1>1. IInv => SignatureNeedsApproval
  BY DEF IInv
<1> QED
  BY <1>1, Invariance, PTL

\* However often the program is closed, reopened, cancelled or left waiting,
\* every wrong password beyond MaxFailures costs a minute.
THEOREM GuessesStayThrottled == Spec => []GuessesAreThrottled
<1>1. IInv => GuessesAreThrottled
  <2> SUFFICES ASSUME IInv PROVE guesses < MaxFailures + clock
    BY DEF GuessesAreThrottled
  <2>1. /\ guesses \in Nat /\ clock \in Nat \ {0} /\ store.retryAfter \in Nat /\ store.retryAfter <= clock + 1
        /\ guesses >= MaxFailures => guesses - MaxFailures + 2 <= store.retryAfter
    BY DEF IInv, Shape, GuessesAreCounted
  <2>2. CASE guesses >= MaxFailures
    BY <2>1, <2>2, SomeFailures
  <2>3. CASE ~(guesses >= MaxFailures)
    BY <2>1, <2>3, SomeFailures
  <2> QED
    BY <2>2, <2>3
<1> QED
  BY <1>1, Invariance, PTL
=============================================================================
