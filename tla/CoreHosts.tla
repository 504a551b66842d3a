------------------------------ MODULE CoreHosts ------------------------------
(***************************************************************************)
(* The core in its hosts.  The Android bindings and the extension keep no  *)
(* state between a review and its signature (CoreSigning); the Windows     *)
(* shell puts a session of reviews, tokens and the password between them   *)
(* (DesktopSession).  Both reach the same PrepareAs and SignAs.            *)
(***************************************************************************)
EXTENDS CoreSigning, DesktopSession

VARIABLE host       \* "bindings" or "windows"

vars == <<host, signingVars, desktopVars>>

\* The state of the other host does not move.
NoRequest ==
  /\ method = "prepareTransaction" /\ req = <<>> /\ edits = 0 /\ shown = <<>> /\ out = <<>> /\ final = <<>>
  /\ amends = 0 /\ sent = 0 /\ ledger = {}
NoSession == SessionStart({}, [calls |-> 0, cancels |-> 0, locks |-> 0, restarts |-> 0, minutes |-> 0])

Init ==
  \/ host = "bindings" /\ SigningInit /\ NoSession
  \/ host = "windows" /\ SessionInit /\ NoRequest

Next ==
  \/ host = "bindings" /\ SigningNext /\ UNCHANGED <<host, desktopVars>>
  \/ host = "windows" /\ SessionNext /\ UNCHANGED <<host, signingVars>>

\* The Windows host alone.
WindowsSpec == host = "windows" /\ SessionInit /\ NoRequest /\ [][Next]_vars

Spec == Init /\ [][Next]_vars
=============================================================================
