-------------------------- MODULE CaptureLifecycle --------------------------
(***************************************************************************)
(* What the detector promises the rest of the application: capture         *)
(* sessions never overlap, a start is announced only when one begins, and  *)
(* a session ends with a terminal announcement before the next start.      *)
(* An error is announced with the same variant whether it ends a session,  *)
(* refuses one, or is survived, so only RecordingFinished and              *)
(* RecordingDiscarded tell by themselves that a session is over.  Quitting *)
(* the app is the one way a session may disappear without an announcement. *)
(***************************************************************************)

VARIABLES session,  \* is a recorder running?
          event     \* the last event announced to the application

Terminal == {"RecordingFinished", "RecordingDiscarded", "Error"}

Init == /\ session = FALSE
        /\ event = "none"

Begin == /\ ~session
         /\ session' = TRUE
         /\ event' = "RecordingStarted"

\* A recorder that could not be opened, or a failure that leaves a session, if
\* there is one, running.
Report == /\ event' = "Error"
          /\ UNCHANGED session

\* The last announcement before the end is the start, or an error survived since.
End == /\ session
       /\ event \in {"RecordingStarted", "Error"}
       /\ session' = FALSE
       /\ event' \in Terminal

Quit == /\ session' = FALSE
        /\ event' = "none"

Next == Begin \/ Report \/ End \/ Quit

vars == <<session, event>>

Spec == Init /\ [][Next]_vars
=============================================================================
