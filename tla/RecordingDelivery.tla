-------------------------- MODULE RecordingDelivery --------------------------
(***************************************************************************)
(* What the pipeline promises about one recording, as its row in the        *)
(* recordings table shows it.  A tracked recording is open until it is      *)
(* done, with the note it was filed as, or failed.  Done is final until the *)
(* row is forgotten, and a recording never loses its note: the path may be  *)
(* replaced, by a live session reporting late even on a done recording, but *)
(* not cleared.  A failed recording can be opened again.                    *)
(***************************************************************************)
CONSTANTS Notes, NoNote

VARIABLES phase, note

vars == <<phase, note>>

Phases == {"untracked", "open", "done", "failed"}

\* The phases of JobStatus and the note paths.
TypeOK == phase \in Phases /\ note \in Notes \cup {NoNote}

\* A new recording, or one an earlier version left open.
Init == phase \in {"untracked", "open"} /\ note = NoNote

Track == phase = "untracked" /\ phase' = "open" /\ note' = NoNote
Own(n) == phase # "untracked" /\ note' = n /\ UNCHANGED phase
Finish(n) == phase = "open" /\ phase' = "done" /\ note' = n
Fail(n) == phase = "open" /\ phase' = "failed" /\ note' = n
Retry == phase = "failed" /\ phase' = "open" /\ UNCHANGED note
Forget == phase \in {"done", "failed"} /\ phase' = "untracked" /\ note' = NoNote

Next == \/ Track \/ Retry \/ Forget
        \/ \E n \in Notes : Own(n) \/ Finish(n)
        \/ \E n \in Notes \cup {NoNote} : Fail(n)

Spec == Init /\ [][Next]_vars
=============================================================================
