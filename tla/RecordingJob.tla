---------------------------- MODULE RecordingJob ----------------------------
(***************************************************************************)
(* The durable job of one recording (crates/corti-jobs): its payload, the  *)
(* monotone merge of payloads, and what each recording operation of the    *)
(* jobs table makes of a row.  These operators are shared by Jobs, which   *)
(* checks the table, and by Pipeline, which uses it.                       *)
(*                                                                         *)
(* A payload holds the note the recording owns (preferred_note), whether   *)
(* that note is canonical, the backend of the first ASR (original_backend),*)
(* the first-attempt permission (first_batch), whether the capture was     *)
(* finished (capture_finished) and the settled quality facts.              *)
(***************************************************************************)
EXTENDS Naturals

CONSTANTS
    Notes,     \* note paths
    NoNote,    \* no preferred_note
    Backends,  \* ASR backends
    Unknown,   \* no original_backend
    Facts      \* quality facts

ASSUME NoNoteAssumption == NoNote \notin Notes
ASSUME UnknownAssumption == Unknown \notin Backends

Payload == [note : Notes \cup {NoNote}, canonical : BOOLEAN,
            origin : Backends \cup {Unknown}, first : BOOLEAN,
            finished : BOOLEAN, quality : SUBSET Facts]

\* A payload that names the recording only (id_payload).
Blank == [note |-> NoNote, canonical |-> FALSE, origin |-> Unknown, first |-> FALSE,
          finished |-> FALSE, quality |-> {}]

JobStates == {"pending", "running", "failed"}
Job == [state : JobStates, attempts : Nat, max : Nat, payload : Payload]
NoJob == [state |-> "none"]

-----------------------------------------------------------------------------

\* An incoming note is taken over when the job owns none, or owns a partial one
\* and the incoming one is canonical.
Promotes(existing, incoming) ==
    /\ incoming.note # NoNote
    /\ existing.note = NoNote \/ (incoming.canonical /\ ~existing.canonical)

\* Mutant: the incoming note always replaces the owned one.
MergeOverwrites(existing, incoming) ==
    [existing EXCEPT !.quality = @ \cup incoming.quality,
                     !.note = IF incoming.note # NoNote THEN incoming.note ELSE @,
                     !.canonical = IF incoming.note # NoNote THEN incoming.canonical ELSE @]

\* merge_recording_payload: origin and flags of the existing payload stay.
Merge(existing, incoming) ==
    [existing EXCEPT
        !.quality = @ \cup incoming.quality,
        !.note = IF Promotes(existing, incoming) THEN incoming.note ELSE @,
        !.canonical = IF Promotes(existing, incoming) THEN incoming.canonical ELSE @]

NewJob(payload, max) ==
    [state |-> "pending", attempts |-> 0, max |-> max, payload |-> payload]

\* enqueue_recording on an existing row: only the payload may change.
EnqueueOn(job, payload) == [job EXCEPT !.payload = Merge(@, payload)]

\* Explicit manual retry consumes the first-attempt permission.
Consumed(payload) == [payload EXCEPT !.first = FALSE]

\* Mutant: a manual retry restarts active work too.
RearmRestarts(job, payload, max) == NewJob(Consumed(Merge(job.payload, payload)), max)

\* rearm_failed_recording on an existing row: only a parked failure gets the new
\* budget; active work keeps its claim and its attempts.
RearmOn(job, payload, max) ==
    LET merged == Consumed(Merge(job.payload, payload))
    IN IF job.state = "failed" THEN NewJob(merged, max)
                               ELSE [job EXCEPT !.payload = merged]

\* claim_due: the attempt is counted before the handler runs.
Claimed(job) == [job EXCEPT !.state = "running", !.attempts = @ + 1]

\* recording_claim: the row is still running the attempt this claim holds.
ClaimHolds(job, claim) == job.state = "running" /\ job.attempts = claim.attempts

\* The claim as finish_job presents it: a handler that failed after its note was
\* filed returns the path, and retry_payload_with_note adds it to the payload.
Presented(claim, note) ==
    IF note = NoNote THEN claim
    ELSE [claim EXCEPT !.payload.note = note, !.payload.canonical = TRUE]

\* fail_recording and reschedule_recording settle with the claim's payload merged
\* into whatever the row holds by now.
Failed(job, claim) ==
    [job EXCEPT !.payload = Merge(@, claim.payload),
                !.state = IF claim.attempts < job.max THEN "pending" ELSE "failed"]
Rescheduled(job, claim) ==
    [job EXCEPT !.payload = Merge(@, claim.payload), !.state = "pending"]

\* Mutant: recovery hands the crashed attempt back.
RecoveredFree(job) ==
    IF job.state = "running" THEN [job EXCEPT !.state = "pending", !.attempts = @ - 1] ELSE job

\* recover_running
Recovered(job) == IF job.state = "running" THEN [job EXCEPT !.state = "pending"] ELSE job
=============================================================================
