------------------------------ MODULE Pipeline ------------------------------
(***************************************************************************)
(* One recording on its way through the pipeline thread (app/src/pipeline,  *)
(* app/src/jobs): from the live session and the end of the call, through    *)
(* the durable job, transcription, the filing checkpoint and the note, to a *)
(* terminal row of the recordings table.                                    *)
(*                                                                          *)
(* Every durable write is a step of its own, which may fail, and the        *)
(* process may die between any two steps and start again.  What survives is *)
(* in `disk`: the row, the job, the filing checkpoint, the audio file and   *)
(* the notes.  `w` is the pipeline thread: where it is and its locals.      *)
(***************************************************************************)
EXTENDS RecordingJob, FiniteSets, Sequences

CONSTANTS
    Local, Aws,  \* the ASR backends; a live session always decodes locally
    Retries,     \* RETRY_MAX_ATTEMPTS
    Faults,      \* the kinds of operation that may fail
    MaxFaults, MaxCrashes, MaxManual  \* how many failures, crashes and manual retries

ASSUME BackendsAssumption == Local \in Backends /\ Aws \in Backends /\ Local # Aws
ASSUME BoundsAssumption ==
    Retries \in Nat \ {0} /\ MaxFaults \in Nat /\ MaxCrashes \in Nat /\ MaxManual \in Nat

VARIABLES
    disk,        \* row, job, ckpt, audio, notes and the notes moved out of the inbox
    w,           \* the pipeline thread
    inbox,       \* its channel of messages, in order
    live,        \* the call and its live transcription session
    configured,  \* the backend of the current Settings
    spent,       \* faults, crashes and manual retries so far
    log          \* history: ASR runs, backends that decoded, transcripts sent out

vars == <<disk, w, inbox, live, configured, spent, log>>

-----------------------------------------------------------------------------
(* Rows, checkpoints and notes                                             *)

Settled == {"Done", "Failed"}
InProgress == {"PendingTranscription", "Transcribing", "PendingNote"}
NoRow == [status |-> "none", note |-> NoNote, attempted |-> FALSE]
NewRow == [NoRow EXCEPT !.status = "PendingTranscription"]
NoCkpt == [valid |-> FALSE, note |-> NoNote, canonical |-> FALSE,
           origin |-> Unknown, full |-> FALSE]

\* An owned note, and the Option operations on it.
None == [note |-> NoNote, canonical |-> FALSE]
OwnedNote(x) == [note |-> x.note, canonical |-> x.canonical]
Partial(n) == [note |-> n, canonical |-> FALSE]
Or(a, b) == IF a.note # NoNote THEN a ELSE b
IfCanonical(a) == IF a.canonical THEN a ELSE None

\* A canonical note beats a partial one; at equal standing the checkpoint beats
\* the job's payload, and the row comes last.
AuthoritativeNote(ckpt, payload, path) ==
    Or(IfCanonical(OwnedNote(ckpt)), Or(IfCanonical(OwnedNote(payload)),
       Or(OwnedNote(ckpt), Or(OwnedNote(payload), Partial(path)))))

\* A note is open while its state line reads "transcribing"; it is whole once it
\* holds the full transcript, closed when it was settled without it, and spoiled
\* when a whole one is marked incomplete.
Exists(n) == n # NoNote /\ disk.notes[n] # "absent" /\ n \notin disk.moved
MarkIncomplete(content) == IF content \in {"whole", "spoiled"} THEN "spoiled" ELSE "closed"
FreshNotes == {n \in Notes : disk.notes[n] = "absent"}
NewNote == CHOOSE n \in FreshNotes : TRUE
SetNote(n, content) == [disk EXCEPT !.notes[n] = content]

SetStatus(s) == [disk EXCEPT !.row.status = s]
\* JobUpdate: a note path is written only when there is one.
SetRow(s, n) == [disk EXCEPT !.row.status = s, !.row.note = IF n = NoNote THEN @ ELSE n]

Arm(payload, max) ==
    [disk EXCEPT !.job = IF @ = NoJob THEN NewJob(payload, max) ELSE EnqueueOn(@, payload)]

RetryStatus ==
    IF disk.row.status = "PendingNote" \/ disk.ckpt.valid THEN "PendingNote"
                                                          ELSE "PendingTranscription"

-----------------------------------------------------------------------------
(* The thread                                                              *)

Idle == [pc |-> "idle", claim |-> NoJob, note |-> None, err |-> None, ck |-> NoCkpt,
         stored |-> FALSE, why |-> "none"]

At(pc) == w.pc = pc
To(pc) == [w EXCEPT !.pc = pc]

\* How the current operation returns to its caller: the job loop, or the handler
\* of Process.
Ok == IF w.claim # NoJob THEN To("settle") ELSE Idle
Error == To(IF w.claim # NoJob THEN "failed" ELSE "schedule")
FailWith(why, note) == [w EXCEPT !.pc = "fail", !.why = why, !.note = note]

\* A fallible operation either saves its effect or leaves the disk alone.
Outcome(kind, ok) ==
    /\ ok \/ (kind \in Faults /\ spent.faults < MaxFaults)
    /\ spent' = IF ok THEN spent ELSE [spent EXCEPT !.faults = @ + 1]
Write(kind, saved, good, bad) ==
    \E ok \in BOOLEAN : /\ Outcome(kind, ok)
                        /\ disk' = IF ok THEN saved ELSE disk
                        /\ w' = IF ok THEN good ELSE bad
Goto(next) == w' = next /\ UNCHANGED <<disk, spent>>
Inside == UNCHANGED <<inbox, live, configured, log>>

-----------------------------------------------------------------------------
(* The call, its live session, the user and the vault                      *)

\* The live session files its note when the first words are durable.
LiveCreatesNote ==
    /\ live.state \in {"running", "finishing"} /\ live.note = NoNote /\ FreshNotes # {}
    /\ disk' = SetNote(NewNote, "open")
    /\ live' = [live EXCEPT !.note = NewNote]
    /\ inbox' = Append(inbox, "note")
    /\ log' = [log EXCEPT !.backends = @ \cup {Local}]
    /\ UNCHANGED <<w, configured, spent>>

\* It ends after the finish verdict: with a whole note, or asking for batch.
LiveSettles(filed) ==
    /\ live.state = "finishing"
    /\ filed => live.note # NoNote
    /\ disk' = IF filed THEN SetNote(live.note, "whole") ELSE disk
    /\ live' = [live EXCEPT !.state = "ready", !.filed = filed]
    /\ UNCHANGED <<w, inbox, configured, spent, log>>

\* After a discard verdict it deletes its note, or hands the file over.
LiveDeletesNote ==
    /\ live.state = "discarded"
    /\ live' = [live EXCEPT !.state = "none"]
    /\ \E ok \in BOOLEAN :
          /\ Outcome("note", ok)
          /\ disk' = IF ok /\ live.note # NoNote THEN SetNote(live.note, "absent") ELSE disk
          /\ inbox' = IF ok \/ live.note = NoNote THEN inbox ELSE Append(inbox, "leftover")
    /\ UNCHANGED <<w, configured, log>>

\* The detector delivers its verdict to the live session, then tells the pipeline.
CallEnds(verdict) ==
    /\ live.call
    /\ live' = [live EXCEPT !.call = FALSE,
                            !.state = IF @ # "running" THEN @
                                      ELSE IF verdict = "process" THEN "finishing" ELSE "discarded"]
    /\ disk' = [disk EXCEPT !.audio = (verdict = "process")]
    /\ inbox' = Append(inbox, verdict)
    /\ UNCHANGED <<w, configured, spent, log>>

\* The Queue window's Retry button.
UserRetries ==
    /\ disk.row.status = "Failed" /\ spent.manual < MaxManual
    /\ inbox' = Append(inbox, "retry")
    /\ spent' = [spent EXCEPT !.manual = @ + 1]
    /\ UNCHANGED <<disk, w, live, configured, log>>

\* Notes that are no longer open are moved out of the inbox.
VaultMovesNote(n) ==
    /\ Exists(n) /\ disk.notes[n] # "open"
    /\ disk' = [disk EXCEPT !.moved = @ \cup {n}]
    /\ UNCHANGED <<w, inbox, live, configured, spent, log>>

\* The recorded audio disappears from the cache directory it is kept in (external).
AudioVanishes ==
    /\ disk.audio /\ Outcome("audio", FALSE)
    /\ disk' = [disk EXCEPT !.audio = FALSE]
    /\ UNCHANGED <<w, inbox, live, configured, log>>

-----------------------------------------------------------------------------
(* Messages                                                                *)

Take(msg) == At("idle") /\ inbox # <<>> /\ Head(inbox) = msg /\ inbox' = Tail(inbox)

\* Process: enqueue_captured inserts the row unless the live note made one.
Process ==
    /\ Take("process")
    /\ Write("row", [disk EXCEPT !.row = IF @ = NoRow THEN NewRow ELSE @],
             To("collect"), To("collectLost"))
    /\ UNCHANGED <<live, configured, log>>

\* collect joins the live session; without a session there is nothing to wait for.
Collected == live.state \in {"none", "ready"} /\ live' = [live EXCEPT !.state = "none"]
HadSession == live.state = "ready"

\* Mutant: a note is taken for the whole transcript whatever the session's outcome.
CollectAnyNote ==
    /\ At("collect") /\ Collected /\ live.note # NoNote
    /\ Goto([To("clean") EXCEPT !.note = [note |-> live.note, canonical |-> TRUE],
                                !.ck = [disk.ckpt EXCEPT !.valid = TRUE, !.note = live.note,
                                                         !.canonical = TRUE]])
    /\ UNCHANGED <<inbox, configured, log>>

\* A live session that filed the whole note leaves completion only.
CollectFiled ==
    /\ At("collect") /\ Collected /\ live.filed
    /\ LET note == [note |-> live.note, canonical |-> TRUE]
       IN Goto([To("clean") EXCEPT !.note = note,
                                   !.ck = [disk.ckpt EXCEPT !.valid = TRUE, !.note = live.note,
                                                            !.canonical = TRUE]])
    /\ UNCHANGED <<inbox, configured, log>>

\* Anything else is armed as a durable job before any ASR runs.
FreshBatch == ~HadSession /\ ~disk.row.attempted
FirstOrigin == IF HadSession THEN Local ELSE IF FreshBatch THEN configured ELSE Unknown
CollectBatch ==
    /\ At("collect") /\ Collected /\ ~live.filed
    /\ LET note == IF HadSession THEN live.note ELSE NoNote
           payload == [Blank EXCEPT !.note = note, !.origin = FirstOrigin,
                                    !.first = FreshBatch, !.finished = TRUE]
           max == IF HadSession \/ FreshBatch THEN Retries + 1 ELSE Retries
       IN Write("job", Arm(payload, max), Idle, FailWith("unarmed", Partial(note)))
    /\ UNCHANGED <<inbox, configured, log>>

\* Without a row the result can only be dropped, and a partial note closed.
CollectLost ==
    /\ At("collectLost") /\ Collected
    /\ Goto(IF HadSession /\ ~live.filed
            THEN [To("close") EXCEPT !.note = Partial(live.note), !.why = "unarmed"] ELSE Idle)
    /\ UNCHANGED <<inbox, configured, log>>

\* schedule_retry: completing the live note failed, so a job must own it.
Schedule ==
    /\ At("schedule") /\ Inside
    /\ LET note == Or(w.err, Or(OwnedNote(disk.ckpt), w.note))
           payload == [Blank EXCEPT !.note = note.note, !.canonical = note.canonical,
                                    !.origin = Local]
       IN Write("job", Arm(payload, Retries), [To("scheduleRow") EXCEPT !.note = note],
                FailWith("unarmed", note))
ScheduleRow ==
    At("scheduleRow") /\ Inside /\ Write("row", SetRow(RetryStatus, w.note.note), Idle, Idle)

\* LiveNoteCreated: the note's path goes to the row, which is created while the
\* session is still owned.
AcceptsNote == live.state \in {"running", "finishing", "ready"}

\* Mutant: the row is put back to Recording whatever became of it.
NoteReopensRow ==
    /\ Take("note") /\ UNCHANGED <<live, configured, log>>
    /\ IF disk.row = NoRow /\ ~AcceptsNote THEN Goto(Idle)
       ELSE Write("row", IF disk.row = NoRow THEN [disk EXCEPT !.row = NewRow] ELSE disk,
                  To("noteRow"), Idle)

NoteCreated ==
    /\ Take("note") /\ UNCHANGED <<live, configured, log>>
    /\ \/ disk.row # NoRow /\ Write("row", SetRow(disk.row.status, live.note), Idle, Idle)
       \/ disk.row = NoRow /\ AcceptsNote /\ Write("row", [disk EXCEPT !.row = NewRow], To("noteRow"), Idle)
       \/ disk.row = NoRow /\ ~AcceptsNote /\ Goto(Idle)
NoteRow == At("noteRow") /\ Inside /\ Write("row", SetRow("Recording", live.note), Idle, Idle)

\* LiveDiscarded
Discarded ==
    /\ Take("discarded") /\ UNCHANGED <<live, configured, log>>
    /\ Write("job", [disk EXCEPT !.job = NoJob], To("discardRow"), To("discardRow"))
DiscardRow ==
    /\ At("discardRow") /\ Inside
    /\ IF disk.row.status \in Settled \cup {"none"} THEN Goto(Idle)
       ELSE Write("row", SetStatus("Failed"), Idle, Idle)

\* LiveDiscardCleanup: a discarded note that cannot be deleted gets a failed row.
Leftover ==
    /\ Take("leftover") /\ UNCHANGED <<live, configured, log>>
    /\ Write("note", SetNote(live.note, "absent"), Idle, To("leftoverRow"))
ClosesLeftover == [To("close") EXCEPT !.note = Partial(live.note), !.why = "unarmed"]
LeftoverRow ==
    /\ At("leftoverRow") /\ Inside
    /\ Write("row", [disk EXCEPT !.row = IF @ = NoRow THEN NewRow ELSE @],
             IF disk.row.status = "Done" THEN ClosesLeftover ELSE To("leftoverFail"), ClosesLeftover)
LeftoverFail ==
    At("leftoverFail") /\ Inside
    /\ Write("row", SetRow("Failed", live.note), ClosesLeftover, ClosesLeftover)

\* manual_retry: the row and its job are rearmed in one transaction.
DurableOrigin ==
    IF disk.ckpt.valid THEN disk.ckpt.origin
    ELSE IF disk.job # NoJob THEN disk.job.payload.origin ELSE Unknown
Rearmed ==
    LET payload == [Blank EXCEPT !.origin = DurableOrigin]
    IN IF disk.job = NoJob THEN NewJob(Consumed(payload), Retries)
                           ELSE RearmOn(disk.job, payload, Retries)
ManualRetry ==
    /\ Take("retry") /\ UNCHANGED <<live, configured, log>>
    /\ IF disk.row.status = "Failed" /\ (disk.audio \/ disk.ckpt.valid)
       THEN Write("job", [disk EXCEPT !.job = Rearmed, !.row.status = RetryStatus], Idle, Idle)
       ELSE Goto(Idle)

ReloadConfig ==
    /\ At("idle") /\ configured' \in Backends \ {configured}
    /\ UNCHANGED <<disk, w, inbox, live, spent, log>>

-----------------------------------------------------------------------------
(* The retry job                                                           *)

ClaimJob ==
    /\ At("idle") /\ Inside /\ disk.job.state = "pending"
    /\ disk' = [disk EXCEPT !.job = Claimed(@)]
    /\ w' = [Idle EXCEPT !.pc = "dispatch", !.claim = Claimed(disk.job)]
    /\ UNCHANGED spent

\* retry_transcription up to the routing decision.
Dispatch ==
    /\ At("dispatch") /\ Inside
    /\ CASE disk.row = NoRow -> Goto(Ok)
         [] disk.row.status = "Failed" -> Goto(Error)
         [] disk.row.status = "Recording" /\ w.claim.payload.finished ->
              Write("row", SetStatus("PendingTranscription"), To("route"), Error)
         [] OTHER -> Goto(To("route"))

ClaimNote == AuthoritativeNote(disk.ckpt, w.claim.payload, disk.row.note)
CanonicalCompletion == ClaimNote.canonical /\ ~disk.ckpt.canonical

RetryAction ==
    CASE disk.row.status \in Settled -> "stale"
      [] disk.row.status \notin Settled /\ disk.ckpt.valid /\ ~CanonicalCompletion -> "fileCheckpoint"
      [] disk.row.status \notin Settled /\ CanonicalCompletion -> "completeNote"
      [] OTHER -> IF disk.row.status = "Recording" THEN "stale"
                  ELSE IF ~disk.audio THEN "missingAudio"
                  ELSE IF disk.row.status = "PendingNote" THEN "legacy" ELSE "transcribe"

\* Mutant: the budget is not checked before the action.
RouteUnbudgeted ==
    /\ At("route") /\ Inside
    /\ LET routed == [To(RetryAction) EXCEPT !.note = ClaimNote]
       IN IF RetryAction = "stale" \/ ClaimNote = None THEN Goto(routed)
          ELSE Write("row", SetRow(disk.row.status, ClaimNote.note), routed, Error)

Route ==
    /\ At("route") /\ Inside
    /\ LET routed == [To(RetryAction) EXCEPT !.note = ClaimNote]
       IN IF RetryAction \in {"transcribe", "legacy"} /\ w.claim.attempts > w.claim.max
          THEN Goto(Error)
          ELSE IF RetryAction = "stale" \/ ClaimNote = None THEN Goto(routed)
          ELSE Write("row", SetRow(disk.row.status, ClaimNote.note), routed, Error)

Stale == At("stale") /\ Inside /\ Goto(Ok)
MissingAudio == At("missingAudio") /\ Inside /\ Goto(FailWith("missing", w.note))
CompleteNote ==
    /\ At("completeNote") /\ Inside
    /\ Goto([To("clean") EXCEPT !.ck = [disk.ckpt EXCEPT !.valid = TRUE, !.note = w.note.note,
                                                         !.canonical = TRUE]])
FileCheckpoint ==
    /\ At("fileCheckpoint") /\ Inside
    /\ Goto([To(IF disk.row.status = "PendingNote" THEN "clean" ELSE "promote")
             EXCEPT !.ck = disk.ckpt])

\* Only a PendingNote row without a checkpoint takes the legacy route.
Legacy ==
    /\ At("legacy") /\ Inside
    /\ Write("row", [disk EXCEPT !.row.attempted = TRUE], To("transcribe"), Error)

-----------------------------------------------------------------------------
(* Transcription                                                           *)

\* RetryOrigin: an automatic attempt may only use the backend of the first ASR,
\* and a local transcript leaves the machine on the recorded first attempt only.
Origin == w.claim.payload.origin
\* Mutant: the first-attempt permission outlives the first attempt.
FirstForever == w.claim.payload.first /\ Origin # Unknown
RecordedFirst == w.claim.attempts = 1 /\ w.claim.payload.first /\ Origin # Unknown
Authorized == Origin = configured
PermitsHostedFinal == Authorized /\ (RecordedFirst \/ Origin = Aws)

Transcribe ==
    /\ At("transcribe") /\ Inside
    /\ IF Authorized
       THEN Write("row", [SetStatus("Transcribing") EXCEPT !.row.attempted = TRUE], To("asr"), Error)
       ELSE Goto(To("refuse"))

CheckpointNote == Or(w.note, Partial(disk.row.note))
Checkpoint(full) ==
    [valid |-> TRUE, note |-> CheckpointNote.note, canonical |-> CheckpointNote.canonical,
     origin |-> Origin, full |-> full]

\* The decode, and the hosted pass over its text when that is allowed.
RunAsr ==
    /\ At("asr") /\ UNCHANGED <<inbox, live, configured>>
    /\ IF disk.audio THEN Write("asr", disk, [To("store") EXCEPT !.ck = Checkpoint(TRUE)], Error)
                     ELSE Goto(Error)
    /\ \E sent \in IF PermitsHostedFinal THEN {0, 1} ELSE {0} :
          log' = [log EXCEPT !.asr = @ + 1, !.backends = @ \cup {configured}, !.sent = @ + sent]

\* file_refused_recovery: the partial note is settled as it is.
Refuse ==
    /\ At("refuse") /\ Inside
    /\ LET n == CheckpointNote.note
           settledNote == [Checkpoint(FALSE) EXCEPT !.canonical = TRUE]
       IN IF Exists(n)
          THEN Write("note", SetNote(n, MarkIncomplete(disk.notes[n])),
                     [To("store") EXCEPT !.ck = settledNote], Error)
          ELSE Goto([To("store") EXCEPT !.ck = [Checkpoint(FALSE) EXCEPT !.canonical = FALSE]])

StoreCheckpoint ==
    At("store") /\ Inside /\ Write("ckpt", [disk EXCEPT !.ckpt = w.ck], To("promote"), Error)
Promote ==
    At("promote") /\ Inside /\ Write("row", SetStatus("PendingNote"), To("clean"), Error)

-----------------------------------------------------------------------------
(* Filing                                                                  *)

\* Cloud staging must be gone before anything is filed or completed.
CleanStaging == At("clean") /\ Inside /\ Write("cloud", disk, To("file"), Error)

FiledAs == IF w.ck.full THEN "whole" ELSE "closed"
Canonical(n) == [To("keep") EXCEPT !.ck.note = n, !.ck.canonical = TRUE]

\* rewrite_checkpoint_note, else vagus add-note.
FileNote ==
    /\ At("file") /\ Inside
    /\ LET target == IF w.ck.note # NoNote THEN w.ck.note ELSE disk.row.note
       IN IF w.ck.canonical THEN Goto(To("keep"))
          ELSE IF Exists(target)
          THEN Write("note", SetNote(target, FiledAs), Canonical(target), Error)
          ELSE /\ FreshNotes # {}
               /\ Write("vagus", SetNote(NewNote, FiledAs), Canonical(NewNote), Error)

\* The returned path is kept in the checkpoint and committed with Done; if both
\* fail, the error carries it.
KeepNote ==
    /\ At("keep") /\ Inside
    /\ Write("ckpt", [disk EXCEPT !.ckpt = w.ck],
             [To("complete") EXCEPT !.stored = TRUE], [To("complete") EXCEPT !.stored = FALSE])

\* Mutant: the error does not carry the filed note.
CompleteForgetsNote ==
    At("complete") /\ Inside /\ Write("row", SetRow("Done", w.ck.note), To("tidy"), Error)

CompleteWithNote ==
    /\ At("complete") /\ Inside
    /\ Write("row", SetRow("Done", w.ck.note), To("tidy"),
             [Error EXCEPT !.err = IF w.stored THEN None ELSE OwnedNote(w.ck)])
Tidy == At("tidy") /\ Inside /\ Write("unlink", [disk EXCEPT !.ckpt = NoCkpt], Ok, Ok)

-----------------------------------------------------------------------------
(* Failure and settlement                                                  *)

\* fail_with_note: the row becomes terminal first, then its note is closed.
Failing == Or(OwnedNote(disk.ckpt), Or(w.note, Partial(disk.row.note)))

\* Mutant: the only job is parked although the row could not be failed.
FailRowParks ==
    /\ At("fail") /\ Inside
    /\ Write("row", SetRow("Failed", Failing.note), [To("close") EXCEPT !.note = Failing],
             IF w.why = "unarmed" THEN Idle ELSE To("park"))

FailRow ==
    /\ At("fail") /\ Inside
    /\ Write("row", SetRow("Failed", Failing.note),
             [To("close") EXCEPT !.note = Failing],
             CASE w.why = "unarmed" -> Idle
               [] w.why = "missing" -> Error
               [] w.why = "exhausted" -> To("reschedule"))

CloseNote ==
    /\ At("close") /\ Inside
    /\ LET n == w.note.note
           next == CASE w.why = "unarmed" -> Idle
                     [] w.why = "missing" -> Ok
                     [] w.why = "exhausted" -> To("park")
       IN IF w.note.canonical \/ ~Exists(n) THEN Goto(next)
          ELSE Write("note", SetNote(n, MarkIncomplete(disk.notes[n])), next, next)

\* finish_job.  A settlement that fails leaves the job running until a restart.
SettleOk == At("settle") /\ Inside /\ Write("settle", [disk EXCEPT !.job = NoJob], Idle, Idle)

SettleError ==
    /\ At("failed") /\ Inside
    /\ LET claim == Presented(w.claim, w.err.note)
           known == [w EXCEPT !.claim = claim]
       IN Goto(IF claim.attempts < claim.max \/ disk.row.status \in Settled \cup {"none"}
               THEN [known EXCEPT !.pc = "park"]
               ELSE [known EXCEPT !.pc = "fail", !.why = "exhausted",
                        !.note = AuthoritativeNote(disk.ckpt, claim.payload, disk.row.note)])

Park ==
    /\ At("park") /\ Inside
    /\ LET job == Failed(disk.job, w.claim)
       IN Write("settle", [disk EXCEPT !.job = job],
                IF job.state = "pending" THEN To("backoff") ELSE Idle, Idle)
Reschedule ==
    /\ At("reschedule") /\ Inside
    /\ Write("settle", [disk EXCEPT !.job = Rescheduled(@, w.claim)], To("backoff"), Idle)
Backoff ==
    /\ At("backoff") /\ Inside
    /\ IF disk.row.status \in Settled \cup {"none"} THEN Goto(Idle)
       ELSE Write("row", SetStatus(RetryStatus), Idle, Idle)

-----------------------------------------------------------------------------
(* Restart and retention                                                   *)

\* The process dies: messages, the live session and the thread are gone, and the
\* audio of a call in progress may or may not have reached its file.
Crash ==
    /\ spent.crashes < MaxCrashes
    /\ spent' = [spent EXCEPT !.crashes = @ + 1]
    /\ w' = [Idle EXCEPT !.pc = "startup"]
    /\ inbox' = <<>>
    /\ live' = [live EXCEPT !.call = FALSE, !.state = "none", !.filed = FALSE]
    /\ \E saved \in IF live.call THEN BOOLEAN ELSE {disk.audio} :
          disk' = [disk EXCEPT !.audio = saved]
    /\ UNCHANGED <<configured, log>>

\* Mutant: the job of a dead process stays running.
SkipRecovery == At("startup") /\ Inside /\ Goto(To("resume"))

RecoverRunning ==
    /\ At("startup") /\ Inside
    /\ Write("job", [disk EXCEPT !.job = Recovered(@)], To("resume"), To("resume"))

\* recover_filing_checkpoints: the job first, then the row.
Resume ==
    /\ At("resume") /\ Inside
    /\ IF disk.row.status \in InProgress \cup {"Recording"} /\ disk.ckpt.valid
       THEN Write("job", Arm(Blank, Retries), To("resumeRow"), To("reap"))
       ELSE Goto(To("reap"))
ResumeRow ==
    At("resumeRow") /\ Inside /\ Write("row", SetStatus("PendingNote"), To("reap"), To("reap"))

\* reap_recording_rows
Reap ==
    /\ At("reap") /\ Inside
    /\ IF disk.row.status # "Recording" THEN Goto(Idle)
       ELSE IF disk.audio THEN Write("job", Arm(Blank, Retries), To("reapRow"), Idle)
       ELSE Write("row", SetStatus("Failed"),
                  [To("close") EXCEPT !.note = Partial(disk.row.note), !.why = "unarmed"], Idle)
ReapRow ==
    At("reapRow") /\ Inside /\ Write("row", SetStatus("PendingTranscription"), Idle, Idle)

\* sweep_recordings, for an expired terminal row: a file that cannot be removed
\* keeps the job, and the row, for a later sweep.
Sweep(left, forget) ==
    LET kept == [disk EXCEPT !.audio = @ /\ "audio" \in left,
                             !.ckpt = IF "ckpt" \in left THEN @ ELSE NoCkpt]
        absent == ~kept.audio /\ ~kept.ckpt.valid
    IN /\ At("idle") /\ disk.row.status \in Settled
       /\ Outcome("sweep", absent)
       /\ forget => absent
       /\ disk' = [kept EXCEPT !.job = IF absent THEN NoJob ELSE @,
                               !.row = IF forget THEN NoRow ELSE @]
       /\ UNCHANGED w /\ Inside

-----------------------------------------------------------------------------

\* A new call, with or without a live session; or a recording an older version
\* left at PendingNote with its audio and its retry job, and no checkpoint.
EmptyDisk == [row |-> NoRow, job |-> NoJob, ckpt |-> NoCkpt, audio |-> FALSE,
              notes |-> [n \in Notes |-> "absent"], moved |-> {}]
LegacyDisk == [EmptyDisk EXCEPT !.row.status = "PendingNote", !.row.attempted = TRUE,
                                !.job = NewJob(Blank, Retries), !.audio = TRUE]

Init ==
    /\ configured \in Backends
    /\ live \in [call : BOOLEAN, filed : {FALSE}, note : {NoNote},
                 state : IF configured = Local THEN {"none", "running"} ELSE {"none"}]
    /\ live.state = "running" => live.call
    /\ disk = IF live.call THEN EmptyDisk ELSE LegacyDisk
    /\ w = Idle /\ inbox = <<>>
    /\ spent = [faults |-> 0, crashes |-> 0, manual |-> 0]
    /\ log = [asr |-> 0, backends |-> {}, sent |-> 0]

Environment ==
    \/ LiveCreatesNote \/ UserRetries \/ ReloadConfig \/ AudioVanishes \/ Crash
    \/ \E verdict \in {"process", "discarded"} : CallEnds(verdict)
    \/ \E n \in Notes : VaultMovesNote(n)

Session == LiveDeletesNote \/ \E filed \in BOOLEAN : LiveSettles(filed)

Messages ==
    \/ Process \/ CollectFiled \/ CollectBatch \/ CollectLost \/ Schedule \/ ScheduleRow
    \/ NoteCreated \/ NoteRow \/ Discarded \/ DiscardRow
    \/ Leftover \/ LeftoverRow \/ LeftoverFail \/ ManualRetry

Work ==
    \/ ClaimJob \/ Dispatch \/ Route \/ Stale \/ MissingAudio \/ CompleteNote \/ FileCheckpoint
    \/ Legacy \/ Transcribe \/ RunAsr \/ Refuse \/ StoreCheckpoint \/ Promote
    \/ CleanStaging \/ FileNote \/ KeepNote \/ CompleteWithNote \/ Tidy
    \/ FailRow \/ CloseNote \/ SettleOk \/ SettleError \/ Park \/ Reschedule \/ Backoff
    \/ RecoverRunning \/ Resume \/ ResumeRow \/ Reap \/ ReapRow

Retention == \E left \in SUBSET {"audio", "ckpt"}, forget \in BOOLEAN : Sweep(left, forget)

Next == Environment \/ Session \/ Messages \/ Work \/ Retention

Spec == Init /\ [][Next]_vars

\* The thread always takes its next step, and so does a session that was told to
\* end; nothing obliges calls to end, users to retry or notes to move.
FairSpec == Spec /\ WF_vars(Messages \/ Work) /\ WF_vars(Session)

-----------------------------------------------------------------------------
(* Properties                                                              *)

Statuses == {"none", "Recording"} \cup InProgress \cup Settled
Owned == [note : Notes \cup {NoNote}, canonical : BOOLEAN]
Ckpt == [valid : BOOLEAN, note : Notes \cup {NoNote}, canonical : BOOLEAN,
         origin : Backends \cup {Unknown}, full : BOOLEAN]
Contents == {"absent", "open", "closed", "whole", "spoiled"}
Pcs == {"idle", "collect", "collectLost", "schedule", "scheduleRow", "noteRow", "discardRow",
        "leftoverRow", "leftoverFail", "dispatch", "route", "stale", "fileCheckpoint",
        "completeNote", "legacy", "transcribe", "missingAudio", "asr", "refuse", "store",
        "promote", "clean", "file", "keep", "complete", "tidy", "fail", "close", "settle",
        "failed", "park", "reschedule", "backoff", "startup", "resume", "resumeRow", "reap",
        "reapRow"}

\* The durable state, the thread and its channel stay well formed, and only known
\* backends are ever configured (pipeline.rs Ctx, reload_config).
TypeOK ==
    /\ disk.row \in [status : Statuses, note : Notes \cup {NoNote}, attempted : BOOLEAN]
    /\ disk.job = NoJob \/ disk.job \in Job
    /\ disk.ckpt \in Ckpt /\ disk.audio \in BOOLEAN
    /\ disk.notes \in [Notes -> Contents] /\ disk.moved \subseteq Notes
    /\ w.pc \in Pcs /\ (w.claim = NoJob \/ w.claim \in Job)
    /\ w.note \in Owned /\ w.err \in Owned /\ w.ck \in Ckpt
    /\ inbox \in Seq({"process", "note", "discarded", "leftover", "retry"})
    /\ configured \in Backends

\* Work that has started is never orphaned: whenever the thread is idle, a
\* recording that has been transcribed, or is waiting to be filed, has a job that
\* is due, or running until the next restart, whatever failed or died on the way
\* (on_exhausted: the row must be terminal before the only active job is parked).
StartedWorkIsOwned ==
    /\ At("idle") /\ disk.row.status \in InProgress
    /\ disk.row.attempted \/ disk.row.status # "PendingTranscription"
    => disk.job.state \in {"pending", "running"}

\* Whatever the Settings say by then, automatic work never takes the audio of a
\* recording to another backend, and a transcript that was decoded locally leaves the
\* machine at most once, on the recorded first attempt
\* (RetryOrigin::selected_backend, permits_hosted_final, first_batch).
DataStaysAuthorized ==
    /\ Cardinality(log.backends) <= 1
    /\ Local \in log.backends => log.sent <= 1

\* ASR is bounded by the first attempt, its retries and the budget of each manual retry,
\* across crashes, reclaims and failures to park the job; and once the transcript is
\* durable it never runs again while the checkpoint survives, in whatever status the row
\* is claimed (ensure_retry_action_budget, claim_due, retry_action).
AsrIsBounded ==
    [][log'.asr # log.asr => /\ ~disk.ckpt.valid
                             /\ log'.asr <= Retries + 1 + Retries * spent.manual]_vars

Complete(n) == disk.notes[n] \in {"whole", "spoiled"}
WholeNotes == {n \in Notes : Complete(n)}

\* Only a crash can file the transcript a second time: every failure after the
\* note was filed carries its path to the checkpoint, the row or the job
\* (OwnedNoteError, retry_payload_with_note).
FiledOnceUnlessCrashed == Cardinality(WholeNotes) <= 1 + spent.crashes

\* A Done recording points at a note that exists and is no longer open, so that
\* nobody waits on its state line (complete_with_note, live_note_created).
DoneNoteIsSettled ==
    disk.row.status = "Done" =>
        disk.row.note \in Notes /\ disk.notes[disk.row.note] \in {"closed", "whole", "spoiled"}

\* The row of the recording goes through the phases the pipeline promises: Done is
\* final with its note, and Failed is left by a manual retry only.
Phase == CASE disk.row.status = "none" -> "untracked"
           [] disk.row.status = "Done" -> "done"
           [] disk.row.status = "Failed" -> "failed"
           [] OTHER -> "open"
Delivery == INSTANCE RecordingDelivery WITH phase <- Phase, note <- disk.row.note
DeliverySpec == Delivery!Spec

\* A recording whose job is due gets to a terminal row, however its attempts fail
\* (finish_job, on_exhausted, recover_running).
Delivered ==
    (disk.row.status \in InProgress /\ disk.job.state = "pending")
        ~> disk.row.status \in Settled \cup {"none"}

\* "each non-terminal state is resumable on startup": with nothing left to do for
\* the thread, a tracked recording is terminal or has a job.
NothingStranded ==
    At("idle") /\ inbox = <<>> /\ ~live.call /\ live.state = "none"
        /\ disk.row.status \in InProgress
    => disk.job.state \in {"pending", "running"}

\* "a re-file doesn't duplicate the note".
FiledOnce == Cardinality(WholeNotes) <= 1

\* "Canonical ownership always beats a partial path": a note that was filed with
\* the whole transcript is not annotated as incomplete.
WholeNoteStaysWhole == \A n \in Notes : disk.notes[n] # "spoiled"
=============================================================================
