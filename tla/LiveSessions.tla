---------------------------- MODULE LiveSessions ----------------------------
(***************************************************************************)
(* Who owns the one local model (app/src/live.rs, app/src/live_test.rs):   *)
(* the live transcription session of a call, from the detector's hook      *)
(* through its session thread to the pipeline that collects or discards    *)
(* it, and the microphone test, which borrows the same slot and suspends   *)
(* the detector meanwhile.  Five kinds of threads meet here: the detector  *)
(* worker, one session thread per call, the reapers of discarded sessions, *)
(* the pipeline, and the user interface with its microphone-test worker.   *)
(*                                                                         *)
(* Every manager operation is one critical section and is one step, its    *)
(* leading reap_completed included; what a thread does between two         *)
(* critical sections is a step of its own.                                 *)
(***************************************************************************)
EXTENDS Naturals, Sequences, FiniteSets

CONSTANTS
    MaxSessions, \* bound on the calls and microphone tests, together
    MaxWindows,  \* bound on the live-window generations
    MaxCtrl,     \* bound on the control messages queued for the detector
    Faults       \* which fallible operations may fail in this instance

ASSUME BoundAssumption ==
    /\ MaxSessions \in Nat /\ MaxWindows \in Nat /\ MaxCtrl \in Nat
    /\ Faults \subseteq {"start", "spawn", "reaper", "unlink", "panic", "ack",
                         "enqueue", "config", "worker", "slow"}

Calls == 1..MaxSessions
Generations == 1..MaxSessions

VARIABLES
    det,       \* the detector worker: where it is, its last call, is a tee attached?
    paused,    \* Worker.paused
    ctrl,      \* Pause and Resume messages queued for the detector
    mgr,       \* LiveManager's Inner
    thread,    \* the session threads
    verdict,   \* the verdict sent to a session thread
    outcome,   \* the LiveOutcome it returned
    note,      \* the live note in the inbox
    pipe,      \* the pipeline's channel
    pipeline,  \* the pipeline thread
    row,       \* queue rows
    job,       \* batch transcription jobs
    taken,     \* what collect returned for a call
    flags,     \* AppState: detector_recording, stage = Transcribing, live_test_active
    slot,      \* LiveTestManager.inner
    window,    \* LiveWindowLifecycle: the current generation (0: none), the last one
    starter,   \* the thread inside start_for_window
    tester     \* the microphone-test workers, by generation

callVars == <<thread, verdict, outcome, taken>>
queueVars == <<pipeline, row, job>>
testVars == <<slot, window, starter, tester>>
vars == <<det, paused, ctrl, mgr, thread, verdict, outcome, note, pipe, pipeline,
          row, job, taken, flags, slot, window, starter, tester>>

-----------------------------------------------------------------------------
(* LiveManager                                                             *)

\* A fallible operation succeeds, or fails where this instance lets it.
May(fault) == IF fault \in Faults THEN {TRUE, FALSE} ELSE {TRUE}

OnDisk(n) == n \in {"transcribing", "settled"}

\* reap_discard_work for the finished sessions rs: each one's note is unlinked, or
\* reported to the pipeline when it cannot be.
Unlinked(rs, ok) ==
    [r \in Calls |-> IF r \in rs /\ OnDisk(note[r]) /\ ok THEN "removed" ELSE note[r]]
Reported(rs, ok) ==
    IF ~ok /\ \E r \in rs : OnDisk(note[r])
    THEN <<[kind |-> "LiveDiscardCleanup",
            rec |-> CHOOSE r \in rs : OnDisk(note[r])]>>
    ELSE <<>>

\* The unspawned discards reap_completed finishes itself, inside the lock.
Unspawned == {r \in Calls : mgr.discarding[r] = "Inline" /\ thread[r] = "ended"}

\* reap_completed: join only what has already ended.
Reaped(m) ==
    [m EXCEPT
        !.awaiting = [r \in Calls |-> IF @[r] = "Running" /\ thread[r] = "ended"
                                      THEN "Ready" ELSE @[r]],
        !.discarding = [r \in Calls |-> IF r \in Unspawned \/ @[r] = "Reaped"
                                        THEN "none" ELSE @[r]]]

\* The operation's critical section begins: finished work is reaped first.
Lock(ok, sent) ==
    /\ note' = Unlinked(Unspawned, ok)
    /\ pipe' = pipe \o Reported(Unspawned, ok) \o sent

\* Mutant: a session that is being discarded does not hold the slot.
IgnoresDiscards(m) == \E r \in Calls : m.awaiting[r] \in {"Running", "Collecting"}

has_finishing_thread(m) ==
    \E r \in Calls : \/ m.awaiting[r] \in {"Running", "Collecting"}
                     \/ m.discarding[r] # "none"

GateIsOpen(m) == /\ ~m.pending /\ m.active = 0
                 /\ ~has_finishing_thread(m) /\ m.test = 0

\* park_discard: the reaper thread could be spawned, or its work stays in the
\* manager and the pipeline is asked to do it.
park_discard(m, r, spawned) ==
    [m EXCEPT !.discarding[r] = IF spawned THEN "Reaper" ELSE "Inline"]
AskReap(r, spawned) ==
    IF spawned THEN <<>> ELSE <<[kind |-> "LiveDiscardReap", rec |-> r]>>

-----------------------------------------------------------------------------
(* The detector worker and its LiveHook                                    *)

Call == det.rec
Begun == det.rec + starter.gen + IF starter.at = "reserve" THEN 1 ELSE 0
MoreSessions == Begun < MaxSessions
Recording == det.at = "recording"

\* Action::Start: attach asks for the slot when live filing is eligible.
Attach ==
    \E eligible \in BOOLEAN, ok \in May("unlink") :
       LET m == Reaped(mgr)
           tee == eligible /\ GateIsOpen(m)
       IN /\ det.at = "idle" /\ ~paused /\ ctrl = <<>> /\ MoreSessions
          /\ det' = [at |-> "starting", rec |-> det.rec + 1, tee |-> tee]
          /\ IF eligible
             THEN mgr' = [m EXCEPT !.pending = @ \/ tee] /\ Lock(ok, <<>>)
             ELSE UNCHANGED <<mgr, note, pipe>>
          /\ UNCHANGED <<paused, ctrl, callVars, queueVars, flags, testVars>>

\* The recorder runs.  started takes the tee and spawns the session thread, which
\* loads its model at once; it is installed in the manager a step later.
StartOk ==
    \E spawned \in May("spawn") :
       /\ det.at = "starting"
       /\ mgr' = [mgr EXCEPT !.pending = FALSE]
       /\ IF det.tee /\ spawned
          THEN /\ thread' = [thread EXCEPT ![Call] = "running"]
               /\ det' = [det EXCEPT !.at = "spawned"] /\ flags' = flags
          ELSE /\ det' = [det EXCEPT !.at = "recording"] /\ thread' = thread
               /\ flags' = [flags EXCEPT !.recording = TRUE]
       /\ UNCHANGED <<paused, ctrl, verdict, outcome, note, pipe, queueVars, taken,
                      testVars>>

Install ==
    \E ok \in May("unlink"), spawned \in May("reaper") :
       LET m == Reaped(mgr)
           free == m.active = 0 /\ ~has_finishing_thread(m) /\ m.test = 0
       IN /\ det.at = "spawned"
          /\ mgr' = IF free THEN [m EXCEPT !.active = Call]
                            ELSE park_discard(m, Call, spawned)
          /\ verdict' = IF free THEN verdict ELSE [verdict EXCEPT ![Call] = "Discard"]
          /\ Lock(ok, IF free THEN <<>> ELSE AskReap(Call, spawned))
          /\ det' = [det EXCEPT !.at = "recording"]
          /\ flags' = [flags EXCEPT !.recording = TRUE]
          /\ UNCHANGED <<paused, ctrl, thread, outcome, queueVars, taken, testVars>>

\* aborted, and the Error event.
StartFails ==
    /\ "start" \in Faults /\ det.at = "starting"
    /\ mgr' = [mgr EXCEPT !.pending = FALSE]
    /\ det' = [det EXCEPT !.at = "idle"]
    /\ flags' = [flags EXCEPT !.recording = FALSE, !.transcribing = FALSE]
    /\ UNCHANGED <<paused, ctrl, callVars, note, pipe, queueVars, testVars>>

\* A failed rebind emits Error while the recording goes on.
RebindError ==
    /\ Recording /\ flags.recording
    /\ flags' = [flags EXCEPT !.recording = FALSE, !.transcribing = FALSE]
    /\ UNCHANGED <<det, paused, ctrl, mgr, callVars, note, pipe, queueVars, testVars>>

\* deliver_finished: the verdict first, the event that queues Process second.
FinishLive ==
    \E ok \in May("unlink") :
       LET m == Reaped(mgr)
           mine == m.active = Call
       IN /\ Recording
          /\ mgr' = IF mine THEN Reaped([m EXCEPT !.active = 0, !.awaiting[Call] = "Running"])
                            ELSE m
          /\ verdict' = IF mine THEN [verdict EXCEPT ![Call] = "Finish"] ELSE verdict
          /\ Lock(ok, <<>>)
          /\ det' = [det EXCEPT !.at = "finished"]
          /\ UNCHANGED <<paused, ctrl, thread, outcome, queueVars, taken, flags, testVars>>

EmitFinished ==
    /\ det.at = "finished"
    /\ det' = [det EXCEPT !.at = "idle"]
    /\ flags' = [flags EXCEPT !.recording = FALSE, !.transcribing = TRUE]
    /\ pipe' = Append(pipe, [kind |-> "Process", rec |-> Call])
    /\ UNCHANGED <<paused, ctrl, mgr, callVars, note, queueVars, testVars>>

\* LiveManager::discard of call r.
Discarded(m, r, spawned) ==
    IF m.active = r THEN park_discard([m EXCEPT !.active = 0], r, spawned) ELSE m

\* A call too short to keep, and a capture that failed to finish.
DiscardLive ==
    \E ok \in May("unlink"), spawned \in May("reaper") :
       LET m == Reaped(mgr)
           mine == m.active = Call
       IN /\ Recording
          /\ mgr' = Discarded(m, Call, spawned)
          /\ verdict' = IF mine THEN [verdict EXCEPT ![Call] = "Discard"] ELSE verdict
          /\ Lock(ok, IF mine THEN AskReap(Call, spawned) ELSE <<>>)
          /\ det' = [det EXCEPT !.at = "discarded"]
          /\ UNCHANGED <<paused, ctrl, thread, outcome, queueVars, taken, flags, testVars>>

EmitDiscarded ==
    /\ det.at = "discarded"
    /\ det' = [det EXCEPT !.at = "idle"]
    /\ flags' = [flags EXCEPT !.recording = FALSE, !.transcribing = FALSE]
    /\ pipe' = Append(pipe, [kind |-> "LiveDiscarded", rec |-> Call])
    /\ UNCHANGED <<paused, ctrl, mgr, callVars, note, queueVars, testVars>>

\* The worker answers a Pause; nobody waits for an abandoned one.
OnPause ==
    /\ det.at \in {"idle", "recording"} /\ ctrl # <<>> /\ Head(ctrl) # "Resume"
    /\ ctrl' = Tail(ctrl)
    /\ paused' = (paused \/ det.at = "idle")
    /\ starter' = IF Head(ctrl) = "Pause"
                  THEN [starter EXCEPT !.at = IF det.at = "idle" THEN "paused" ELSE "undo"]
                  ELSE starter
    /\ UNCHANGED <<det, mgr, callVars, note, pipe, queueVars, flags, slot, window, tester>>

OnResume ==
    /\ det.at \in {"idle", "recording"} /\ ctrl # <<>> /\ Head(ctrl) = "Resume"
    /\ ctrl' = Tail(ctrl)
    /\ paused' = FALSE
    /\ UNCHANGED <<det, mgr, callVars, note, pipe, queueVars, flags, testVars>>

-----------------------------------------------------------------------------
(* The session thread and the reaper of a discarded session                *)

\* The first words create the note; its path goes to the pipeline.
CreateNote(r) ==
    /\ thread[r] = "running" /\ note[r] = "none"
    /\ note' = [note EXCEPT ![r] = "transcribing"]
    /\ pipe' = Append(pipe, [kind |-> "LiveNoteCreated", rec |-> r])
    /\ UNCHANGED <<det, paused, ctrl, mgr, callVars, queueVars, flags, testVars>>

Ends(r, result) ==
    /\ thread' = [thread EXCEPT ![r] = "ended"]
    /\ outcome' = [outcome EXCEPT ![r] = result]
    /\ UNCHANGED <<det, paused, ctrl, mgr, verdict, pipe, queueVars, taken, flags, testVars>>

\* finish_session: a whole live transcript settles its note.
EndFiled(r) ==
    /\ thread[r] = "running" /\ verdict[r] = "Finish" /\ note[r] = "transcribing"
    /\ note' = [note EXCEPT ![r] = "settled"]
    /\ \/ Ends(r, "Filed")
       \/ "ack" \in Faults /\ Ends(r, "Fallback")

EndNoNote(r) ==
    /\ thread[r] = "running" /\ verdict[r] = "Finish" /\ note[r] = "none"
    /\ UNCHANGED note /\ Ends(r, "NoNote")

\* A lossy tee, a failed decoder, or a panic before any verdict.
EndFallback(r) ==
    /\ thread[r] = "running"
    /\ verdict[r] = "Finish" \/ "panic" \in Faults
    /\ UNCHANGED note /\ Ends(r, "Fallback")

EndDiscarded(r) ==
    \E ok \in May("unlink") :
       /\ thread[r] = "running" /\ verdict[r] = "Discard"
       /\ note' = Unlinked({r}, ok)
       /\ Ends(r, IF ok \/ note[r] = "none" THEN "NoNote" ELSE "Fallback")

ReapDiscard(r) ==
    \E ok \in May("unlink") :
       /\ mgr.discarding[r] = "Reaper" /\ thread[r] = "ended"
       /\ mgr' = [mgr EXCEPT !.discarding[r] = "Reaped"]
       /\ note' = Unlinked({r}, ok)
       /\ pipe' = pipe \o Reported({r}, ok)
       /\ UNCHANGED <<det, paused, ctrl, callVars, queueVars, flags, testVars>>

-----------------------------------------------------------------------------
(* The pipeline thread                                                     *)

Receives(kind) == /\ pipeline.at = "idle" /\ pipe # <<>> /\ Head(pipe).kind = kind
Message == Head(pipe).rec
At(place) == pipeline' = [pipeline EXCEPT !.at = place]

\* Lock, for a handler that has taken its message off the channel.
LockAfter(ok) ==
    /\ note' = Unlinked(Unspawned, ok)
    /\ pipe' = Tail(pipe) \o Reported(Unspawned, ok)

\* Process: enqueue keeps a row that is already there.
OnProcess ==
    \E queued \in May("enqueue") :
       /\ Receives("Process")
       /\ pipe' = Tail(pipe)
       /\ pipeline' = [at |-> "collect", rec |-> Message, queued |-> queued]
       /\ row' = IF queued /\ row[Message] = "none"
                 THEN [row EXCEPT ![Message] = "Pending"] ELSE row
       /\ job' = IF queued THEN job ELSE [job EXCEPT ![Message] = "refused"]
       /\ UNCHANGED <<det, paused, ctrl, mgr, callVars, note, flags, testVars>>

\* Mutant: a session that is still flushing counts as no session.
CollectWithoutJoin ==
    \E ok \in May("unlink") :
       LET m == Reaped(mgr)
           r == pipeline.rec
       IN /\ pipeline.at = "collect"
          /\ mgr' = [m EXCEPT !.awaiting[r] = "none"]
          /\ At("settle")
          /\ taken' = [taken EXCEPT ![r] = IF m.awaiting[r] = "Ready" THEN outcome[r] ELSE "None"]
          /\ Lock(ok, <<>>)
          /\ UNCHANGED <<det, paused, ctrl, thread, verdict, outcome, row, job, flags, testVars>>

\* collect: take a finished outcome, or join the thread outside the lock with the
\* slot still held.
Collect ==
    \E ok \in May("unlink") :
       LET m == Reaped(mgr)
           r == pipeline.rec
       IN /\ pipeline.at = "collect"
          /\ mgr' = [m EXCEPT !.awaiting[r] = IF @ = "Running" THEN "Collecting" ELSE "none"]
          /\ At(IF m.awaiting[r] = "Running" THEN "join" ELSE "settle")
          /\ taken' = [taken EXCEPT ![r] = IF m.awaiting[r] = "Ready" THEN outcome[r]
                                           ELSE IF m.awaiting[r] = "none" THEN "None" ELSE @]
          /\ Lock(ok, <<>>)
          /\ UNCHANGED <<det, paused, ctrl, thread, verdict, outcome, row, job, flags, testVars>>

Join ==
    LET r == pipeline.rec
    IN /\ pipeline.at = "join" /\ thread[r] = "ended"
       /\ mgr' = [mgr EXCEPT !.awaiting[r] = "none"]
       /\ taken' = [taken EXCEPT ![r] = outcome[r]]
       /\ At("settle")
       /\ UNCHANGED <<det, paused, ctrl, thread, verdict, outcome, note, pipe, row, job,
                      flags, testVars>>

\* process_live_result: a filed note is done, anything else is a batch job that
\* rewrites the note.  Without a row the note can only be closed.
Settle ==
    LET r == pipeline.rec
        filed == taken[r] = "Filed"
    IN /\ pipeline.at = "settle" /\ At("drain")
       /\ row' = IF ~pipeline.queued THEN row
                 ELSE [row EXCEPT ![r] = IF filed THEN "Done" ELSE "Pending"]
       /\ job' = IF ~pipeline.queued \/ filed THEN job ELSE [job EXCEPT ![r] = "due"]
       /\ note' = IF ~pipeline.queued /\ taken[r] = "Fallback" /\ OnDisk(note[r])
                  THEN [note EXCEPT ![r] = "settled"] ELSE note
       /\ flags' = IF ~pipeline.queued \/ filed
                   THEN [flags EXCEPT !.transcribing = FALSE] ELSE flags
       /\ UNCHANGED <<det, paused, ctrl, mgr, callVars, pipe, testVars>>

\* Mutant: a note of a discarded session is accepted too.
AcceptsDiscarded(m, r) == m.active = r \/ m.awaiting[r] # "none" \/ m.discarding[r] # "none"

accepts_note(m, r) == m.active = r \/ m.awaiting[r] # "none"

OnLiveNoteCreated ==
    \E ok \in May("unlink") :
       LET r == Message
           m == Reaped(mgr)
       IN /\ Receives("LiveNoteCreated")
          /\ IF row[r] = "none"
             THEN /\ mgr' = m /\ LockAfter(ok)
                  /\ row' = IF accepts_note(m, r) THEN [row EXCEPT ![r] = "Recording"] ELSE row
             ELSE pipe' = Tail(pipe) /\ UNCHANGED <<mgr, note, row>>
          /\ At("drain")
          /\ UNCHANGED <<det, paused, ctrl, callVars, job, flags, testVars>>

\* live_discarded closes a row that a late note left open.
Closed(r) == IF row[r] \in {"Recording", "Pending"} THEN [row EXCEPT ![r] = "Failed"] ELSE row

\* LiveDiscardReap, and LiveDiscarded, which repeats the discard (the detector has
\* already taken the call out of the slot) and closes the row.  An unspawned
\* discard is taken over and joined outside the lock, the slot still held.
OnDiscard(kind) ==
    \E ok \in May("unlink") :
       LET r == Message
           m == Reaped(mgr)
           mine == m.discarding[r] = "Inline"
       IN /\ Receives(kind)
          /\ mgr' = IF mine THEN [m EXCEPT !.discarding[r] = "Collecting"] ELSE m
          /\ LockAfter(ok)
          /\ row' = IF kind = "LiveDiscarded" /\ ~mine THEN Closed(r) ELSE row
          /\ pipeline' = [at |-> IF mine THEN "reap" ELSE "drain", rec |-> r,
                          queued |-> kind = "LiveDiscarded"]
          /\ UNCHANGED <<det, paused, ctrl, callVars, job, flags, testVars>>

ReapUnspawned ==
    \E ok \in May("unlink") :
       LET r == pipeline.rec
       IN /\ pipeline.at = "reap" /\ thread[r] = "ended"
          /\ note' = Unlinked({r}, ok)
          /\ pipe' = pipe \o Reported({r}, ok)
          /\ mgr' = [mgr EXCEPT !.discarding[r] = "none"]
          /\ row' = IF pipeline.queued THEN Closed(r) ELSE row
          /\ At("drain")
          /\ UNCHANGED <<det, paused, ctrl, callVars, job, flags, testVars>>

\* live_discard_cleanup: one more attempt, then a failed row owns the closed note.
OnDiscardCleanup ==
    \E ok \in May("unlink") :
       /\ Receives("LiveDiscardCleanup")
       /\ pipe' = Tail(pipe)
       /\ note' = [note EXCEPT ![Message] = IF ok THEN "removed" ELSE "settled"]
       /\ row' = IF ok THEN row ELSE [row EXCEPT ![Message] = "Failed"]
       /\ At("drain")
       /\ UNCHANGED <<det, paused, ctrl, mgr, callVars, job, flags, testVars>>

NoneDue == \A r \in Calls : job[r] # "due"

\* drain_due_jobs looks at the test's flag once, then claims every due job.
WakeForJobs ==
    /\ pipeline.at = "idle" /\ pipe = <<>> /\ ~NoneDue
    /\ At("drain")
    /\ UNCHANGED <<det, paused, ctrl, mgr, callVars, note, pipe, row, job, flags, testVars>>

DrainDueJobs ==
    /\ pipeline.at = "drain"
    /\ At(IF flags.test \/ NoneDue THEN "idle" ELSE "claim")
    /\ UNCHANGED <<det, paused, ctrl, mgr, callVars, note, pipe, row, job, flags, testVars>>

ClaimJob ==
    /\ pipeline.at = "claim"
    /\ IF NoneDue
       THEN At("idle") /\ UNCHANGED job
       ELSE \E r \in Calls :
               /\ job[r] = "due"
               /\ pipeline' = [pipeline EXCEPT !.at = "claimed", !.rec = r]
               /\ job' = [job EXCEPT ![r] = "running"]
    /\ UNCHANGED <<det, paused, ctrl, mgr, callVars, note, pipe, row, flags, testVars>>

StartBatch ==
    /\ pipeline.at = "claimed" /\ At("batch")
    /\ flags' = [flags EXCEPT !.transcribing = TRUE]
    /\ UNCHANGED <<det, paused, ctrl, mgr, callVars, note, pipe, row, job, testVars>>

FinishBatch ==
    LET r == pipeline.rec
    IN /\ pipeline.at = "batch" /\ At("claim")
       /\ flags' = [flags EXCEPT !.transcribing = FALSE]
       /\ note' = [note EXCEPT ![r] = "settled"]
       /\ row' = [row EXCEPT ![r] = "Done"]
       /\ job' = [job EXCEPT ![r] = "done"]
       /\ UNCHANGED <<det, paused, ctrl, mgr, callVars, pipe, testVars>>

-----------------------------------------------------------------------------
(* The live window and the microphone test                                 *)

NoSlot == [st |-> "none", gen |-> 0, win |-> 0, stop |-> FALSE]

\* reap_finished: a slot whose worker thread has ended is free again.
ReapedSlot == IF slot.st = "Running" /\ tester[slot.gen] = "ended" THEN NoSlot ELSE slot

OpenWindow ==
    /\ window.current = 0 /\ window.last < MaxWindows
    /\ window' = [window EXCEPT !.current = window.last + 1, !.last = @ + 1]
    /\ UNCHANGED <<det, paused, ctrl, mgr, callVars, note, pipe, queueVars, flags, slot,
                   starter, tester>>

\* close_live_window invalidates the generation before it asks for a stop.
CloseWindow ==
    /\ window.current # 0
    /\ window' = [window EXCEPT !.current = 0, !.closed = TRUE]
    /\ UNCHANGED <<det, paused, ctrl, mgr, callVars, note, pipe, queueVars, flags, slot,
                   starter, tester>>

\* stop: a running worker is told, a start under way finds the request.
Stop(asked) ==
    /\ asked
    /\ slot' = [ReapedSlot EXCEPT !.stop = ReapedSlot.st # "none"]
    /\ window' = [window EXCEPT !.closed = FALSE]
    /\ UNCHANGED <<det, paused, ctrl, mgr, callVars, note, pipe, queueVars, flags,
                   starter, tester>>

StopForClose == Stop(window.closed)
UserStop == Stop(window.current # 0 /\ ~window.closed /\ slot.st # "none" /\ ~slot.stop)

\* The checks of start_for_window, each on a flag another thread may be changing.
StartTest ==
    /\ starter.at = "idle" /\ MoreSessions /\ window.current # 0
    /\ slot' = ReapedSlot
    /\ ~flags.recording /\ ~flags.transcribing /\ ~flags.test
    /\ starter' = [starter EXCEPT !.at = "reserve", !.win = window.current]
    /\ UNCHANGED <<det, paused, ctrl, mgr, callVars, note, pipe, queueVars, flags, window,
                   tester>>

\* reserve_start_slot checks the window under the lock that publishes Starting.
ReserveSlot ==
    LET ok == slot.st = "none" /\ window.current = starter.win
    IN /\ starter.at = "reserve"
       /\ starter' = [starter EXCEPT !.at = IF ok THEN "publish" ELSE "idle",
                                     !.gen = IF ok THEN @ + 1 ELSE @]
       /\ slot' = IF ok THEN [st |-> "Starting", gen |-> starter.gen + 1,
                              win |-> starter.win, stop |-> FALSE]
                        ELSE slot
       /\ UNCHANGED <<det, paused, ctrl, mgr, callVars, note, pipe, queueVars, flags,
                      window, tester>>

Publish ==
    /\ starter.at = "publish"
    /\ flags' = [flags EXCEPT !.test = TRUE]
    /\ starter' = [starter EXCEPT !.at = "preflight"]
    /\ UNCHANGED <<det, paused, ctrl, mgr, callVars, note, pipe, queueVars, slot, window,
                   tester>>

starting_canceled == window.current # starter.win \/ slot.stop

\* validate_test_config, then the request to the detector.  The step between two
\* looks at the slot is one step with the look before it.
RequestPause ==
    \E valid \in May("config") :
       /\ starter.at = "preflight"
       /\ IF ~valid \/ starting_canceled
          THEN starter' = [starter EXCEPT !.at = "undo"] /\ UNCHANGED ctrl
          ELSE /\ Len(ctrl) < MaxCtrl
               /\ ctrl' = Append(ctrl, "Pause")
               /\ starter' = [starter EXCEPT !.at = "wait"]
       /\ UNCHANGED <<det, paused, mgr, callVars, note, pipe, queueVars, flags, slot, window,
                      tester>>

\* Two seconds without an answer: the request is abandoned, and a compensating
\* Resume follows it.
PauseTimesOut ==
    /\ "slow" \in Faults /\ starter.at = "wait"
    /\ ctrl' = Append([i \in DOMAIN ctrl |-> IF ctrl[i] = "Pause" THEN "Abandoned" ELSE ctrl[i]],
                      "Resume")
    /\ starter' = [starter EXCEPT !.at = "undo"]
    /\ UNCHANGED <<det, paused, mgr, callVars, note, pipe, queueVars, flags, slot, window,
                   tester>>

\* The paused detector is handed back unless the start goes on.
Handback(ok) == IF ok THEN ctrl ELSE Append(ctrl, "Resume")

\* reserve_test
ReserveModel ==
    \E ok \in May("unlink") :
       LET m == Reaped(mgr)
           free == ~starting_canceled /\ GateIsOpen(m)
       IN /\ starter.at = "paused"
          /\ IF starting_canceled THEN UNCHANGED <<mgr, note, pipe>>
             ELSE mgr' = (IF free THEN [m EXCEPT !.test = starter.gen] ELSE m) /\ Lock(ok, <<>>)
          /\ ctrl' = Handback(free)
          /\ starter' = [starter EXCEPT !.at = IF free THEN "reserved" ELSE "undo"]
          /\ UNCHANGED <<det, paused, callVars, queueVars, flags, slot, window, tester>>

\* release_test lets go of its own reservation only.
Released(g) == IF mgr.test = g THEN [mgr EXCEPT !.test = 0] ELSE mgr

SpawnTester ==
    \E spawned \in May("worker") :
       LET g == starter.gen
           ok == ~starting_canceled /\ spawned
       IN /\ starter.at = "reserved"
          /\ IF ok THEN tester' = [tester EXCEPT ![g] = "loading"] /\ mgr' = mgr
                   ELSE tester' = tester /\ mgr' = Released(g)
          /\ ctrl' = Handback(ok)
          /\ starter' = [starter EXCEPT !.at = IF ok THEN "install" ELSE "undo"]
          /\ UNCHANGED <<det, paused, callVars, note, pipe, queueVars, flags, slot, window>>

\* Mutant: a stop that came while the worker was being spawned is lost.
InstallForgetsStop ==
    /\ starter.at = "install"
    /\ slot' = [slot EXCEPT !.st = "Running", !.stop = FALSE]
    /\ starter' = [starter EXCEPT !.at = "idle"]
    /\ UNCHANGED <<det, paused, ctrl, mgr, callVars, note, pipe, queueVars, flags, window,
                   tester>>

\* The slot becomes Running; a stop that came meanwhile is passed on.
InstallTester ==
    /\ starter.at = "install"
    /\ slot' = [slot EXCEPT !.st = "Running"]
    /\ starter' = [starter EXCEPT !.at = "idle"]
    /\ UNCHANGED <<det, paused, ctrl, mgr, callVars, note, pipe, queueVars, flags, window,
                   tester>>

\* A failed or cancelled start: the flag first, the slot last.
UndoFlag ==
    /\ starter.at = "undo"
    /\ flags' = [flags EXCEPT !.test = FALSE]
    /\ starter' = [starter EXCEPT !.at = "free"]
    /\ UNCHANGED <<det, paused, ctrl, mgr, callVars, note, pipe, queueVars, slot, window,
                   tester>>

UndoSlot ==
    /\ starter.at = "free"
    /\ slot' = NoSlot
    /\ starter' = [starter EXCEPT !.at = "idle"]
    /\ UNCHANGED <<det, paused, ctrl, mgr, callVars, note, pipe, queueVars, flags, window,
                   tester>>

-----------------------------------------------------------------------------
(* run_test_worker                                                         *)

Told(g) == slot = [st |-> "Running", gen |-> g, win |-> slot.win, stop |-> TRUE]

TesterAt(g, from, to) == /\ tester[g] = from
                         /\ tester' = [tester EXCEPT ![g] = to]

\* The microphone is opened unless a stop came while the model was loading.
OpenMic(g) ==
    /\ TesterAt(g, "loading", IF Told(g) THEN "closed" ELSE "open")
    /\ UNCHANGED <<det, paused, ctrl, mgr, callVars, note, pipe, queueVars, flags, slot,
                   window, starter>>

\* A stop, a model that does not load, a microphone that goes away.
CloseMic(g) ==
    /\ \/ TesterAt(g, "open", "closed") /\ (Told(g) \/ "panic" \in Faults)
       \/ TesterAt(g, "loading", "closed") /\ "panic" \in Faults
    /\ UNCHANGED <<det, paused, ctrl, mgr, callVars, note, pipe, queueVars, flags, slot,
                   window, starter>>

ReleaseModel(g) ==
    /\ TesterAt(g, "closed", "released")
    /\ mgr' = Released(g)
    /\ UNCHANGED <<det, paused, ctrl, callVars, note, pipe, queueVars, flags, slot, window,
                   starter>>

ResumeDetector(g) ==
    /\ TesterAt(g, "released", "resumed")
    /\ ctrl' = Append(ctrl, "Resume")
    /\ UNCHANGED <<det, paused, mgr, callVars, note, pipe, queueVars, flags, slot, window,
                   starter>>

ClearFlag(g) ==
    /\ TesterAt(g, "resumed", "exiting")
    /\ flags' = [flags EXCEPT !.test = FALSE]
    /\ UNCHANGED <<det, paused, ctrl, mgr, callVars, note, pipe, queueVars, slot, window,
                   starter>>

TesterExits(g) ==
    /\ TesterAt(g, "exiting", "ended")
    /\ UNCHANGED <<det, paused, ctrl, mgr, callVars, note, pipe, queueVars, flags, slot,
                   window, starter>>

-----------------------------------------------------------------------------

Init ==
    /\ det = [at |-> "idle", rec |-> 0, tee |-> FALSE]
    /\ paused = FALSE /\ ctrl = <<>>
    /\ mgr = [pending |-> FALSE, test |-> 0, active |-> 0,
              awaiting |-> [r \in Calls |-> "none"], discarding |-> [r \in Calls |-> "none"]]
    /\ thread = [r \in Calls |-> "none"] /\ verdict = [r \in Calls |-> "none"]
    /\ outcome = [r \in Calls |-> "none"] /\ taken = [r \in Calls |-> "none"]
    /\ note = [r \in Calls |-> "none"]
    /\ pipe = <<>> /\ pipeline = [at |-> "idle", rec |-> 0, queued |-> FALSE]
    /\ row = [r \in Calls |-> "none"] /\ job = [r \in Calls |-> "none"]
    /\ flags = [recording |-> FALSE, transcribing |-> FALSE, test |-> FALSE]
    /\ slot = NoSlot /\ window = [current |-> 0, last |-> 0, closed |-> FALSE]
    /\ starter = [at |-> "idle", gen |-> 0, win |-> 0]
    /\ tester = [g \in Generations |-> "none"]

Detector ==
    \/ Attach \/ StartOk \/ Install \/ StartFails \/ RebindError
    \/ FinishLive \/ EmitFinished \/ DiscardLive \/ EmitDiscarded
    \/ OnPause \/ OnResume

Session(r) == \/ CreateNote(r) \/ EndFiled(r) \/ EndNoNote(r) \/ EndFallback(r)
              \/ EndDiscarded(r) \/ ReapDiscard(r)

PipelineThread ==
    \/ OnProcess \/ Collect \/ Join \/ Settle \/ OnLiveNoteCreated
    \/ \E kind \in {"LiveDiscarded", "LiveDiscardReap"} : OnDiscard(kind)
    \/ ReapUnspawned \/ OnDiscardCleanup
    \/ WakeForJobs \/ DrainDueJobs \/ ClaimJob \/ StartBatch \/ FinishBatch

Window == OpenWindow \/ CloseWindow \/ StopForClose \/ UserStop

Starter ==
    \/ StartTest \/ ReserveSlot \/ Publish \/ RequestPause \/ PauseTimesOut
    \/ ReserveModel \/ SpawnTester \/ InstallTester \/ UndoFlag \/ UndoSlot

Tester(g) == \/ OpenMic(g) \/ CloseMic(g) \/ ReleaseModel(g) \/ ResumeDetector(g)
             \/ ClearFlag(g) \/ TesterExits(g)

Next == \/ Detector \/ PipelineThread \/ Window \/ Starter
        \/ \E r \in Calls : Session(r)
        \/ \E g \in Generations : Tester(g)

\* Threads that hold work run: a session thread that has its verdict ends, a
\* reaper and the pipeline go on, the detector answers its channel and ends what
\* it has begun, and so do the two threads of the microphone test.  Neither calls
\* nor tests nor the user's stop are promised.
Fairness ==
    /\ WF_vars(\E r \in Calls : \/ EndFallback(r) /\ verdict[r] = "Finish"
                                \/ EndDiscarded(r) \/ ReapDiscard(r))
    /\ WF_vars(PipelineThread)
    /\ WF_vars(StartOk \/ Install \/ EmitFinished \/ EmitDiscarded \/ OnPause \/ OnResume)
    /\ WF_vars(StopForClose)
    /\ WF_vars(Publish \/ RequestPause \/ ReserveModel \/ SpawnTester \/ InstallTester
               \/ UndoFlag \/ UndoSlot)
    /\ WF_vars(\E g \in Generations :
                  \/ OpenMic(g) \/ (CloseMic(g) /\ Told(g)) \/ ReleaseModel(g)
                  \/ ResumeDetector(g) \/ ClearFlag(g) \/ TesterExits(g))

Spec == Init /\ [][Next]_vars /\ Fairness

-----------------------------------------------------------------------------
(* Properties                                                              *)

Sent(kind, r) == \E i \in DOMAIN pipe : pipe[i] = [kind |-> kind, rec |-> r]
Resuming == \E i \in DOMAIN ctrl : ctrl[i] = "Resume"

\* The slot, the manager, the flags and the threads keep to their values, and the
\* pipeline's channel holds only messages about calls that have begun.
TypeOK ==
    /\ det \in [at : {"idle", "starting", "spawned", "recording", "finished", "discarded"},
                rec : 0..MaxSessions, tee : BOOLEAN]
    /\ paused \in BOOLEAN
    /\ mgr.pending \in BOOLEAN /\ mgr.test \in 0..MaxSessions /\ mgr.active \in 0..MaxSessions
    /\ \A r \in Calls : /\ mgr.awaiting[r] \in {"none", "Running", "Collecting", "Ready"}
                         /\ mgr.discarding[r] \in {"none", "Reaper", "Reaped", "Inline",
                                                   "Collecting"}
    /\ \A i \in DOMAIN pipe : pipe[i].rec \in 1..det.rec

\* Two model sessions never overlap: neither two calls' session threads, loading,
\* consuming, flushing or draining after a discard, nor a call's and the
\* microphone test's.
OneModel ==
    Cardinality({r \in Calls : thread[r] = "running"})
      + Cardinality({g \in Generations : tester[g] \in {"loading", "open"}}) <= 1

\* A test that has its model or the microphone owns what it borrowed: the slot is
\* reserved under its own generation, its flag is up, no recorder runs and the
\* detector sleeps.  A suspended detector always has somebody who will wake it: a
\* Resume on its way, a start under way, or a worker that has yet to resume it.
TestOwnsDetection ==
    /\ \A g \in Generations :
          tester[g] \in {"loading", "open", "closed"} =>
             mgr.test = g /\ flags.test /\ paused /\ det.at = "idle"
    /\ paused => \/ Resuming \/ starter.at \in {"paused", "reserved"}
                 \/ \E g \in Generations :
                       tester[g] \in {"loading", "open", "closed", "released"}

\* The microphone test and the calls exclude each other, both in the model they
\* share and in the detection one of them has suspended.
TestIsExclusive == OneModel /\ TestOwnsDetection

\* No note is left saying "transcribing", and no row saying "Recording", that
\* nobody will see to: the session still runs, the manager or a cleanup message
\* holds the note, or the pipeline has a job that rewrites it; and a row of a call
\* that is over still has the message coming that moves or closes it, unless the
\* queue refused the recording.
NothingDangles ==
    \A r \in Calls :
       /\ note[r] = "transcribing" =>
             \/ thread[r] = "running" \/ Sent("LiveDiscardCleanup", r)
             \/ det.at = "spawned" /\ det.rec = r
             \/ mgr.active = r \/ mgr.awaiting[r] # "none" \/ mgr.discarding[r] # "none"
             \/ job[r] \in {"due", "running"}
             \/ pipeline.at \in {"settle", "reap"} /\ pipeline.rec = r
       /\ row[r] = "Recording" =>
             \/ det.rec = r /\ det.at # "idle"
             \/ Sent("Process", r) \/ Sent("LiveDiscarded", r) \/ job[r] = "refused"
             \/ pipeline.at \in {"collect", "join", "settle", "reap"} /\ pipeline.rec = r

\* The pipeline gets exactly what the call's own session produced: collect finds
\* nothing only when the call had no session, and a session whose call was kept is
\* never discarded, nor the other way round.
CollectsItsOwn ==
    \A r \in Calls :
       /\ taken[r] = "None" => thread[r] = "none"
       /\ taken[r] \notin {"none", "None"} => verdict[r] = "Finish" /\ taken[r] = outcome[r]

\* A microphone test that is asked to stop, by the user or by its window closing,
\* at whatever point of its start, gives the model, the flag and the slot back.
StopIsHonoured ==
    \A g \in Generations :
       (slot.st # "none" /\ slot.gen = g /\ slot.stop)
          ~> (mgr.test # g /\ tester[g] \in {"none", "ended"} /\ ~(slot.st = "Starting" /\ slot.gen = g))

\* The note of a discarded session is deleted, or closed and owned by a failed row,
\* whichever of the four threads gets to it and however often the deletion fails.
DiscardIsCleaned ==
    []<>(\A r \in Calls : verdict[r] = "Discard" => note[r] \in {"none", "removed", "settled"})

\* A session that was told to stop or discarded gets there, at whatever point of its life
\* and whoever has to finish it.
SessionsAreEnded == StopIsHonoured /\ DiscardIsCleaned

\* "Test mode is deliberately exclusive with model-backed work" (pipeline.rs): no
\* batch transcription runs while the microphone test has its model.
TestExcludesBatch ==
    ~(pipeline.at = "batch" /\ \E g \in Generations : tester[g] \in {"loading", "open"})
=============================================================================
