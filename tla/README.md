# corti, as TLA+

corti watches the microphone, records calls, transcribes them and files one note per
recording into a vagus vault. These modules model the parts of it that decide *whether a
call becomes exactly one finished note*: the call detector, the capture path from the audio
callback to the file, the quality record beside it, live sessions with the note they write
and the microphone test, the durable jobs table, the pipeline thread, and hosted
post-processing with its journal. TLC checks them on small instances, TLAPS proves the central
invariants for every value of the constants.

## The system

| Component | State | Operations | Talks to |
|---|---|---|---|
| Call detector (`corti-detect`) | `Machine` (Idle, Arming, Recording, Coasting), current recorder, paused | edges, timed wakeups, rebind, pause, resume, shutdown | HAL listeners by channel, recorder by blocking calls, app by events |
| CoreAudio listeners (`corti-coreaudio`) | bound device, pending notifications | re-read and post | detector's channel |
| Microphone test (`live_test.rs`) | test slot, generation | pause detector, open and close microphone, resume | detector, live manager |
| Live sessions (`live.rs`) | active, finishing and discarding sessions, note writer | spawn, finish, discard, collect, reap | detector (verdicts), pipeline (messages, outcome) |
| Live transcriber (`corti-transcribe-local`, boundary policy of `corti-transcribe`) | per track: resampler, voice detector, retained audio, fence; the policy of the window | push, poll, latch, advance, acknowledge, end | the session thread, which owns it |
| Pipeline thread (`pipeline.rs`, `jobs.rs`) | its `Ctx`; everything that matters is on disk | one handler per message, one per claimed job, startup recovery | queue, jobs, checkpoint, vagus, AWS, hosted |
| Recordings queue (`corti-queue`) | one row per recording: status, note path | enqueue, update, complete, fail, retry | SQLite |
| Jobs table (`corti-jobs`) | rows: state, attempts, budget, payload | enqueue, rearm, claim, settle, recover | the same SQLite file |
| Filing checkpoint (`checkpoint.rs`) | transcript, owned note, origin, AWS staging | store, load, remove | files beside the audio |
| Notes (`corti-vagus`) | files in the vault's inbox | add, append, rewrite, flip the state line | the user, who moves notes |
| Capture (`corti-capture`, `capture*.rs`) | rings, timeline, writer | push, write, stop, account | HAL real-time thread |
| Quality record (`quality_store.rs`) | four names beside the audio: the record and three transaction files | begin, persist, finalize, certify, settle, recover, roll back | capture writer, every attempt, other processes |
| Hosted post-processing (`corti-chat`, `postprocess_app.rs`) | control revisions, lanes, ledger, outbox | admit, cancel, settle, apply | providers by HTTP |
| Pure algorithms | — | segment planner, quality merge, lexicon, AEC | |

What is hard in it, and what would make each part correct:

- *Detector.* Notifications are late and re-read the device, recorder calls block the
  thread while requests queue up, and corti's own capture holds the device it watches. It is
  right if the machine and the recorder never disagree, the test and the detector never both
  own the microphone, and every start gets one end.
- *Jobs.* Several callers arm the same recording while its handler runs, and the process may
  die in any handler. It is right if work has one owner, attempts are always charged, and
  evidence is never lost.
- *Pipeline.* Six kinds of durable state are written one after the other, each write can fail
  and the process can die between any two. It is right if a recording gets to a terminal row,
  decodes within its budget with the backend it started with, and is filed once.
- *Live sessions and the microphone test.* One local model and one microphone are passed
  between the detector, session threads, reapers, the pipeline and a window that may close at
  any moment. It is right if there is one model, detection always comes back, and every note
  and row has somebody who will finish it.
- *The live note.* A call is filed in windows while it goes on: a cut is chosen, both tracks
  have to settle it, and meanwhile audio of the next window arrives, all within budgets of
  samples and text computed beforehand. It is right if no word falls between two windows or
  into both, the budgets are enough, and a note that is not whole says what it lacks.
- *Capture.* A real-time callback that may not wait feeds two bounded rings, under a format
  that changes without a lock. It is right if the writer can follow whatever was admitted, no
  frame vanishes unrecorded, and stopping ends.
- *Quality records.* The file that says whether the audio is complete is replaced by the
  capture writer and by attempts in several processes, and every call on the way may fail or
  be the last before a power failure. It is right if a certificate is true of what is on disk
  and nothing that was acknowledged is lost.
- *Hosted calls.* Requests cost money and answers come late. It is right if nothing that was
  switched off or superseded is applied, limits and deduplication hold at the moment of
  sending, and a crash neither repeats an ambiguous purchase nor loses its accounting.

`PROJECT.json` lists the hazards at their lines, and the properties that would catch them.

## Modules

| Module | Models |
|---|---|
| `Detector` | `machine.rs`, `platform.rs`, the listeners, and the test's use of `pause`/`resume` |
| `CaptureLifecycle` | what the detector promises: non-overlapping sessions, announced when they begin and when they end |
| `RecordingJob` | the payload of a recording's job, its merge, and what each operation makes of a row |
| `Jobs` | the jobs table with recordings, chores and periodic sweeps |
| `Pipeline` | one recording through the pipeline thread, with failures, crashes and restarts |
| `RecordingDelivery` | what the pipeline promises about one row: open, done, failed |
| `LiveSessions` | `LiveManager`, the session threads and reapers, `LiveTestManager` and the pipeline's side of both |
| `BoundaryPolicy` | `boundary.rs` of `corti-transcribe`: where a filing window ends |
| `LiveChannel` | one track of the local decoder as operators: feeding, fences, resets and replays |
| `LiveNote` | a session thread from its first chunk to its outcome, with the note it files |
| `CaptureTimeline` | `capture_accounting.rs` as operators: what a callback becomes |
| `Capture` | the callback, the format observer, the rings, the writer and the stop handshake around it |
| `QualityStore` | `quality_store.rs` with its publishers: the capture writer and the attempts to transcribe |
| `Coordinator` | `coordinator.rs`, the Vertex credential, and the service thread that drives them |
| `FinalJournal` | the paid final pass of one recording: journal, cache, outbox, checkpoint, crashes |
| `DetectorProofs`, `JobsProofs`, `CaptureProofs`, `CoordinatorProofs`, `FinalJournalProofs`, `PipelineProofs`, `QualityStoreProofs`, `LiveSessionsProofs` | the theorems |
| `MC...` | constants for TLC |

`Pipeline` and `Jobs` share `RecordingJob`, so that the job the pipeline uses is the one
whose table is checked. An operator marked *Mutant* is a plausible wrong version of the
definition that follows it; each property is shown to fail with one of them, and no
specification uses them.

### Detector

`mach` is the `Machine`; instants are elapsed times that saturate at `Horizon`, since the
code only compares them with windows. `pc` says whether the worker is in `recv` or inside a
blocking `start`, `finish` or `discard`; `inbox` is its channel, in which `PauseAbandoned` is
a `Pause` whose caller has dropped the reply. `edge` is a notification of the monitored
device that has not been delivered; the callback posts what it reads *then*. `held` are the
devices other applications use (those that count as call owners); a running recorder or test
holds `capDev` too. Each arm of `Worker::run` is an action; `apply` is the pair of entering
and leaving the recorder call, so that everything else can happen in between. Faults: a
recorder that does not start or finish, a rebind that fails, a HAL read that fails. All but the last
announce the same `Error`: one that ended the session, one that refused it, and one the recording
survives cannot be told apart by the event, so that `CaptureLifecycle` lets `Report` come at any
time. (`main.rs`:555 clears its recording flag on each of them.)
`PromptHal` says whether notifications beat the clock, which `CallEndsRecording` needs; the
run assumes it, the theorems do not.

### Jobs

`table` maps ids to rows, `claims` holds the claim of the running handler (the pipeline
thread runs one at a time), `runs` is a history count. Recording operations find their row by
identity (`Existing`), chores by payload while active, sweeps by kind. `CrashAndRecover` is
the death of the process followed by `recover_running`. When a pending job is due is left
open: backoff and periods only delay a claim.

### Pipeline

`disk` is what survives: row, job, checkpoint, audio, notes. `w` is the thread, with the
locals a handler carries from one write to the next; `inbox` its messages in order; `live` the
call and its session; `log` counts ASR runs, backends used and texts sent out. Every durable
write is one action through `Write`, which either saves or, within `MaxFaults`, fails and goes
where the code's error path goes. `Crash` can happen anywhere and restarts the thread at
`startup`. A note is absent, open, closed, whole or spoiled (a whole note annotated as
incomplete); notes that are not open may be moved away by their owner. One recording is
enough, because rows, jobs, checkpoints and notes are keyed by recording and the thread is
serial; what other recordings contribute is delay, and every message may wait arbitrarily.
Init also has a recording an older version left at PendingNote without a checkpoint.

Abstracted: AWS staging is one fallible step before filing, hosted post-processing is a
choice of sending the text when permitted (its protocol is `FinalJournal`'s), the audio file is
present or not (and may vanish from the cache directory, within `MaxFaults`). Cleanup of
expired files (`Sweep`) may leave any subset of files behind.

### LiveSessions

`mgr` is `Inner` of `LiveManager`: the pending tee, the test's reservation, the active session
and, per call, its place among the awaiting and discarding ones. Every manager operation is one
step, its leading `reap_completed` included, because it is one critical section; what happens
between two of them (a spawn, a join, a send, the detector's event) is a step of its own.
`thread`, `verdict`, `outcome` and `note` are the session threads, `pipe` and `pipeline` the
pipeline's channel and where it stands, `slot`, `window`, `starter` and `tester` the microphone
test. Faults: a recorder or thread that does not start, a session that panics, an unlink or an
enqueue that fails, a detector too slow to answer a pause. What a session hears is left out: it
ends with a filed note, no note, a fallback or a discard, and `LiveNote` says which. `Detector`
has the same pause protocol with time; here the detector's machine is reduced to the calls it
starts and ends.

### BoundaryPolicy, LiveChannel and LiveNote

The session thread of `LiveSessions`, opened up. A position is a frame of the session's clock
and one 16 kHz sample at the same time; the words of a position of speech are the position,
so that a note's text is a set of positions per track and "the same word twice" can be asked.
`BoundaryPolicy` is a value with one operator, `Observe`; the frames `common_natural_cut`
searches are a set and the code's choice its least element. `LiveChannel` is a record per
track: `delivered`, `fed` and `accepted` are how far the audio got (to the channel, out of the
resampler, into the detector), `base` what is retained for a replay, `owned` and `attempted`
whose it is, `fence` the cut that is being settled. Its capacities (`Reserve`, `MaxRetained`,
`MinimumEpoch`...) are the sums the code computes. `LiveNote` has the loop: `Admit` asks the
policy, `PushFrames` delivers, `Settle` latches and advances both tracks, `FileWindow` files
the window and acknowledges, and the steps after the verdict are those of `finish_session`.
`win` is the window's text with the short microphone polls that are held as possible echo,
`writer` the note writer's positions, losses and final ledger, `note` the file.

The voice detector and the recognizer are external. What the code relies on is assumed:
speech is noticed at most `Latency` samples after it begins and `Latency <= Guard` (the
ACCEPTED_GUARD), a region ends with `Silence` silent samples or a flush. The choices left
open in each push are how much the echo canceller and the resampler hold back.

Left out: rounding between source frames and samples, a change of the sample rate, the
acoustic evidence behind the echo verdict (a call has it always or never), clustering of
speakers, the cleanup of what a window renders, the live view, and windows of the older
splitting without fences.

### CaptureTimeline and Capture

The timeline is a value, and each of its methods an operator from the value before to the value
after; `Capture` holds it as `tl`. The format (`fmt`) is a seqlock: `snapshot` loads dirty, the
generation, the rate, the generation and dirty again, and the listener and the format worker may
store between any two. Each load of a callback (`cb`) is a step: the first of dirty is part of the
step that begins the snapshot (`Opened`), the last of the step that uses it (`Snapshot`). The load
of the rate is one step with the second load of the generation, since the rate is stored only while
the generation is odd. The rings (`pcm`, `descs`) change between reservation and the two
publications. `cb.fresh` is history: whether, when the second snapshot began, the bound format was
the published one and no notification waited for its query. `worker` is the thread that asks the
device for its format, `session` the thread that stops or drops the capture, `w` the writer and
`record` the set of frames it has written, positioned as lost or covered by an omission. A
clock is what its reading differs from the expected one by (`Stamps`): steady, a gap longer
than the fill cap, a reset backwards, a late host time. Time is exact ticks; the rounding of
the fill cap to nanoseconds on one side and to an exact ratio on the other is not modelled.

### QualityStore

`dir` is what the four names and the audio stand for now, `options` what each may stand for
after a power failure: a name keeps every value it had since the directory was last synced
(`SyncParent`), each independently of the others, so a rename may be half there. Content is
written and synced before a second name refers to it, so a hard link is a copy. Every call to
the file system that changes something, and every read of an attempt, is a step of its own, so
that three publishers interleave between any two; `pc` says where a publisher stands in `publish`,
`publish_owned` and `rollback`, `prior` and `owned` what it must take away again. `Kill` ends one
process and leaves the files, `PowerFailure` ends all. `acked` is what calls that returned Ok have
promised. Init has a new recording, or the WAV of an older version without a record. Attempts are
a retry and a redo; each reads frame count, transaction files, record and backup one after the
other, adds one fact and settles.

Left out: that a batch pass marks processing losses as recovered, the caps on spans and epochs,
the copy of the capture's record in the queue row, the `-clean` derivative, and the removal of the
files with the recording.

### Coordinator

One thread owns the state, so an action is a whole command, answer or deadline. A call record
carries its stage, its fence (the control revisions when it was submitted), whether its token
is cancelled, and the history bit `voided`. Requests are model values with a lane, a key, a
provider and a subscription, so equal keys are identical requests; prompts, costs and the
reasons of an ending are left out. `Complete` lets a rejected credential block its provider for stale
answers too, which the code does not: it only adds behaviours. Deadlines and promotion are open: they may happen at any
moment. `RestoreBaselines` is what `finish_queued_*` does for a pinned question, `Fallout` what
the application does to the rest of a group when one chunk ends.

### FinalJournal

Durable: `journal`, `cache`, `outbox`, `imported` and the filing `checkpoint`. The service's
part (`owned`, `pending`, `queue`, `active`, `awaiting`...) is lost by `Crash`, which may come
anywhere; a crash between two writes of one handler is that handler with the later write failing,
and then `Crash`. Scheduling is `Coordinator`'s subject and here any queued chunk may go next.

A call is an attempt and a chunk, and every attempt has its group. `StartFinal` begins a hosted
session when there is none and keeps the recording's own: when `finalize` gave up waiting and the
filing checkpoint could not be written, the retry submits a second group beside the first one, which
is still `pending`. From then on both have rows, places in the queue and workers, identical
requests of the two wait for each other (`WaitIdentical`), and `recover_final` reads the rows of the
group whose row was pushed last (`latest`). `beside` remembers the attempts that did so. The
final pass of a live session, which `live.rs` runs inside the session before the outcome is
collected, is not modelled: there the session outlives the group.

## Runs

| Run | Checks | Distinct states |
|---|---|---|
| `Detector` | `MachineOwnsRecorder`, `TestOwnsDetector`, `NoSpin`, `LifecycleSpec`, `CallEndsRecording`, `PauseNeverSticks` | 465 k |
| `Jobs` | `HandlerOwnsRow`, `RunsAreCharged`, `EvidenceOnlyGrows` | 193 k |
| `Pipeline` | `StartedWorkIsOwned`, `DataStaysAuthorized`, `FiledOnceUnlessCrashed`, `DoneNoteIsSettled`, `AsrIsBounded`, `DeliverySpec` | 1.9 M |
| `PipelineLive` | `Delivered` | 148 k |
| `LiveSessions` | `TestIsExclusive`, `NothingDangles`, `CollectsItsOwn`, `SessionsAreEnded` | 394 k |
| `LiveNote` | `TranscribedIsWhole`, `WordsHaveOneOwner`, `LossIsTold`, `NothingExhausted` | 476 k |
| `Capture` | `WriterFollows`, `EveryFrameIsAccounted`, `FormatIsFresh`, `StopEnds` | 1.2 M |
| `QualityStore` | `CertificateIsTrue`, `AcknowledgedIsKept`, `RefusalLeavesNoBarrier` | 2.5 M |
| `Coordinator` | `EgressIsBounded`, `ProgressIsAsked`, `WaitersProceed` | 46 k |
| `CoordinatorFinal` | `QuestionStatusIsTrue`, `EndsOnce`, `VoidedIsNeverApplied` | 330 k |
| `FinalJournal` | `AmbiguousIsNotRepeated`, `PaidIsAccounted`, `AppliedAsAWhole` | 1.7 M |
| `CaptureRemap` | `LossIsRemapped`: **violated** | |

Run one with `tlc -config Pipeline.cfg MCPipeline`. Each module also states its `TypeOK`, which
holds in the same instances and is proved for `Detector`, `Jobs`, `Coordinator`, `FinalJournal`,
`Pipeline`, `QualityStore` and `LiveSessions`; that sweeps stay scheduled (`SweepsStayScheduled`) is proved and needs no run.

Bounds. *Detector*: two devices, so that a recorder can run on a device that is no longer
the default; windows 2, 3 and 4 ticks with a poll of 1, which keeps their order in the code
(poll < debounce < coalesce < minimum length) and leaves room on both sides of each; two
queued messages, a request and its compensation behind a blocked worker. With three messages
and late notifications (2.6 M states) the safety properties were checked too. *Jobs*: one
recording with two competing notes, one chore, one sweep, three rows and budgets 1 and 2; the
theorems cover the rest. *Pipeline*: one automatic retry, one manual
retry, two crashes and three failures, enough for an attempt to fail, its recovery to fail
and the recovery of that to be cut short; four notes, so that a duplicate is always possible.
*LiveSessions*: two sessions in all, each a call or a test, which is what it takes for one to
meet the remains of the other; one window, three queued control messages.
*LiveNote*: windows of six frames with three of deferral, chunks of two, guard, detector window,
silence and preroll of two and one frame of lag on each side, so that every fence falls in
the middle of something; 44 calls: three long enough for a maintenance reset, every pair of
three ways to talk on each track with a far end that comes at once or in the second window,
and five in which one operation fails. Text budgets are small enough to be full. Natural,
forced, text-full and maintenance cuts, a track that latches a fence another has already
settled, and calls that end behind an unsettled fence all occur.
*Capture*: a PCM ring of one callback and five descriptors, the least the timeline's own
assumption allows with two pending ones, so that it overflows at once; four callbacks (an
epoch, a loss, a second loss that exceeds the cap, audio), one format change, a fill cap of one
second at rates 1 and 2, three epochs so that identifiers run out. A larger instance with
backward resets and late host times (8.4 M states) was checked for the same invariants.
*QualityStore*: the writer and two attempts, one capture loss, one frame, two failures (a sync and
its rollback) and one crash. With two frames, so that audio follows a settlement, and two crashes
(11.5 M states) the same invariants hold. Two attempts are not enough for everything: with a third,
a recording that has no record of its capture loses `AcknowledgedIsKept` (see below); the theorems
cover any number of attempts for the others.
*Coordinator*: two calls with one key in the first run, for deduplication and waiting, which is the
clause of `EgressIsBounded` that this run exercises: with two calls the numeric limits never bind,
and the theorem `CoordinatorEgressIsBounded` is what covers them; in the
second a live call, a question and a group of two chunks, which are interchangeable, with one slot
less than calls; one control change in both, since two are no new case for the fences (the first
run was checked with two, 265 k states) and the theorems have no bound. `MCRelevant` leaves out
changes of pinned questions where there are none.
*FinalJournal*: two chunks, so that a group can be half done, and two attempts, which follow each
other, meet after a crash or overlap; all three kinds of writes may fail at any time.

Fairness. In `Detector` the worker, the listener and the clock are weakly fair: the worker is
a dedicated thread in a loop, the HAL delivers, time passes. Applications, users and device
switches owe nothing. In `Pipeline` the thread's next step and the end of a live session that
was given its verdict are weakly fair; nothing obliges calls to end, users to retry or notes
to move, and faults are finite in number. `Delivered` leaves two failures out because the
code really does wait for a restart after them: a settlement that cannot be written and a
startup that cannot requeue running jobs. `CallEndsRecording` supposes that microphone tests
stop being requested: every message restarts `recv_timeout`, so an endless stream of them
postpones the poll. In `LiveSessions` the threads that hold work go on; a session ends once it
has its verdict, and a test that was told to stop closes its microphone. In `Capture` the four
threads go on; a callback that has begun returns. In `Coordinator` workers answer (every
request has a deadline) and dispatch is strongly fair: the service thread dispatches until
nothing is eligible on every turn of its loop, so a call that is eligible again and again is
reached.

## What the runs show

The passing runs are in `PROJECT.json`. One more, `CaptureRemap`, shows a disagreement between
the code and what it says of itself: *a loss may come without the epoch it needs*.
`capture_writer.rs` relies on "a later resynchronizing epoch" after a loss it does not fill. A
sample clock that goes backwards leaves an overflow fact and a fresh epoch pending; if the ring is
full for that callback or the next, the timeline sends epoch, loss, overflow and audio without
another epoch, the writer refuses to fill a run that has an overflow, and the recording fails with
"capture loss requires a new source mapping".

### Other disagreements met while modelling

These are stated as properties too, kept out of the runs above, and fail in a few states when
they are added to a configuration.

- `Detector!HeldMicIsRecorded` (one device, no faults, no tests). README.md:12: "Microphone use
  starts recording". If an application opens the microphone while the previous recorder is
  being finished, the device was running before and after: no edge, and the machine is Idle.
- `Pipeline!NothingStranded` (no faults, one crash). `corti-queue` lib.rs:4: "each non-terminal
  state is resumable on startup". A crash between inserting the row of a finished call and arming
  its job, or between the two writes of `live_note_created`, leaves a PendingTranscription row
  that neither startup pass takes up. A comment at startup says that other first-attempt states
  are out of scope for now.
- `Pipeline!FiledOnce` (no faults, one crash). `corti-queue` lib.rs:12: "`note_path` is stored
  so a re-file doesn't duplicate the note". The path is stored after vagus returns; a crash in
  between files again. `FiledOnceUnlessCrashed` shows that crashes are the only way.
- `Pipeline!WholeNoteStaysWhole` (faults "row", "ckpt", "asr"; three failures). `jobs.rs`:418:
  "Canonical ownership always beats a partial path." `fail_with_note` asks the checkpoint first.
- `Capture!TerminalIsRecorded` (steady clock, two callbacks, no faults). `capture_writer.rs`:274:
  terminal descriptors are published before the producer closes, "Thus loss accounting always
  precedes ... final publication". The writer pops first and asks `is_abandoned` afterwards;
  stop may push and close in between, and the descriptors stay unread.
- `Capture!NoPcmWhileUnasked` (steady clock, one callback, one format change). `capture_format.rs`:38:
  "no PCM is accepted until the control worker completes a query without a later invalidation".
  After the second snapshot has read generation 2 twice, a notification, the withdrawal (generation 3)
  and the clearing of dirty may all come before its last load of dirty, and the samples are
  admitted. `FormatIsFresh` says what is left: the notification came after the samples were copied.
- `FinalJournal!AmbiguousIsNotRepeated` without `Alone` (two attempts, one chunk, only the filing
  checkpoint fails). `coordinator.rs`:2884: a crash "can never silently repeat a paid request whose
  body may have left the process", and `postprocess_app.rs`:3407 wants no "blind group retry". No
  crash is needed: `finalize` gives up two seconds after the deadline, when the service is late in
  expiring the group, with the first group's row Prepared; the checkpoint cannot be written, and the
  retry adds a second group beside the pending one (`postprocess_app.rs`:5733). Its chunk is sent
  and answered; then the first group's is sent as well, because a Prepared call does not look in
  the cache again. That pays twice for one text. What holds of overlapping attempts is that the two
  requests never run at the same time, and that both are accounted for.
- `LiveSessions!TestExcludesBatch` (no faults). `pipeline.rs`:447: "Test mode is deliberately
  exclusive with model-backed work". `drain_due_jobs` reads the flag once, before a loop of jobs.
- `FinalJournal!CheckpointIsAcknowledgeable` (one attempt, no faults). `coordinator.rs`:3903 says
  acknowledgement is retryable after a restart. `begin_session` abandons every group that waits
  for its acknowledgement, applied ones too, so a call that starts between the two marks makes
  `recover_final_boundaries` fail on every replay of the checkpoint.
- `Coordinator!CachedIsNotBought` (a question and two identical pinned calls on one provider with
  one slot). `coordinator.rs`:2845 says a validated result fans out "instead of issuing a
  duplicate". A call that missed the cache while the provider was saturated stays Prepared and
  is sent even though the identical result was cached meanwhile.

- `QualityStore!AcknowledgedIsKept` (three attempts, one failure, no crash, an imported recording
  without a record). `quality_store.rs` keeps `previous` so that a reader can tell what an
  interrupted publication replaced. One attempt swaps its record in and its commit sync fails; a
  second links that record as `previous`; the first undoes its swap, and a third publishes and is
  acknowledged. The second still holds a `previous` which the new record does not extend, so a
  reader gets an error until the second goes on (it refuses and removes the link), and for good if
  it is killed there. A recording with a capture record is safe (`CapturedIsKept`): every attempt
  extends that one, so there is no first publication to undo.

Also seen: a sweep that removes the checkpoint but not the audio loses the evidence of filing; a
late `LiveNoteCreated` may replace the note path of a Done row (`RecordingDelivery` allows it); the
checkpoint branch inside `transcribe_and_file` cannot be reached from the job path, which routes
on the checkpoint first; when the enqueue of a finished call fails after its live row was created,
that row stays at Recording until the next start (`NothingDangles` excludes it); errors of
`record_terminal` are ignored, so an outbox that refuses a terminal at the end of a call loses it
(`unrecorded` in `FinalJournal`); callbacks after the timeline has stopped are not counted as
dropped, only covered by the sticky omission; a publication of the quality record that a crash cuts
short leaves a transaction file, and since nothing but the deletion of the recording removes it,
every later settlement is refused as an interrupted publication, after the attempt has decoded
(`RefusalLeavesNoBarrier` speaks of runs without crashes for that reason).

Read in the code, not modelled yet: an AWS job that is still in progress when its staging is
cleaned (a timeout, a changed bucket, a spent budget) may write its output after the objects were
deleted and the local marker cleared; nothing then owns that object (see item 3 of the plan).

## Proofs

`DetectorProofs`: `Inv` is inductive. It joins the three checked invariants with `CallInv`
(a worker inside a start or stop call is not paused, holds the recorder it is about to stop
and none when it is about to start one), `QueueInv` (at most one live `Pause` is queued,
nothing that could revoke it is queued behind it, and none is queued while the test owns the
detector) and `EventInv` (the last announcement while a recorder runs is its start or an error). `CallInv` is
needed because other steps happen while the recorder call blocks; `QueueInv` because what the
test may rely on is decided by requests queued earlier. From it follow `DetectorTypeCorrect`,
`DetectorOwnsRecorder`, `TestKeepsDetector`, the action property `WakeupsDoNotSpin` and the
refinement `DetectorRefinesLifecycle`, for all devices, windows, channel bounds and faults
that satisfy `WindowAssumption` and `BoundAssumption`.

`JobsProofs`: the conjunction of `TypeOK`, `OneRowPerOwner`, `HandlerOwnsRow`,
`RunsAreCharged` and `OneClaim` is inductive by itself; the step lemmas show for each operation
that it preserves it, that payloads only grow (`EvidenceIsMonotone`) and that sweeps stay
scheduled (`SweepsKeepTicking`). The assumptions are `OwnersAssumption` (the three kinds of owner
are disjoint) and `TableAssumption` (types of the bounds).

`CaptureProofs`: `FormatStaysFresh` for every ring size, rate, set of clocks and number of
callbacks. `FormatIsFresh` is not inductive: it speaks of a callback that is publishing, and its
truth depends on what the loads of two snapshots saw. `FormatInv` says that the generation is even
exactly while no refresh is under way, and that a notification no query has answered is still marked
dirty, or its query is next; so a clean mark under an even generation means that nobody waits
(`CleanIsAsked`), which is what clearing `dirty` before the query, and withdrawing the generation
before that, are for. `SeenInv` says that what a snapshot has read was published with its rate and
is not newer than the format. `RecheckInv` carries the argument through the loads of the second
snapshot: generations never come back, so if the bound one can still be read after the first load
of dirty found no mark, it was the published one at that load.

`CoordinatorProofs`: `Inv` is inductive for all calls, lanes, limits and numbers of control
changes. It joins `TypeOK` with `FenceInv` (the fence of a call never runs ahead of the revisions),
`VoidInv` (a voided call is still outstanding, and behind the revisions or its worker's token is
cancelled) and `GroupInv` (while the application waits for the Final group all its chunks are under
way, and once it has the text all wait to be settled). Every action is shown to be a `CallStep`, which says per call how its stage may move;
`EndsOnce` and `VoidedIsNeverApplied` follow from that relation alone. `QuestionStatusIsTrue` needs
the same for the question shown. `EgressIsBounded` holds because dispatch is the only step that
starts a call and it counts first, and `ProgressIsAsked` because every way out of the queue gives
the baseline back (`SubscriptionInv`).

`FinalJournalProofs`: for every set of chunks, number of attempts and set of failing writes
(`FinalJournalAssumption`). `Inv` joins the types with

- `QueueInv` and `PendingInv`: what a queued call may have, and which groups can be pending together;
- `RowInv`: what was sent is on record (`SentInv`), attempts to come have no rows, `latest` is the
  last attempt with rows, and a later attempt has rows only if what earlier ones sent was given up
  (`OrderInv`), the last two while no group was joined by another;
- `SendInv`: a call of an attempt that is `Alone` may ask the provider only when everything earlier
  attempts sent was given up (`AskInv`), which stays so once it is sent too (`PairInv`), and no two
  workers have the same chunk;
- `PaidInv`, `SettledInv` and `PhaseInv`: the accounts, the results of groups and what they allow.

The order is what `AmbiguousIsNotRepeated` hangs on: a chunk is asked for again after looking at the
latest group only, and `AskingIsSafe` shows that the worst row of that group speaks for all earlier
ones. `PendingInv` bounds what overlapping attempts can spoil: the attempts before the first overlap
keep the guarantee. The steps are proved through what they do to one row (`RowStep`), to the order of
groups (`LatestStep`), to workers and to accounts; `StepKeeps` puts that together, and an action
only has to be shown to be such a step. `PaidIsAccounted` and the action property `AppliedAsAWhole`
follow and hold with any overlap.

`PipelineProofs`: one recording with any number of failures, crashes, retries, backends and notes
(`BackendsAssumption`, `BoundsAssumption` and those of `RecordingJob`).

- `Inv` is `Types`, `Good(disk, w)`, `InboxInv`, `SessionInv` and `CallAt`. `Good` has three parts:
  `Kept` (started work has a job that is pending or running wherever the thread is, and only a
  settled row has a failed one), `RowAt` (which status the row can have at each place of the thread) and `ClaimAt` (the
  claim the thread holds is the running job with the same attempts and budget, and it parks it
  only with budget left or under a terminal row). `StartedWorkIsOwned` is not inductive: it
  speaks of an idle thread only, and parking, settling or arming keep it because of what the
  thread holds and what the row is at that place. `InboxInv`, `SessionInv` and `CallAt` are needed since the verdict of a call waits in the
  channel, and until it is taken up no job or checkpoint may exist.
- `XKeeps`, one lemma per action, shows `Inv'` and `Delivers(disk')`, what a step may make of the
  row. `Delivers` is the refinement of `RecordingDelivery` step by step
  (`PipelineImplementsDelivery`).
- `DataInv` gives `DataStaysAuthorized`. It says that one backend x is the origin in the job, the
  claim, the checkpoint and the thread's copy of it, wherever it is known, and the only one that has
  decoded; and that nothing was sent while the permission of the first attempt is unused.
  Most steps are *tame* (`TameStep`): they carry origins along and give no permission. The others
  (arming, claiming, decoding, the live session, the verdict) are treated one by one; `LiveData`
  says what is known while there is no origin on disk yet.
- `NoteInv` gives `DoneNoteIsSettled`. It says that whatever is canonical (in the checkpoint, the
  job, the claim or the thread) names a note that is settled (`SoundAt`), that a checkpoint is filed
  where there is one and nothing is decoded where there is (`CkptAt`), that nothing relies on
  the note of a discarded call while it may still be deleted (`DiscardAt`), and in which order the
  messages stand in the channel (`OrderInv`). The hard case is a `LiveNoteCreated` that is taken up
  late: it writes the path of the live note to a row that may be `Done` by then. `QueuedAt` says
  that while that message is queued and the note is still open, the note is the only one that row,
  job, checkpoint and thread know, so that a recording that ends settles it; and `UnbornInv` that
  nothing is known of any note before the live session has filed one.
- `AsrInv` gives `AsrIsBounded`. The decodes so far and the `Credit` of the job (what is left of its
  budget, and one for a claimed attempt that has not decoded yet) never exceed what the first attempt
  and the manual retries taken up so far have granted. A retry that still waits in the channel has
  granted nothing, and a crash forgets it; a manual retry of a job that is not parked keeps its
  budget. A fresh budget needs a recording that was not decoded: the call, its session and their
  handlers come before the first decode (`Early`), and the row is marked as attempted before it
  (`Marked`), so that no restart takes it for a recording to be begun. Most steps are *frugal*
  (`FrugalStep`): they grant nothing and begin nothing.

`QualityStoreProofs`: any set of attempts beside the capture writer, any number of frames, losses,
failing calls, kills and power failures (`StoreAssumption`, with at least one frame of audio, and
`ValueAssumption`, that the stand-ins for an absent or unwritten file are no records).

- `Struct` is the base: `TypeInv`, `PlaceInv` (what each publisher knows at each of its steps) and
  `FileInv` (a file that is linked or renamed has been written and synced, so that a power failure
  can only choose among whole records). `Attended` says that each transaction file has an owner that
  will remove it, unless a call failed or a publisher was killed; `NoBarrierLeft` follows.
- `Kept` gives `CapturedIsKept`. `AcknowledgedIsKept` is not inductive: while a publisher is between
  the swap and its commit, what a reader finds depends on both files. `Stage` says per place of the
  owner of `previous` how record, link and acknowledged record are related; there is at most one
  such owner since `hard_link` refuses an existing name, and everyone else may only fail.
- `Recorded`, `Sealed`, `Honest` and `Withheld` give `CertificateHolds`: a certificate comes only
  from the writer after it has synced the audio; every other publisher carries the phase of what
  it read; and a writer that failed has restored the prior record or left a copy that bars readers.

`LiveSessionsProofs`: any number of sessions, windows and queued messages, and every set of faults
(`BoundAssumption` gives the types of the bounds only).

- `Inv` is `Types`, `SlotInv` (who holds the model and the test's flag), `PauseInv` and
  `Locked(mgr, note, pipe)`. `Locked` is what holds whenever the manager's mutex is free:
  reservations belong to live threads or unreaped ones (`ReservedInv`, `HolderInv`), the channel
  speaks of calls that have begun (`PastInv`), each session's stage, process, outcome, note and row
  agree (`StageInv`, `ProcessInv`, `OutcomeInv`, `NoteInv`, `RowInv`).
- `Locked` takes the manager, the notes and the channel as parameters because `reap_completed` runs
  first in every critical section: `ReapKeeps` shows that reaping alone keeps it, and each
  operation is then proved from an arbitrary reaped manager.
- `PauseInv` says that a live `Pause` is the last message queued, an abandoned one has a `Resume`
  behind it, and the channel is empty while somebody relies on the suspension. Without it
  `TestIsExclusive` would not survive a test that gives up while its `Pause` is still queued.

TLC checked every one of these inductive invariants on the instance of the component's run before
it was proved.

Only model-checked: liveness (`CallEndsRecording`, `PauseNeverSticks`, `Delivered`,
`SessionsAreEnded`, `StopEnds`, `WaitersProceed`), which the proof system does not cover; of
`Pipeline`, `FiledOnceUnlessCrashed`, which holds only while no sweep fails halfway (its run leaves
that fault out; the hazard at `jobs.rs:623` is that case) and would have to say, at every place of
the thread, who still knows of a note that was filed; of `QualityStore`, the case of
`AcknowledgedIsKept` without a capture record, with two attempts; `LiveNote`, whose invariants would
have to relate the positions of both tracks, every fence and every word of a call; and of `Capture`,
`WriterFollows` and `EveryFrameIsAccounted`: the writer folds over a run of descriptors, and what a
fold computes for every run needs an induction over data, which is out of the prover's reach.

## Plan

1. Done: detector, jobs table, pipeline, live sessions with the microphone test, the live note
   and its decoder, capture from the callback to the durable file, the quality record, the hosted
   coordinator, the final journal, their runs, and the proofs of the detector, the jobs table, the
   format observer, the coordinator, the final journal, the pipeline, the quality record and the
   live sessions.
2. Proofs next: `FiledOnceUnlessCrashed` under the assumption that no sweep fails halfway, on top of
   the pipeline's `NoteInv`; the invariants of `LiveNote`.
3. AWS staging ownership inside `Pipeline` instead of one fallible step; a sweep property that
   tells expired rows from live ones.

## Not modelled

- Numerics: inference, echo cancellation, resampling, the energy based segment planner and
  channel activity, the echo and speaker matching inside a live session. They are functions of
  sample values; no step of another thread comes between, and a small instance would not say
  anything about them.
- Text: the lexicon, the word bank, prompt building, validation of answers, frontmatter.
- I/O and formats: HTTP adapters, the keychain, the encrypted file and SQLite migrations,
  settings documents, the webview and tray, the command line, the benchmark tools.
- Pure bookkeeping under one lock: the transcript view, the merge of quality spans.

About a ninth of the implementation's lines is mapped. Much of the rest is unit tests that live
in the same files, the parts above, and the data of the modelled parts: conversions, messages,
and the construction of records whose content the properties do not read.
