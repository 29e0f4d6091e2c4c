------------------------------- MODULE Capture -------------------------------
(***************************************************************************)
(* A capture session of crates/corti-coreaudio: the real-time IO callback  *)
(* (capture_transport.rs) that moves PCM and descriptors into two fixed    *)
(* rings, the thread that republishes the device's format                  *)
(* (capture_format.rs), the writer thread that follows the descriptors     *)
(* into the WAV and its quality record (capture_writer.rs) and the thread  *)
(* that stops or drops the session (capture.rs).                           *)
(*                                                                         *)
(* The callback never waits: it reads the format twice without a lock, and *)
(* what does not fit in the rings becomes a loss that its timeline         *)
(* remembers.  Every load and store that another thread can see between is *)
(* a step of its own.  A callback carries CallbackFrames frames.           *)
(***************************************************************************)
EXTENDS CaptureTimeline, SequencesExt

CONSTANTS
    PcmCapacity,     \* frames the PCM ring holds
    CallbackFrames,
    Stamps,          \* what a callback's clocks may say: [sampled, delta, hosted, error]
    MaxCallbacks,    \* bound: callbacks the device makes
    MaxChanges,      \* bound: format notifications
    Faults           \* of "disk" (storing fails), "abort" (a device call fails, or Drop), "destroy"

ASSUME CallbackAssumption == CallbackFrames \in Nat \ {0} /\ PcmCapacity \in Nat

VARIABLES
    tl,         \* the producer's CaptureTimeline
    fmt,        \* FormatState: generation, rate, dirty, stopping
    worker,     \* where the format worker stands in refresh_with
    cb,         \* the IO callback in progress
    pcm,        \* the PCM ring: the number of the callback of each frame
    descs,      \* the descriptor ring
    session,    \* the stopping thread
    terminal,   \* descriptors Cap::finish still has to push
    authorized, \* CompletionIntent
    w,          \* the writer
    record,     \* its quality record and what the WAV holds
    calls,      \* callbacks made so far
    changes,    \* format notifications so far
    asked       \* history: the last query began after the last notification

producer == <<tl, cb, calls>>
format == <<fmt, worker, changes, asked>>
stopping == <<session, terminal, authorized>>
writer == <<w, record>>
vars == <<tl, fmt, worker, cb, pcm, descs, session, terminal, authorized, w, record, calls, changes, asked>>

NoFormat == [gen |-> 0, rate |-> 0]
Idle == [pc |-> "idle", at |-> "close", seen |-> NoFormat, bound |-> NoFormat, slots |-> 0,
         batch |-> <<>>, fresh |-> TRUE]

\* The session starts once the format's first query has been published.
Init ==
    /\ tl = NewTimeline
    /\ \E r \in Rates : fmt = [gen |-> 2, rate |-> r, dirty |-> FALSE, stopping |-> FALSE]
    /\ worker = "polling"
    /\ cb = Idle
    /\ pcm = <<>> /\ descs = <<>>
    /\ session = "running" /\ terminal = <<>> /\ authorized = FALSE
    /\ w = [pc |-> "looping", begun |-> FALSE, current |-> NoEpoch, cursor |-> 0, remap |-> FALSE,
            wave |-> FALSE, pending |-> <<>>, why |-> "none"]
    /\ record = [lost |-> {}, facts |-> {}, written |-> {}, mixed |-> FALSE]
    /\ calls = 0 /\ changes = 0 /\ asked = TRUE

-----------------------------------------------------------------------------
(* FormatState.                                                            *)

\* The device's property listener.
Invalidate ==
    /\ changes < MaxChanges
    /\ ~fmt.stopping
    /\ fmt' = [fmt EXCEPT !.dirty = TRUE]
    /\ changes' = changes + 1
    /\ asked' = FALSE
    /\ UNCHANGED <<worker, producer, pcm, descs, stopping, writer>>

\* Mutant: dirty is cleared while the old generation is still published.
ClearsFirst ==
    /\ worker = "polling" /\ fmt.dirty /\ ~fmt.stopping
    /\ fmt' = [fmt EXCEPT !.dirty = FALSE]
    /\ worker' = "odd"
    /\ UNCHANGED <<producer, pcm, descs, stopping, writer, changes, asked>>

\* refresh_with withdraws the old format before it clears the mark ...
WithdrawFormat ==
    /\ worker = "polling" /\ fmt.dirty /\ ~fmt.stopping
    /\ fmt' = [fmt EXCEPT !.gen = @ + 1]
    /\ worker' = "odd"
    /\ UNCHANGED <<producer, pcm, descs, stopping, writer, changes, asked>>

ClearDirty ==
    /\ worker = "odd"
    /\ fmt' = [fmt EXCEPT !.dirty = FALSE]
    /\ worker' = "clean"
    /\ UNCHANGED <<producer, pcm, descs, stopping, writer, changes, asked>>

\* ... asks the device, which may have no usable rate ...
QueryFormat ==
    /\ worker = "clean"
    /\ \E r \in Rates \cup {0} : fmt' = [fmt EXCEPT !.rate = r]
    /\ worker' = "queried"
    /\ asked' = TRUE
    /\ UNCHANGED <<producer, pcm, descs, stopping, writer, changes>>

\* ... and publishes the next even generation.
PublishFormat ==
    /\ worker = "queried"
    /\ fmt' = [fmt EXCEPT !.gen = @ + 1]
    /\ worker' = "polling"
    /\ UNCHANGED <<producer, pcm, descs, stopping, writer, changes, asked>>

\* snapshot loads dirty, the generation, the rate, the generation and dirty again.
\* The first load of dirty opens it, or ends it with no format.
Opened(pc) == [cb EXCEPT !.pc = pc, !.seen = NoFormat,
                         !.at = IF fmt.stopping \/ fmt.dirty THEN "close" ELSE "before"]

LoadGeneration ==
    /\ cb.at = "before"
    /\ cb' = [cb EXCEPT !.at = "after", !.seen.gen = fmt.gen]
    /\ UNCHANGED <<tl, calls, format, pcm, descs, stopping, writer>>

\* The rate is stored only while the generation is odd: what the code reads between
\* two equal even generations is what the second of these loads finds.
LoadGenerationAgain ==
    /\ cb.at = "after"
    /\ cb' = [cb EXCEPT !.at = "close",
                        !.seen = IF /\ cb.seen.gen = fmt.gen /\ fmt.gen # 0 /\ fmt.gen % 2 = 0
                                    /\ fmt.rate # 0
                                 THEN [gen |-> fmt.gen, rate |-> fmt.rate]
                                 ELSE NoFormat]
    /\ UNCHANGED <<tl, calls, format, pcm, descs, stopping, writer>>

\* The last load of dirty, when the others have been made.
Snapshot == IF fmt.dirty \/ fmt.stopping THEN NoFormat ELSE cb.seen

\* History: the bound format is the one that was published last, and no notification
\* waits for an answer.
Fresh == asked /\ cb.bound = [gen |-> fmt.gen, rate |-> fmt.rate]

-----------------------------------------------------------------------------
(* io_proc.                                                                *)

\* The descriptor's owner is kept beside the PCM it describes.
Own(batch, call) ==
    [i \in 1 .. Len(batch) |-> [body |-> batch[i], call |-> call]]

\* A callback that finds capture enabled opens its first snapshot.
CallbackBegins ==
    /\ cb.pc = "idle" /\ session = "running"
    /\ calls < MaxCallbacks
    /\ calls' = calls + 1
    /\ cb' = Opened("first")
    /\ UNCHANGED <<tl, format, pcm, descs, stopping, writer>>

CallbackEnds == cb' = Idle

\* The clocks of this callback; the host's error is against what is expected.
Input(stamp, bound) ==
    [frames |-> CallbackFrames, format |-> bound, sampled |-> stamp.sampled, delta |-> stamp.delta,
     host |-> IF ~stamp.hosted THEN NoTime
              ELSE Later(0, OrElse(tl.host, Later(0, tl.minimum)) + stamp.error
                            + (IF stamp.delta > 0 /\ tl.current # NoEpoch
                               THEN Ticks(stamp.delta, tl.current.format.rate) ELSE 0))]

\* The snapshot closes: a format that cannot be bound loses the callback, a PCM
\* ring without room has the timeline record it, and otherwise room is reserved.
FormatBound ==
    /\ cb.pc = "first" /\ cb.at = "close"
    /\ LET bound == Snapshot
       IN  \/ /\ bound = NoFormat
              /\ tl' = record_unknown_format_loss(tl, CallbackFrames)
              /\ CallbackEnds
           \/ /\ bound # NoFormat
              /\ PcmCapacity - Len(pcm) < CallbackFrames
              /\ \E stamp \in Stamps :
                     tl' = plan_callback(tl, Input(stamp, bound), PcmCapacity - Len(pcm),
                                         DescriptorCapacity - Len(descs)).tl
              /\ CallbackEnds
           \/ /\ bound # NoFormat
              /\ PcmCapacity - Len(pcm) >= CallbackFrames
              /\ cb' = [cb EXCEPT !.pc = "reserved", !.bound = bound,
                                  !.slots = DescriptorCapacity - Len(descs)]
              /\ UNCHANGED tl
    /\ UNCHANGED <<calls, format, pcm, descs, stopping, writer>>

\* The samples have been copied into the reservation and the format is read again.
RecheckBegins ==
    /\ cb.pc = "reserved"
    /\ cb' = [Opened("second") EXCEPT !.fresh = Fresh]
    /\ UNCHANGED <<tl, calls, format, pcm, descs, stopping, writer>>

\* A format that moved loses the callback; an admitted callback publishes its PCM.
Admit ==
    /\ cb.pc = "second" /\ cb.at = "close"
    /\ \/ /\ Snapshot # cb.bound
          /\ tl' = record_unknown_format_loss(tl, CallbackFrames)
          /\ CallbackEnds
          /\ UNCHANGED pcm
       \/ /\ Snapshot = cb.bound
          /\ \E stamp \in Stamps :
                 LET plan == plan_callback(tl, Input(stamp, cb.bound), CallbackFrames, cb.slots)
                 IN  /\ tl' = plan.tl
                     /\ IF plan.admitted
                        THEN /\ pcm' = pcm \o [i \in 1 .. CallbackFrames |-> calls]
                             /\ cb' = [cb EXCEPT !.pc = "publishing", !.batch = Own(plan.batch, calls)]
                        ELSE CallbackEnds /\ UNCHANGED pcm
    /\ UNCHANGED <<calls, format, descs, stopping, writer>>

\* The descriptors follow the PCM they describe.
PublishDescriptors ==
    /\ cb.pc = "publishing"
    /\ descs' = descs \o cb.batch
    /\ CallbackEnds
    /\ UNCHANGED <<tl, calls, format, pcm, stopping, writer>>

-----------------------------------------------------------------------------
(* CaptureSession::stop and Drop.                                          *)

WriterGone == w.pc \in {"failed", "durable", "aborted", "empty"}

\* disable_capture; an explicit stop may still lose its right to complete when a
\* device call fails, and a dropped session never has it.
DisableCapture ==
    /\ session = "running"
    /\ session' \in {"stopping"} \cup (IF "abort" \in Faults THEN {"aborting"} ELSE {})
    /\ UNCHANGED <<terminal, authorized, producer, format, pcm, descs, writer>>

\* Destroying the IO proc waits for a running callback and hands its timeline over.
DestroyIO ==
    /\ session \in {"stopping", "aborting"}
    /\ cb.pc = "idle"
    /\ terminal' = Own(Terminal(tl), 0)
    /\ tl' = [tl EXCEPT !.stopped = TRUE, !.pending = <<>>, !.overflow = {}]
    /\ session' = IF session = "stopping" THEN "finishing" ELSE "abandoning"
    /\ UNCHANGED <<authorized, cb, calls, format, pcm, descs, writer>>

\* A device that will not release its callback keeps every object alive; the
\* writer is detached and can never be allowed to complete.
RetainLiveIO ==
    /\ "destroy" \in Faults
    /\ session \in {"stopping", "aborting"}
    /\ session' = "retained"
    /\ UNCHANGED <<terminal, authorized, producer, format, pcm, descs, writer>>

\* Mutant: a full ring is waited for whether or not anybody reads it.
PushesForever ==
    /\ session \in {"finishing", "abandoning"} /\ terminal # <<>>
    /\ Len(descs) < DescriptorCapacity
    /\ descs' = Append(descs, Head(terminal))
    /\ terminal' = Tail(terminal)
    /\ UNCHANGED <<session, authorized, producer, format, pcm, writer>>

\* Cap::finish waits for room, unless the writer has gone.
PushTerminal ==
    /\ session \in {"finishing", "abandoning"} /\ terminal # <<>>
    /\ \/ /\ Len(descs) < DescriptorCapacity
          /\ descs' = Append(descs, Head(terminal))
          /\ terminal' = Tail(terminal)
       \/ /\ Len(descs) = DescriptorCapacity
          /\ WriterGone
          /\ terminal' = <<>>
          /\ UNCHANGED descs
    /\ UNCHANGED <<session, authorized, producer, format, pcm, writer>>

\* The observer stops and is joined, completion is allowed, both producers close.
CloseProducers ==
    /\ session \in {"finishing", "abandoning"} /\ terminal = <<>>
    /\ worker = "polling"
    /\ fmt' = [fmt EXCEPT !.stopping = TRUE, !.dirty = TRUE]
    /\ authorized' = (session = "finishing")
    /\ session' = "closed"
    /\ UNCHANGED <<terminal, producer, worker, changes, asked, pcm, descs, writer>>

\* stop returns what the joined writer returned.
JoinWriter ==
    /\ session = "closed" /\ WriterGone
    /\ session' = "joined"
    /\ UNCHANGED <<terminal, authorized, producer, format, pcm, descs, writer>>

-----------------------------------------------------------------------------
(* run_writer.                                                             *)

\* can_fill_run's sum, in ticks, of the losses of one run that do not overlap.
RunTicks(current, pending) ==
    LET Rate(i) == LET at == {j \in 1 .. i : pending[j].kind = "epoch"}
                   IN  IF at = {} THEN current.format.rate ELSE pending[Max(at)].epoch.format.rate
        losses == {i \in DOMAIN pending : pending[i].kind = "loss"}
    IN  MapThenSumSet(LAMBDA i : Ticks(pending[i].to - pending[i].from, Rate(i)), losses)

\* Whether every loss of a run can be filled with unavailable frames.
can_fill_run(current, pending) ==
    /\ \A i \in DOMAIN pending : pending[i].kind # "overflow"
    /\ RunTicks(current, pending) <= MaxLossFillSeconds * TicksPerSecond

Frames(d) == d.from .. (d.to - 1)

Refuse(s, why) == [s EXCEPT !.w.pc = "failed", !.w.why = why]

\* Writer::epoch.
OnEpoch(s, e) ==
    IF e.id <= s.w.current.id THEN Refuse(s, "order")
    ELSE [s EXCEPT !.w.current = e, !.w.cursor = e.base, !.w.remap = FALSE]

\* A positioned loss: it enters the record and is filled, or asks for a new mapping.
OnLoss(s, d, fill) ==
    IF d.id # s.w.current.id \/ d.from > s.w.cursor THEN Refuse(s, "position")
    ELSE [s EXCEPT !.record.lost = @ \cup Frames(d),
                   !.w.cursor = IF d.to > @ THEN d.to ELSE @,
                   !.w.wave = @ \/ (fill /\ d.to > s.w.cursor),
                   !.w.remap = @ \/ (~fill /\ d.to > s.w.cursor)]

\* One descriptor of a run; a failed writer looks at nothing more.
Follow(s, d, fill) ==
    IF s.w.pc = "failed" THEN s
    ELSE CASE d.kind = "epoch" -> OnEpoch(s, d.epoch)
           [] d.kind = "loss" -> OnLoss(s, d, fill)
           [] d.kind = "overflow" -> [s EXCEPT !.record.facts = @ \cup d.facts]

\* apply_pending: the whole run, with one decision about filling it.
apply_pending(s) ==
    LET fill == can_fill_run(s.w.current, s.w.pending)
        applied == FoldLeft(LAMBDA acc, d : Follow(acc, d, fill), s, s.w.pending)
    IN  [applied EXCEPT !.w.pending = <<>>]

\* Writer::audio, against the callback whose PCM is at the head of the ring.
OnAudio(s, own) ==
    LET d == own.body
        n == d.to - d.from
    IN  IF s.w.pc = "failed" THEN s
        ELSE IF s.w.remap THEN Refuse(s, "remap")
        ELSE IF d.id # s.w.current.id \/ d.format # s.w.current.format \/ d.from # s.w.cursor
             THEN Refuse(s, "unbound")
        ELSE IF n > Len(pcm) THEN Refuse(s, "short")
        ELSE [s EXCEPT !.w.cursor = d.to, !.w.wave = TRUE,
                       !.record.written = @ \cup Frames(d),
                       !.record.mixed = @ \/ \E i \in 1 .. n : pcm[i] # own.call]

\* What an audio descriptor makes of the writer.
Heard(own) ==
    OnAudio(apply_pending([w |-> w, record |-> record]), own)

\* Any other descriptor joins the run, which the ring's capacity bounds.
Remembered(own) ==
    IF Len(w.pending) = DescriptorCapacity THEN Refuse([w |-> w, record |-> record], "bound")
    ELSE [w |-> [w EXCEPT !.pending = Append(@, own.body)], record |-> record]

Becomes(s) == w' = s.w /\ record' = s.record

WriterPops ==
    /\ w.pc = "looping" /\ descs # <<>>
    /\ descs' = Tail(descs)
    /\ LET own == Head(descs)
           s == IF own.body.kind = "audio" THEN Heard(own) ELSE Remembered(own)
       IN  /\ Becomes([s EXCEPT !.w.begun = TRUE])
           /\ pcm' = IF own.body.kind = "audio" /\ s.w.pc # "failed"
                     THEN SubSeq(pcm, own.body.to - own.body.from + 1, Len(pcm)) ELSE pcm
    /\ UNCHANGED <<producer, format, stopping>>

\* The ring is empty; whether its producer has closed is a second question.
WriterFindsNothing ==
    /\ w.pc = "looping" /\ descs = <<>>
    /\ w' = [w EXCEPT !.pc = "empty-handed"]
    /\ UNCHANGED <<record, producer, format, pcm, descs, stopping>>

WriterSleeps ==
    /\ w.pc = "empty-handed" /\ session # "closed"
    /\ w' = [w EXCEPT !.pc = "looping"]
    /\ UNCHANGED <<record, producer, format, pcm, descs, stopping>>

\* Writer::finish: only an allowed completion makes the recording durable.
Finished(s) ==
    [s EXCEPT !.w.pc = CASE ~s.w.begun -> IF authorized THEN "empty" ELSE "failed"
                         [] s.w.begun /\ ~s.w.wave -> "failed"
                         [] s.w.begun /\ s.w.wave -> IF authorized THEN "durable" ELSE "aborted"]

\* The producers have closed: the last run is applied, no PCM may be left over.
WriterEnds ==
    /\ w.pc = "empty-handed" /\ session = "closed"
    /\ LET s == apply_pending([w |-> w, record |-> record])
       IN  Becomes(IF s.w.pc = "failed" THEN s
                   ELSE IF pcm # <<>> THEN Refuse(s, "undescribed")
                   ELSE Finished(s))
    /\ UNCHANGED <<producer, format, pcm, descs, stopping>>

\* Storing the quality record or the WAV fails.
WriterFails ==
    /\ "disk" \in Faults
    /\ ~WriterGone
    /\ w' = [w EXCEPT !.pc = "failed", !.why = "disk"]
    /\ UNCHANGED <<record, producer, format, pcm, descs, stopping>>

-----------------------------------------------------------------------------
Format == WithdrawFormat \/ ClearDirty \/ QueryFormat \/ PublishFormat
Snapshots == LoadGeneration \/ LoadGenerationAgain
Callback == Snapshots \/ FormatBound \/ RecheckBegins \/ Admit \/ PublishDescriptors
Stopper == DestroyIO \/ PushTerminal \/ CloseProducers \/ JoinWriter
Writer == WriterPops \/ WriterFindsNothing \/ WriterSleeps \/ WriterEnds

Next ==
    \/ Invalidate \/ WithdrawFormat \/ ClearDirty \/ QueryFormat \/ PublishFormat
    \/ CallbackBegins \/ LoadGeneration \/ LoadGenerationAgain
    \/ FormatBound \/ RecheckBegins \/ Admit \/ PublishDescriptors
    \/ DisableCapture \/ DestroyIO \/ RetainLiveIO \/ PushTerminal \/ CloseProducers \/ JoinWriter
    \/ WriterPops \/ WriterFindsNothing \/ WriterSleeps \/ WriterEnds \/ WriterFails

\* Each thread keeps running; nobody has to change a format or stop a session.  A
\* callback and a writer that has not gone can always take their next step, so
\* weak fairness of the two is written with these conditions for ENABLED.
Fairness ==
    /\ WF_vars(Format)
    /\ WF_vars(Stopper)
    /\ []<>(cb.pc = "idle") \/ []<><<Callback>>_vars
    /\ []<>WriterGone \/ []<><<Writer>>_vars

Spec == Init /\ [][Next]_vars /\ Fairness

-----------------------------------------------------------------------------
\* The writer gave up while descriptors published before the close were unread.
EndedEarly == WriterGone /\ w.why # "disk" /\ descs # <<>>

\* Every callback that io_proc admitted can be followed by the writer: its epoch,
\* position and PCM are the ones it expects, whatever the rings dropped and however
\* the format and the clocks moved, and a run of plain losses, whatever its length,
\* never leaves the writer without a mapping.  The two refusals that remain,
\* beside an omission and after an early end, are LossIsRemapped's and
\* TerminalIsRecorded's subject.
WriterFollows ==
    /\ w.why \in {"none", "disk", "remap", "undescribed"}
    /\ w.why = "remap" => record.facts # {}
    /\ w.why = "undescribed" => EndedEarly
    /\ ~record.mixed

\* A recording certified as durable accounts for every frame the device offered or
\* skipped: it is in the WAV, in a positioned loss, or behind a recorded omission
\* (Cap::finish hands the last losses over before the rings close).  A writer
\* that ends early is TerminalIsRecorded's subject.
EveryFrameIsAccounted ==
    w.pc = "durable" /\ descs = <<>> =>
        /\ authorized
        /\ (0 .. (tl.next - 1)) \subseteq record.written \cup record.lost \/ record.facts # {}
        /\ record.written \cap record.lost = {}

\* PCM is admitted only under the format that was in force when the samples had been
\* copied: at that moment no newer one was published and no notification waited for
\* its query, whatever the listener and the format worker did between the loads
\* (FormatState: "never stale-format PCM").
FormatIsFresh == cb.pc = "publishing" => cb.fresh

\* Stronger, and not so: capture_format.rs:38-39 has "no PCM is accepted until the
\* control worker completes a query without a later invalidation".  A notification, the
\* withdrawal and the clearing of dirty fit between the last two loads of the second
\* snapshot, which then admits samples that FormatIsFresh allows.  No run checks it.
NoPcmWhileUnasked == [][cb.pc = "second" /\ cb'.pc = "publishing" => asked]_vars

\* Stopping a session ends, also when its writer has died with the ring full.
StopEnds == session \in {"stopping", "aborting"} ~> session \in {"joined", "retained"}

\* capture_writer.rs: a skipped loss is followed by a resynchronizing epoch before audio.
LossIsRemapped == w.why # "remap"

\* capture_writer.rs: terminal descriptors precede the final publication.
TerminalIsRecorded == w.pc = "durable" => descs = <<>>
=============================================================================
