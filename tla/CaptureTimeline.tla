--------------------------- MODULE CaptureTimeline ---------------------------
(***************************************************************************)
(* The callback-side accounting of corti-core/src/capture_accounting.rs: a *)
(* fixed-size value that turns every HAL callback into descriptors (epochs,*)
(* positioned losses, an overflow summary, audio) or into a remembered     *)
(* loss.  Every operation of CaptureTimeline is an operator from the value *)
(* before to the value after.                                              *)
(*                                                                         *)
(* Time is counted in ticks, TicksPerSecond of them to a second and a whole*)
(* number to a frame at every rate, so the remainder that the code carries *)
(* between nanoseconds and frames is always zero here.  A format is its    *)
(* generation and its rate: a layout change is a new generation at the     *)
(* same rate, and one channel stands for all.  A sample clock appears as   *)
(* its distance from the expected sample, the only thing the code reads.   *)
(* The saturating counters of the overflow summary keep only whether they  *)
(* are zero.                                                               *)
(***************************************************************************)
EXTENDS Integers, Sequences, FiniteSetsExt

CONSTANTS
    Pending,            \* PENDING, the descriptors the timeline can remember
    DescriptorCapacity, \* HAL_DESCRIPTOR_CAPACITY
    MaxLossFillSeconds, \* MAX_LOSS_FILL_SECONDS
    MaxEpochId,         \* u32::MAX of an epoch identifier
    Rates,              \* source rates in frames per second
    TicksPerSecond

ASSUME CapacityAssumption ==
    Pending \in Nat /\ DescriptorCapacity \in Nat /\ Pending >= 2 /\ Pending <= DescriptorCapacity - 3

ASSUME TickAssumption == \A r \in Rates : r \in Nat \ {0} /\ TicksPerSecond % r = 0

NoTime == -1
NoEpoch == [id |-> -1, start |-> NoTime, base |-> 0, format |-> [gen |-> 0, rate |-> 0]]
NoRun == [epoch |-> -1, frame |-> 0, time |-> NoTime]

Ticks(frames, rate) == frames * (TicksPerSecond \div rate)

EpochDesc(e) == [kind |-> "epoch", epoch |-> e]
LossDesc(e, from, to, cause) == [kind |-> "loss", id |-> e, from |-> from, to |-> to, cause |-> cause]
OverflowDesc(facts) == [kind |-> "overflow", facts |-> facts]
AudioDesc(e, from, to) == [kind |-> "audio", id |-> e.id, format |-> e.format, from |-> from, to |-> to]

NewTimeline ==
    [pending |-> <<>>, overflow |-> {}, current |-> NoEpoch, unbound |-> FALSE, next |-> 0,
     anchored |-> FALSE, host |-> NoTime, minimum |-> NoTime, run |-> NoRun, unknownRun |-> FALSE,
     resync |-> FALSE, stopped |-> FALSE, dropped |-> 0]

-----------------------------------------------------------------------------
\* EpochStart::time_at.
TimeAt(e, frame) ==
    IF e.start = NoTime THEN NoTime ELSE e.start + Ticks(frame - e.base, e.format.rate)

\* The later of two optional times, either of which may be missing.
Later(a, b) == IF a > b THEN a ELSE b

\* The first of two optional times that is present.
OrElse(a, b) == IF a = NoTime THEN b ELSE a

\* A source time before the published mapping's end cannot repair it.
NotBefore(t, minimum) == IF t < minimum THEN NoTime ELSE t

NextEpoch(tl, format, start) ==
    [id |-> tl.current.id + 1, start |-> start, base |-> tl.next, format |-> format]

Exhausted(tl) == tl.current.id = MaxEpochId

push_pending(tl, d) == [tl EXCEPT !.pending = Append(@, d)]

queue_epoch(tl, e) ==
    IF Len(tl.pending) < Pending
    THEN [push_pending(tl, EpochDesc(e)) EXCEPT !.current = e, !.resync = FALSE]
    ELSE [tl EXCEPT !.current = e, !.overflow = @ \cup {"epochs"}, !.resync = TRUE]

\* loss_run_exceeds_cap opens the run a loss belongs to ...
LossRun(tl, span) ==
    IF tl.run # NoRun THEN tl.run
    ELSE [epoch |-> span.id, frame |-> span.from, time |-> TimeAt(tl.current, span.from)]

\* Mutant: the limit is asked of each loss instead of the run it belongs to.
CapsEachLoss(tl, span) ==
    \/ tl.unknownRun
    \/ tl.current = NoEpoch
    \/ span.to - span.from > tl.current.format.rate * MaxLossFillSeconds

\* ... and asks whether the run, ended by this loss, is too long to fill.
loss_run_exceeds_cap(tl, span) ==
    LET run == LossRun(tl, span)
        end == TimeAt(tl.current, span.to)
    IN  \/ tl.unknownRun
        \/ tl.current = NoEpoch
        \/ /\ run.epoch = span.id
           /\ span.to - run.frame > tl.current.format.rate * MaxLossFillSeconds
        \/ /\ run.epoch # span.id
           /\ \/ run.time = NoTime
              \/ end < run.time
              \/ end - run.time > MaxLossFillSeconds * TicksPerSecond

\* A loss that continues the last remembered one extends it.
Extends(tl, span) ==
    /\ tl.pending # <<>>
    /\ LET last == tl.pending[Len(tl.pending)]
       IN  /\ last.kind = "loss"
           /\ last.id = span.id /\ last.cause = span.cause /\ last.to = span.from

queue_loss(tl, span) ==
    LET opened == [tl EXCEPT !.run = IF tl.unknownRun THEN @ ELSE LossRun(tl, span),
                             !.resync = @ \/ loss_run_exceeds_cap(tl, span)]
    IN  IF Extends(tl, span) THEN [opened EXCEPT !.pending[Len(tl.pending)].to = span.to]
        ELSE IF Len(tl.pending) < Pending THEN push_pending(opened, span)
        ELSE [opened EXCEPT !.overflow = @ \cup {"spans"}, !.resync = TRUE]

\* Mutant: the frames are counted but no fact about them reaches the record.
CountsOnly(tl, frames) ==
    [tl EXCEPT !.unknownRun = TRUE, !.dropped = @ + frames, !.resync = TRUE]

account_unknown_loss(tl, frames) ==
    [tl EXCEPT !.unknownRun = TRUE, !.overflow = @ \cup {"spans", "epochs"},
               !.dropped = @ + frames, !.resync = TRUE]

\* An operation that cannot represent the callback loses it and stops the timeline.
GiveUp(tl, frames) == [account_unknown_loss(tl, frames) EXCEPT !.stopped = TRUE]

\* A format that could not be bound; refused silently once the timeline has stopped.
record_unknown_format_loss(tl, frames) ==
    IF tl.stopped THEN tl
    ELSE [account_unknown_loss(tl, frames) EXCEPT
              !.unbound = TRUE, !.anchored = FALSE, !.host = NoTime, !.next = @ + frames]

-----------------------------------------------------------------------------
(* An input is the callback's frames, its format, whether its sample clock *)
(* is valid and how far it is from the expected sample, and its host time. *)

\* The signed distance of a valid sample clock from a known expectation.
SampleDelta(tl, in) == IF in.sampled /\ tl.anchored THEN in.delta ELSE 0

RateChanged(tl, in) == in.format.rate # tl.current.format.rate

\* Across a rate change a moved clock tells nothing about its distance.
UnknownClockChange(tl, in) == RateChanged(tl, in) /\ SampleDelta(tl, in) # 0

Jump(tl, in) == IF UnknownClockChange(tl, in) THEN 0 ELSE SampleDelta(tl, in)

\* The host clock's residual once an exact sample gap has explained its part.
HostDelta(tl, in) ==
    in.host - (tl.host + (IF Jump(tl, in) > 0 THEN Ticks(Jump(tl, in), tl.current.format.rate) ELSE 0))

\* More than one source frame of it is a discontinuity.
HostDiscontinuity(tl, in) ==
    /\ tl.host # NoTime
    /\ in.host # NoTime
    /\ LET d == HostDelta(tl, in)
           frame == Ticks(1, tl.current.format.rate)
       IN  d > frame \/ -d > frame

\* The losses a moved clock proves, positioned where it gives a length.
Discontinued(tl, in) ==
    LET jump == Jump(tl, in)
        disc == HostDiscontinuity(tl, in)
        facts == (IF UnknownClockChange(tl, in) THEN {"epochs"} ELSE {})
                 \cup (IF disc \/ jump < 0 THEN {"spans"} ELSE {})
        noted == [tl EXCEPT !.overflow = @ \cup facts, !.unknownRun = @ \/ disc]
    IN  CASE jump > 0 -> [queue_loss(noted, LossDesc(tl.current.id, tl.next, tl.next + jump, "host"))
                             EXCEPT !.next = tl.next + jump]
          [] jump < 0 -> [noted EXCEPT !.resync = TRUE]
          [] OTHER    -> noted

\* The source time of the epoch that a discontinuity starts.
Rebased(tl, moved, in) ==
    LET boundary == TimeAt(tl.current, moved.next)
        disc == HostDiscontinuity(tl, in)
        predicted == IF UnknownClockChange(tl, in) \/ disc \/ Jump(tl, in) < 0 THEN NoTime ELSE boundary
        observed == IF disc /\ HostDelta(tl, in) < 0 THEN NoTime ELSE OrElse(in.host, predicted)
    IN  NotBefore(observed, Later(boundary, tl.minimum))

\* prepare_callback up to the epoch it needs: whether it needs one, the timeline
\* it starts from and the source time it gets.
Prepared(tl, in) ==
    IF tl.current = NoEpoch THEN [starts |-> TRUE, tl |-> tl, time |-> in.host]
    ELSE IF tl.unbound THEN [starts |-> TRUE, tl |-> tl, time |-> NotBefore(in.host, tl.minimum)]
    ELSE LET moved == Discontinued(tl, in)
         IN  [starts |-> in.format # tl.current.format \/ Jump(tl, in) # 0 \/ HostDiscontinuity(tl, in),
              tl |-> moved, time |-> Rebased(tl, moved, in)]

-----------------------------------------------------------------------------
(* plan_callback: what the timeline becomes and, when the callback is      *)
(* admitted, the descriptors to publish with its PCM.                      *)

Slots(tl) ==
    Len(tl.pending) + (IF tl.overflow # {} THEN 1 ELSE 0) + (IF tl.resync THEN 1 ELSE 0) + 1

Admits(tl, frames, pcm, descriptors) ==
    frames <= pcm /\ Slots(tl) <= Min({descriptors, DescriptorCapacity})

\* The epoch published last, right before the audio, when a mapping was lost.
ResyncEpoch(tl, in) ==
    LET predicted == TimeAt(tl.current, tl.next)
    IN  NextEpoch(tl, in.format,
                  NotBefore(OrElse(in.host, predicted), Later(predicted, tl.minimum)))

Summary(tl) == IF tl.overflow = {} THEN <<>> ELSE <<OverflowDesc(tl.overflow)>>

\* The clocks after a callback, admitted or not.
Advanced(tl, before, in) ==
    LET same == before.current # NoEpoch /\ ~RateChanged(before, in)
        gap == IF in.host = NoTime /\ same /\ SampleDelta(before, in) > 0 THEN SampleDelta(before, in) ELSE 0
        base == OrElse(in.host, before.host)
        end == tl.next + in.frames
    IN  [tl EXCEPT !.next = end,
                   !.minimum = Later(TimeAt(tl.current, end), @),
                   !.anchored = in.sampled \/ (@ /\ same),
                   !.host = IF base = NoTime THEN NoTime
                            ELSE base + Ticks(in.frames + gap, in.format.rate)]

Plan(tl, admitted, batch) == [tl |-> tl, admitted |-> admitted, batch |-> batch]

\* An admitted callback: the remembered descriptors, the summary, a new mapping if
\* one is due, and the audio, in this order.
Admission(tl, before, in) ==
    LET epoch == IF tl.resync THEN ResyncEpoch(tl, in) ELSE tl.current
        drained == [tl EXCEPT !.pending = <<>>, !.overflow = {}, !.current = epoch, !.resync = FALSE,
                              !.run = NoRun, !.unknownRun = FALSE]
        batch == tl.pending \o Summary(tl)
                 \o (IF tl.resync THEN <<EpochDesc(epoch)>> ELSE <<>>)
                 \o <<AudioDesc(epoch, tl.next, tl.next + in.frames)>>
    IN  IF tl.resync /\ Exhausted(tl)
        THEN Plan(GiveUp(tl, in.frames), FALSE, <<>>)
        ELSE Plan(Advanced(drained, before, in), TRUE, batch)

Rejection(tl, before, in) ==
    LET lost == queue_loss(tl, LossDesc(tl.current.id, tl.next, tl.next + in.frames, "ring"))
    IN  Plan(Advanced([lost EXCEPT !.dropped = @ + in.frames], before, in), FALSE, <<>>)

plan_callback(tl, in, pcm, descriptors) ==
    LET prepared == Prepared(tl, in)
        bound == IF prepared.starts
                 THEN [queue_epoch(prepared.tl, NextEpoch(prepared.tl, in.format, prepared.time))
                          EXCEPT !.unbound = FALSE]
                 ELSE prepared.tl
    IN  IF tl.stopped THEN Plan(tl, FALSE, <<>>)
        ELSE IF prepared.starts /\ Exhausted(tl) THEN Plan(GiveUp(prepared.tl, in.frames), FALSE, <<>>)
        ELSE IF Admits(bound, in.frames, pcm, descriptors) THEN Admission(bound, tl, in)
        ELSE Rejection(bound, tl, in)

\* TerminalDescriptors: what finish leaves to publish once no callback can run.
Terminal(tl) == tl.pending \o Summary(tl)
=============================================================================
