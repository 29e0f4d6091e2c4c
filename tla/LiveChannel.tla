---------------------------- MODULE LiveChannel ----------------------------
(***************************************************************************)
(* One track of a live session: the decoder of corti-transcribe-local that *)
(* turns pushed audio into words and can hand a prefix of it over to a     *)
(* filing window (boundary.rs, live.rs, terminal.rs of that crate).        *)
(*                                                                         *)
(* A channel is a record and every operation an operator from the record   *)
(* before to the one after.  Positions are those of the session's clock,   *)
(* one per 16 kHz sample: the rounding between source frames and samples   *)
(* is left out, the samples a resampler holds back (up to Stage) are not.  *)
(* What is said on the track is `sp`, the positions that are speech; the   *)
(* words of a position are the position.  A decode may fail (`fails`), and *)
(* then the positions are reported in `bad`.                               *)
(*                                                                         *)
(* The voice activity detector is external.  What the code relies on is    *)
(* that speech is noticed Latency samples after it began at the latest and *)
(* that Latency <= Guard, the ACCEPTED_GUARD; that a region ends when it   *)
(* has been silent for Silence samples; and that a flush ends the region   *)
(* that is open.                                                           *)
(***************************************************************************)
EXTENDS BoundaryPolicy

CONSTANTS
    Guard,     \* ACCEPTED_GUARD
    VadWindow, \* VAD_WINDOW, the samples the detector takes at a time
    Stage,     \* samples the resampler may hold back: packet staging and filter lag
    Preroll,   \* FORCED_REPLAY_PREROLL
    Lag,       \* samples the echo canceller may hold back (microphone only)
    Latency,   \* samples after which the detector has noticed speech
    Silence,   \* samples of silence that end a region
    MaxEpoch   \* samples a detector may take before it has to be reset

-----------------------------------------------------------------------------
(* BoundaryResamplerBounds: how much has to fit.                            *)

ReplayContext == Preroll + VadWindow - 1
MaxPush == Lag + Admission

\* Mutant: only what the decoder itself needs is reserved, not what the echo canceller
\* holds back and what a chunk adds.
ReserveForDecoder == (Guard + VadWindow - 1) + Stage

\* settlement_source_reserve: what may be received behind a fence before both
\* tracks have settled it.
Reserve == (Guard + VadWindow - 1) + Stage + Lag + Admission

\* rolling_capacity
SettlementAccept == (Lag + Reserve + Stage) + Stage + VadWindow - 1
NextAccept == (MaxPush + Stage) + VadWindow - 1
MaintenanceTrigger == MaximumOwned + SettlementAccept + NextAccept
MinimumEpoch == SettlementAccept + ReplayContext + MaintenanceTrigger + 1
MaxRetained == MaintenanceTrigger + Guard + VadWindow - 1 + ReplayContext

ASSUME CapacityAssumption ==
    /\ Guard \in Nat \ {0} /\ VadWindow \in Nat \ {0} /\ Silence \in Nat \ {0}
    /\ Stage \in Nat /\ Preroll \in Nat /\ Lag \in Nat
    /\ Latency \in 1..Guard
    /\ MaxEpoch \in Nat /\ MaxEpoch >= MinimumEpoch

-----------------------------------------------------------------------------
\* A channel that has not been given anything; its track begins at `origin`.
NewChannel(origin) ==
    [origin    |-> origin,
     delivered |-> origin,  \* input_clock.frames: pushed so far
     fed       |-> origin,  \* output_position: out of the resampler
     accepted  |-> origin,  \* accepted_end: taken by the detector
     epoch     |-> 0,       \* native_accepted: since the detector's last reset
     from      |-> origin,  \* the detector has reported all speech before this
     base      |-> origin,  \* retained_start: samples kept for a replay
     owned     |-> origin,  \* owned_source_start
     attempted |-> origin,  \* last_attempt_end
     context   |-> origin,  \* replay_context_end
     fence     |-> None,
     ended     |-> FALSE,   \* input_ended
     final     |-> FALSE,   \* terminal_flushed
     failed    |-> FALSE,
     pending   |-> {},      \* words not yet polled
     bad       |-> {},      \* reported as not decoded
     seen      |-> {},      \* history: what was given to the recognizer,
     twice     |-> {}]      \* and what was given to it more than once

\* The body of drain_regions for the region s..e-1: not what was attempted before a
\* reset, not what lies behind the fence, and nothing while a settled fence waits
\* for its acknowledgement.
Attempt(c, s, e, sp, fails) ==
    LET first == Larger(s, c.context)
        last  == IF c.fence = None THEN e
                 ELSE IF c.fence.settled THEN first ELSE Smaller(e, c.fence.frame)
        heard == sp \cap (first..(last - 1))
    IN  IF last <= first THEN c
        ELSE [c EXCEPT !.attempted = Larger(@, last),
                       !.pending = IF fails THEN @ ELSE @ \cup heard,
                       !.bad = IF fails THEN @ \cup (first..(last - 1)) ELSE @,
                       !.seen = @ \cup heard, !.twice = @ \cup (heard \cap c.seen)]

-----------------------------------------------------------------------------
(* The detector.                                                            *)

Unreported(c, sp) == {p \in sp : c.from <= p /\ p < c.accepted}
RegionEnds(c, sp) ==
    {e \in (c.from + 1)..c.accepted :
        /\ e - 1 \in sp /\ e + Silence <= c.accepted
        /\ \A p \in e..(e + Silence - 1) : p \notin sp}

\* drain_regions: every region that has ended is attempted.
DrainRegions(c, sp, fails) ==
    IF RegionEnds(c, sp) = {} THEN c
    ELSE LET e == Max(RegionEnds(c, sp))
         IN  [Attempt(c, Min(Unreported(c, sp)), e, sp, fails) EXCEPT !.from = e]

\* boundary_idle: no region is open.
Idle(c, sp) == \A p \in Unreported(c, sp) : p + Latency > c.accepted

\* vad.flush and drain_regions: the open region ends with what was accepted.
FlushVad(c, sp, fails) ==
    IF Idle(c, sp) THEN c
    ELSE [Attempt(c, Min(Unreported(c, sp)), c.accepted, sp, fails)
            EXCEPT !.from = c.accepted]

-----------------------------------------------------------------------------
(* Input.                                                                   *)

\* feed_boundary_16k: samples up to `fed` leave the resampler, of which the detector
\* takes those up to `upto`, if they can be retained and fit its epoch.
Feed(c, fed, upto, sp, fails) ==
    IF \/ fed - c.base > MaxRetained
       \/ c.epoch + (upto - c.accepted) > MaxEpoch
    THEN [c EXCEPT !.fed = fed, !.failed = TRUE]
    ELSE DrainRegions([c EXCEPT !.fed = fed, !.accepted = upto,
                                !.epoch = @ + (upto - c.accepted)], sp, fails)

WholeWindows(c, fed) == c.origin + ((fed - c.origin) \div VadWindow) * VadWindow

\* push of the samples up to `delivered`, of which those up to `fed` come out of the
\* resampler.
PushSamples(c, delivered, fed, sp, fails) ==
    LET pushed == [c EXCEPT !.delivered = delivered]
    IN  IF c.ended THEN c
        ELSE IF c.failed THEN pushed
        ELSE IF delivered - c.delivered > MaxPush THEN [pushed EXCEPT !.failed = TRUE]
        ELSE Feed(pushed, fed, WholeWindows(c, fed), sp, fails)

\* push when no resampler can be built for the rate, which the first push finds out.
PushWithoutResampler(c, delivered) ==
    [c EXCEPT !.delivered = delivered, !.failed = TRUE,
              !.bad = @ \cup (c.delivered..(delivered - 1))]

\* advance_boundary(SourceEnded), first part: the resampler's tail and the incomplete
\* window are accepted.
EndInput(c, sp, fails) ==
    [Feed(c, c.delivered, c.delivered, sp, fails) EXCEPT !.ended = TRUE]

-----------------------------------------------------------------------------
(* Ownership.                                                               *)

\* boundary_snapshot: the frames at which nothing said so far is cut, and before
\* which nothing the detector will still report can begin.
NaturalInterval(c, sp) ==
    LET future == c.accepted - Guard
        first  == Larger(c.owned, c.attempted)
        last   == Smaller(future, c.delivered)
    IN  IF \/ c.failed \/ c.fence # None \/ ~Idle(c, sp)
           \/ c.accepted < c.origin + Guard
           \/ c.attempted > future \/ future < c.base \/ first > last
        THEN None
        ELSE [first |-> first, last |-> last]

EpochRemaining(c) == MaxEpoch - c.epoch

FreshEmpty(c, frame) == frame = c.origin /\ c.delivered = c.origin

\* The early returns of latch_boundary.
CanLatch(c, frame, kind, sp) ==
    /\ c.fence = None /\ ~c.failed /\ ~c.ended /\ frame >= c.owned
    /\ kind # "forced" =>
         /\ NaturalInterval(c, sp) # None
         /\ frame \in NaturalInterval(c, sp).first..NaturalInterval(c, sp).last
    /\ frame <= c.delivered =>
         frame >= c.attempted /\ (kind = "forced" => frame >= c.base)

\* latch_boundary
Latch(c, frame, kind) ==
    [c EXCEPT !.fence =
        [frame   |-> frame,
         kind    |-> kind,
         settled |-> kind # "forced" \/ FreshEmpty(c, frame),
         retire  |-> IF c.accepted >= c.origin + Guard THEN c.accepted - Guard
                     ELSE c.origin]]

\* finalize_terminal_vad: Guard samples of silence make the detector report whatever
\* is left, unless they do not fit its epoch.
FinalizeVad(c, sp, fails) ==
    LET left    == Unreported(c, sp)
        flushed == FlushVad(c, sp, fails)
        unsure  == Larger(flushed.attempted, c.accepted - c.epoch)..(c.fed - 1)
    IN  IF c.epoch + Guard > MaxEpoch
        THEN [flushed EXCEPT !.bad = @ \cup unsure, !.failed = TRUE, !.final = TRUE]
        ELSE IF left = {} \/ c.epoch = 0 THEN [c EXCEPT !.final = TRUE]
        ELSE IF Larger(Min(left), c.context) < c.attempted
        THEN [c EXCEPT !.failed = TRUE, !.final = TRUE]
        ELSE [Attempt(c, Min(left), c.accepted, sp, fails)
                EXCEPT !.from = c.accepted, !.final = TRUE]

Progress(c, p) == [chan |-> c, progress |-> p]

\* advance_boundary, when the input is to go on or has just been ended.
AdvanceInput(c, sp, fails) ==
    LET flushed == FlushVad(c, sp, fails)
        final   == IF c.final THEN c ELSE FinalizeVad(c, sp, fails)
    IN  IF c.failed THEN Progress(c, "failed")
        ELSE IF c.fence # None
        THEN IF c.fence.settled THEN Progress(c, "settled")
             ELSE IF c.accepted < c.fence.frame + Guard
             THEN Progress(c, IF c.ended THEN "failed" ELSE "waiting")
             ELSE Progress([flushed EXCEPT !.fence.settled = TRUE], "settled")
        ELSE IF ~c.ended THEN Progress(c, "waiting")
        ELSE Progress(final, IF final.failed THEN "failed" ELSE "ended")

\* Mutant: a forced fence is settled as soon as the detector has been given everything
\* before it.
AdvanceWithoutGuard(c, ended, sp, fails) ==
    LET i == IF ended /\ ~c.ended THEN EndInput(c, sp, fails) ELSE c
    IN  IF ~c.failed /\ i.fence # None /\ ~i.fence.settled /\ i.accepted >= i.fence.frame
        THEN Progress([FlushVad(i, sp, fails) EXCEPT !.fence.settled = TRUE], "settled")
        ELSE AdvanceInput(i, sp, fails)

\* advance_boundary.  A natural fence is settled as it stands; the tails stay where
\* they are until it has been acknowledged.
Advance(c, ended, sp, fails) ==
    IF c.failed THEN Progress(c, "failed")
    ELSE IF c.fence # None /\ c.fence.kind # "forced" THEN Progress(c, "settled")
    ELSE IF ended /\ ~c.ended THEN AdvanceInput(EndInput(c, sp, fails), sp, fails)
    ELSE AdvanceInput(c, sp, fails)

Resets(fence) == fence.kind # "natural"
OwnedStart(c) == IF c.fence.kind = "forced" THEN c.fence.frame ELSE c.fence.retire

\* Mutant: a reset detector starts again with what it has not been given yet.
ReplayNothing(c) == IF Resets(c.fence) THEN c.accepted ELSE OwnedStart(c)

\* Where a reset detector starts again: before a forced cut, on its window grid.
ReplayStart(c) ==
    LET preroll == IF c.fence.kind = "forced" THEN Preroll ELSE 0
        local   == OwnedStart(c) - c.origin
        early   == IF local > preroll THEN local - preroll ELSE 0
    IN  IF Resets(c.fence)
        THEN Larger(c.origin + (early \div VadWindow) * VadWindow, c.base)
        ELSE OwnedStart(c)

\* The early returns of acknowledge_boundary.
CanAcknowledge(c) ==
    /\ c.pending = {} /\ ~c.failed
    /\ c.fence # None
    /\ c.fence.settled
    /\ OwnedStart(c) \in Larger(c.base, c.attempted)..c.accepted
    /\ Resets(c.fence) => c.accepted - ReplayStart(c) <= MaxEpoch

\* acknowledge_boundary: the old prefix is forgotten; after a forced cut, or for
\* maintenance, the detector is reset and hears what is retained again.
Acknowledge(c, sp, fails) ==
    LET start  == ReplayStart(c)
        handed == [c EXCEPT !.base = start, !.owned = c.fence.frame, !.fence = None]
    IN  IF ~Resets(c.fence) THEN handed
        ELSE DrainRegions([handed EXCEPT !.context = c.attempted, !.from = start,
                                         !.epoch = c.accepted - start], sp, fails)

=============================================================================
