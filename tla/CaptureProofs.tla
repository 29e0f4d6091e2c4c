---------------------------- MODULE CaptureProofs ----------------------------
(***************************************************************************)
(* FormatIsFresh for every ring size, rate, clock and number of callbacks: *)
(* the unlocked snapshot of capture_format.rs, whose loads the listener    *)
(* and the format worker run between, never admits samples that were       *)
(* already stale when the recheck began.                                   *)
(***************************************************************************)
EXTENDS Capture, TLAPS

Stages == {"polling", "odd", "clean", "queried"}

\* The generation is even exactly while no refresh is under way, and a
\* notification that no query has answered is still marked dirty, or its query is
\* next.  FormatIsFresh alone says nothing about what a later snapshot will see.
FormatInv ==
    /\ fmt \in [gen : Nat, rate : Nat, dirty : BOOLEAN, stopping : BOOLEAN]
    /\ worker \in Stages
    /\ fmt.gen % 2 = (IF worker = "polling" THEN 0 ELSE 1)
    /\ ~asked => fmt.dirty \/ worker = "clean"

CallbackShape ==
    /\ cb = [pc |-> cb.pc, at |-> cb.at, seen |-> cb.seen, bound |-> cb.bound, slots |-> cb.slots,
             batch |-> cb.batch, fresh |-> cb.fresh]
    /\ cb.seen = [gen |-> cb.seen.gen, rate |-> cb.seen.rate]

\* A generation that a load found even was published with its rate, and stays so
\* while it is the last one.
Published(f) ==
    /\ f = [gen |-> f.gen, rate |-> f.rate]
    /\ f.gen \in Nat /\ f.gen <= fmt.gen /\ f.gen % 2 = 0
    /\ f.gen = fmt.gen => f.rate = fmt.rate

\* What a snapshot has loaded so far.
SeenInv ==
    /\ cb.at \in {"before", "after", "close"}
    /\ cb.at = "after" => cb.seen.gen \in Nat /\ cb.seen.gen <= fmt.gen
    /\ cb.at = "close" /\ cb.seen # NoFormat => Published(cb.seen)
    /\ cb.pc \in {"reserved", "second"} => Published(cb.bound)

\* Once the first load of the recheck found no mark, the bound generation can only be
\* read again if it was the published one at that load.
RecheckInv ==
    /\ cb.pc = "second" /\ cb.at = "before" => (fmt.gen = cb.bound.gen => cb.fresh = TRUE)
    /\ cb.pc = "second" /\ cb.at = "after" => (cb.seen.gen = cb.bound.gen => cb.fresh = TRUE)
    /\ cb.pc = "second" /\ cb.at = "close" /\ cb.seen # NoFormat =>
           (cb.seen = cb.bound => cb.fresh = TRUE)
    /\ cb.pc = "second" => cb.bound # NoFormat
    /\ cb.pc = "reserved" => cb.bound # NoFormat
    /\ cb.pc = "publishing" => cb.fresh = TRUE

CallbackInv == CallbackShape /\ SeenInv /\ RecheckInv

FreshInv == FormatInv /\ CallbackInv

\* An even generation with no mark has been asked for since the last notification.
LEMMA CleanIsAsked ==
    ASSUME FormatInv, ~fmt.dirty, fmt.gen % 2 = 0
    PROVE  asked
<1>1. worker = "polling"
  BY DEF FormatInv
<1> QED
  BY <1>1 DEF FormatInv

\* The format worker never takes a generation back, and stores a rate only while the
\* generation is odd.
LEMMA FormatMovesOn ==
    ASSUME FormatInv, Invalidate \/ Format
    PROVE  /\ fmt.gen \in Nat /\ fmt'.gen \in Nat /\ fmt.gen <= fmt'.gen
           /\ fmt'.gen = fmt.gen /\ fmt.gen % 2 = 0 => fmt'.rate = fmt.rate
<1>1. CASE Invalidate
  BY <1>1 DEF Invalidate, FormatInv
<1>2. CASE WithdrawFormat
  BY <1>2 DEF WithdrawFormat, FormatInv
<1>3. CASE ClearDirty
  BY <1>3 DEF ClearDirty, FormatInv
<1>4. CASE QueryFormat
  BY <1>4 DEF QueryFormat, FormatInv
<1>5. CASE PublishFormat
  BY <1>5 DEF PublishFormat, FormatInv
<1> QED
  BY <1>1, <1>2, <1>3, <1>4, <1>5 DEF Format

LEMMA FreshInit == Init => FreshInv
<1> SUFFICES ASSUME Init PROVE FreshInv
  OBVIOUS
<1>1. PICK r \in Rates : fmt = [gen |-> 2, rate |-> r, dirty |-> FALSE, stopping |-> FALSE]
  BY DEF Init
<1>2. r \in Nat
  BY <1>1, TickAssumption
<1>3. FormatInv
  BY <1>1, <1>2 DEF Init, FormatInv, Stages
<1>4. CallbackInv
  BY DEF Init, CallbackInv, CallbackShape, SeenInv, RecheckInv, Idle, NoFormat
<1> QED
  BY <1>3, <1>4 DEF FreshInv

\* The steps of the format's own thread and of its listener.
LEMMA FormatKeeps ==
    ASSUME FreshInv, Invalidate \/ Format
    PROVE  FreshInv'
<1> USE DEF FreshInv
<1>0. CallbackInv'
  <2>1. cb' = cb
    BY DEF Invalidate, Format, WithdrawFormat, ClearDirty, QueryFormat, PublishFormat, producer
  <2>2. /\ fmt.gen \in Nat /\ fmt'.gen \in Nat /\ fmt.gen <= fmt'.gen
        /\ fmt'.gen = fmt.gen /\ fmt.gen % 2 = 0 => fmt'.rate = fmt.rate
    BY FormatMovesOn
  <2>3. ASSUME NEW f, Published(f) PROVE Published(f)'
    BY <2>2, <2>3 DEF Published
  <2>4. CallbackShape'
    BY <2>1 DEF CallbackInv, CallbackShape
  <2>5. SeenInv'
    BY <2>1, <2>2, <2>3 DEF CallbackInv, SeenInv, Published
  <2>6. RecheckInv'
    BY <2>1, <2>2 DEF CallbackInv, RecheckInv, SeenInv, Published
  <2> QED BY <2>4, <2>5, <2>6 DEF CallbackInv
<1>1. CASE Invalidate
  <2>1. FormatInv'
    BY <1>1 DEF Invalidate, FormatInv, Stages
  <2> QED BY <1>0, <2>1
<1>2. CASE WithdrawFormat
  <2>1. fmt' = [fmt EXCEPT !.gen = fmt.gen + 1] /\ worker = "polling" /\ worker' = "odd" /\ fmt.dirty
    BY <1>2 DEF WithdrawFormat
  <2>2. (fmt.gen + 1) % 2 = 1 /\ fmt.gen + 1 \in Nat
    BY <2>1 DEF FormatInv
  <2>3. FormatInv'
    BY <2>1, <2>2 DEF FormatInv, Stages
  <2> QED BY <1>0, <2>3
<1>3. CASE ClearDirty
  <2>1. FormatInv'
    BY <1>3 DEF ClearDirty, FormatInv, Stages
  <2> QED BY <1>0, <2>1
<1>4. CASE QueryFormat
  <2>1. PICK r \in Rates \cup {0} : fmt' = [fmt EXCEPT !.rate = r]
    BY <1>4 DEF QueryFormat
  <2>2. r \in Nat
    BY TickAssumption
  <2>3. worker = "clean" /\ worker' = "queried" /\ asked'
    BY <1>4 DEF QueryFormat
  <2>4. FormatInv'
    BY <2>1, <2>2, <2>3 DEF FormatInv, Stages
  <2> QED BY <1>0, <2>4
<1>5. CASE PublishFormat
  <2>1. fmt' = [fmt EXCEPT !.gen = fmt.gen + 1] /\ worker = "queried" /\ worker' = "polling"
        /\ asked' = asked
    BY <1>5 DEF PublishFormat
  <2>2. (fmt.gen + 1) % 2 = 0 /\ fmt.gen + 1 \in Nat
    BY <2>1 DEF FormatInv
  <2>3. FormatInv'
    BY <2>1, <2>2 DEF FormatInv, Stages
  <2> QED BY <1>0, <2>3
<1> QED
  BY <1>1, <1>2, <1>3, <1>4, <1>5 DEF Format

\* The callback leaves the format alone; only Admit publishes, under a snapshot.
LEMMA CallbackKeeps ==
    ASSUME FreshInv, CallbackBegins \/ Callback
    PROVE  FreshInv'
<1> USE DEF FreshInv
<1>0. FormatInv' /\ fmt' = fmt
  <2>1. UNCHANGED format
    BY DEF CallbackBegins, Callback, Snapshots, LoadGeneration, LoadGenerationAgain, FormatBound,
           RecheckBegins, Admit, PublishDescriptors
  <2> QED BY <2>1 DEF FormatInv, format
<1>a. ASSUME cb' = Idle PROVE CallbackInv'
  BY <1>a DEF CallbackInv, CallbackShape, SeenInv, RecheckInv, Idle, NoFormat
<1>1. CASE CallbackBegins
  <2>1. cb' = [cb EXCEPT !.pc = "first", !.seen = NoFormat,
                         !.at = IF fmt.stopping \/ fmt.dirty THEN "close" ELSE "before"]
    BY <1>1 DEF CallbackBegins, Opened
  <2>2. CallbackInv'
    BY <2>1 DEF CallbackInv, CallbackShape, SeenInv, RecheckInv, NoFormat
  <2> QED BY <1>0, <2>2
<1>2. CASE LoadGeneration
  <2>1. cb.at = "before" /\ cb' = [cb EXCEPT !.at = "after", !.seen.gen = fmt.gen]
    BY <1>2 DEF LoadGeneration
  <2>2. /\ cb'.pc = cb.pc /\ cb'.at = "after" /\ cb'.seen.gen = fmt.gen
        /\ cb'.bound = cb.bound /\ cb'.fresh = cb.fresh
    BY <2>1 DEF CallbackInv, CallbackShape
  <2>3. CallbackShape'
    BY <2>1 DEF CallbackInv, CallbackShape
  <2>4. SeenInv'
    BY <1>0, <2>2 DEF CallbackInv, SeenInv, FormatInv, Published
  <2>5. RecheckInv'
    BY <2>1, <2>2 DEF CallbackInv, RecheckInv
  <2> QED BY <1>0, <2>3, <2>4, <2>5 DEF CallbackInv
<1>3. CASE LoadGenerationAgain
  <2>1. /\ cb.at = "after"
        /\ cb' = [cb EXCEPT !.at = "close",
                            !.seen = IF /\ cb.seen.gen = fmt.gen /\ fmt.gen # 0 /\ fmt.gen % 2 = 0
                                        /\ fmt.rate # 0
                                     THEN [gen |-> fmt.gen, rate |-> fmt.rate]
                                     ELSE NoFormat]
    BY <1>3 DEF LoadGenerationAgain
  <2>2. /\ cb'.pc = cb.pc /\ cb'.at = "close" /\ cb'.bound = cb.bound /\ cb'.fresh = cb.fresh
        /\ \/ cb'.seen = NoFormat
           \/ /\ cb.seen.gen = fmt.gen /\ fmt.gen % 2 = 0
              /\ cb'.seen = [gen |-> fmt.gen, rate |-> fmt.rate]
    BY <2>1 DEF CallbackInv, CallbackShape
  <2>3. CallbackShape'
    BY <2>1 DEF CallbackInv, CallbackShape, NoFormat
  <2>4. SeenInv'
    BY <1>0, <2>2 DEF CallbackInv, SeenInv, FormatInv, Published
  <2>5. RecheckInv'
    BY <2>1, <2>2 DEF CallbackInv, RecheckInv
  <2> QED BY <1>0, <2>3, <2>4, <2>5 DEF CallbackInv
<1>4. CASE FormatBound
  <2>1. \/ cb' = Idle
        \/ /\ cb.pc = "first" /\ cb.at = "close" /\ Snapshot # NoFormat
           /\ cb' = [cb EXCEPT !.pc = "reserved", !.bound = Snapshot,
                               !.slots = DescriptorCapacity - Len(descs)]
    BY <1>4 DEF FormatBound, CallbackEnds
  <2>2. CASE cb' = Idle
    BY <1>0, <1>a, <2>2
  <2>3. CASE cb' # Idle
    <3>1. /\ cb.at = "close" /\ Snapshot # NoFormat
          /\ cb' = [cb EXCEPT !.pc = "reserved", !.bound = Snapshot,
                              !.slots = DescriptorCapacity - Len(descs)]
      BY <2>1, <2>3
    <3>2. Snapshot = cb.seen /\ cb.seen # NoFormat /\ Published(cb.seen)
      BY <3>1 DEF Snapshot, CallbackInv, SeenInv
    <3>3. /\ cb'.pc = "reserved" /\ cb'.at = "close" /\ cb'.bound = cb.seen /\ cb'.seen = cb.seen
      BY <3>1, <3>2 DEF CallbackInv, CallbackShape
    <3>4. CallbackShape'
      BY <3>1 DEF CallbackInv, CallbackShape
    <3>5. SeenInv'
      BY <1>0, <3>2, <3>3 DEF SeenInv, Published
    <3>6. RecheckInv'
      BY <3>2, <3>3 DEF RecheckInv
    <3> QED BY <1>0, <3>4, <3>5, <3>6 DEF CallbackInv
  <2> QED BY <2>2, <2>3
<1>5. CASE RecheckBegins
  <2>1. cb.pc = "reserved" /\ cb' = [[cb EXCEPT !.pc = "second", !.seen = NoFormat,
                         !.at = IF fmt.stopping \/ fmt.dirty THEN "close" ELSE "before"]
                                     EXCEPT !.fresh = Fresh]
    BY <1>5 DEF RecheckBegins, Opened
  <2>2. /\ cb'.pc = "second" /\ cb'.seen = NoFormat /\ cb'.bound = cb.bound /\ cb'.fresh = Fresh
        /\ cb'.at = (IF fmt.stopping \/ fmt.dirty THEN "close" ELSE "before")
    BY <2>1 DEF CallbackInv, CallbackShape
  <2>3. CallbackShape'
    BY <2>1 DEF CallbackInv, CallbackShape, NoFormat
  <2>4. Published(cb.bound) /\ cb.bound # NoFormat
    BY <2>1 DEF CallbackInv, SeenInv, RecheckInv
  <2>5. SeenInv'
    BY <1>0, <2>2, <2>4 DEF SeenInv, Published
  <2>6. ~fmt.dirty /\ fmt.gen = cb.bound.gen => Fresh = TRUE
    BY <2>4, CleanIsAsked DEF Fresh, Published, FormatInv
  <2>7. RecheckInv'
    BY <1>0, <2>2, <2>4, <2>6 DEF RecheckInv
  <2> QED BY <1>0, <2>3, <2>5, <2>7 DEF CallbackInv
<1>6. CASE Admit
  <2>1. \/ cb' = Idle
        \/ /\ cb.pc = "second" /\ cb.at = "close" /\ Snapshot = cb.bound
           /\ \E batch : cb' = [cb EXCEPT !.pc = "publishing", !.batch = batch]
    BY <1>6 DEF Admit, CallbackEnds
  <2>2. CASE cb' = Idle
    BY <1>0, <1>a, <2>2
  <2>3. CASE cb' # Idle
    <3>1. cb.pc = "second" /\ cb.at = "close" /\ Snapshot = cb.bound
      BY <2>1, <2>3
    <3>2. PICK batch : cb' = [cb EXCEPT !.pc = "publishing", !.batch = batch]
      BY <2>1, <2>3
    <3>3. cb.seen = cb.bound /\ cb.seen # NoFormat /\ cb.fresh = TRUE
      BY <3>1 DEF Snapshot, CallbackInv, RecheckInv
    <3>4. /\ cb'.pc = "publishing" /\ cb'.at = "close" /\ cb'.seen = cb.seen
          /\ cb'.bound = cb.bound /\ cb'.fresh = TRUE
      BY <3>1, <3>2, <3>3 DEF CallbackInv, CallbackShape
    <3>5. CallbackShape'
      BY <3>2 DEF CallbackInv, CallbackShape
    <3>6. SeenInv'
      BY <1>0, <3>1, <3>4 DEF CallbackInv, SeenInv, Published
    <3>7. RecheckInv'
      BY <3>4 DEF RecheckInv
    <3> QED BY <1>0, <3>5, <3>6, <3>7 DEF CallbackInv
  <2> QED BY <2>2, <2>3
<1>7. CASE PublishDescriptors
  <2>1. cb' = Idle
    BY <1>7 DEF PublishDescriptors, CallbackEnds
  <2> QED BY <1>0, <1>a, <2>1
<1> QED
  BY <1>1, <1>2, <1>3, <1>4, <1>5, <1>6, <1>7 DEF Callback, Snapshots

\* The stopping thread ends the format at most, the writer touches neither.
LEMMA OthersKeep ==
    ASSUME FreshInv,
           DisableCapture \/ RetainLiveIO \/ Stopper \/ Writer \/ WriterFails
    PROVE  FreshInv'
<1> USE DEF FreshInv
<1>1. cb' = cb
  BY DEF DisableCapture, RetainLiveIO, Stopper, DestroyIO, PushTerminal, CloseProducers, JoinWriter,
         Writer, WriterPops, WriterFindsNothing, WriterSleeps, WriterEnds, WriterFails, producer
<1>2. worker' = worker /\ asked' = asked
      /\ (fmt' = fmt \/ fmt' = [fmt EXCEPT !.stopping = TRUE, !.dirty = TRUE])
  BY DEF DisableCapture, RetainLiveIO, Stopper, DestroyIO, PushTerminal, CloseProducers, JoinWriter,
         Writer, WriterPops, WriterFindsNothing, WriterSleeps, WriterEnds, WriterFails, format
<1>3. FormatInv' /\ fmt'.gen = fmt.gen /\ fmt'.rate = fmt.rate
  BY <1>2 DEF FormatInv
<1>4. CallbackInv'
  BY <1>1, <1>3 DEF CallbackInv, CallbackShape, SeenInv, RecheckInv, Published
<1> QED
  BY <1>3, <1>4

\* PCM is admitted only under the format that was in force when its samples had been
\* copied: the last one published, with no notification waiting for its query, for
\* every interleaving of the callback's loads, the listener and the format worker
\* (capture_format.rs snapshot, refresh_with; capture_transport.rs io_proc).
THEOREM FormatStaysFresh == Spec => []FormatIsFresh
<1>1. Init => FreshInv
  BY FreshInit
<1>2. FreshInv /\ [Next]_vars => FreshInv'
  <2> SUFFICES ASSUME FreshInv, [Next]_vars PROVE FreshInv'
    OBVIOUS
  <2>1. CASE Invalidate \/ Format
    BY <2>1, FormatKeeps
  <2>2. CASE CallbackBegins \/ Callback
    BY <2>2, CallbackKeeps
  <2>3. CASE DisableCapture \/ RetainLiveIO \/ Stopper \/ Writer \/ WriterFails
    BY <2>3, OthersKeep
  <2>4. CASE UNCHANGED vars
    BY <2>4 DEF vars, FreshInv, FormatInv, CallbackInv, CallbackShape, SeenInv, RecheckInv, Published
  <2> QED
    BY <2>1, <2>2, <2>3, <2>4 DEF Next, Format, Callback, Snapshots, Stopper, Writer
<1>3. FreshInv => FormatIsFresh
  BY DEF FreshInv, CallbackInv, RecheckInv, FormatIsFresh
<1> QED
  BY <1>1, <1>2, <1>3, PTL DEF Spec
=============================================================================
