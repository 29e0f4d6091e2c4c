--------------------------- MODULE BoundaryPolicy ---------------------------
(***************************************************************************)
(* Where a live filing window ends (corti-transcribe/src/boundary.rs).     *)
(* The policy is a value: Observe takes it and what the session can see,   *)
(* and gives the next step and the policy after it.  A frame is a position *)
(* on the session's clock; a window owns the frames from its start up to   *)
(* the fence that is selected for it.                                      *)
(***************************************************************************)
EXTENDS Naturals, FiniteSetsExt

CONSTANTS
    Nominal,    \* frames a window should have
    Deferral,   \* frames a window may wait longer for a natural cut
    Admission,  \* MAX_ADMISSION_FRAMES, and FILTER_FRAMES_PER_CHUNK
    None        \* no value

ASSUME WindowAssumption ==
    Nominal \in Nat \ {0} /\ Deferral \in Nat /\ Admission \in Nat \ {0}

Larger(a, b) == IF a >= b THEN a ELSE b
Smaller(a, b) == IF a <= b THEN a ELSE b

\* BoundaryPolicy::new: nothing is due or selected.
NewPolicy == [due |-> None, selected |-> None, armed |-> FALSE]

\* BoundaryPolicy::maximum_owned_frames.
MaximumOwned == Nominal + Deferral

-----------------------------------------------------------------------------
(* An observation has the endpoint of the received frames, for each track   *)
(* None or what is known of it (its first owned frame, what was delivered   *)
(* to its decoder, and the interval of natural cuts or None), whether the   *)
(* text is full, and whether native maintenance is wanted.                  *)

\* TrackBoundary::validate.
ValidTrack(track, received) ==
    track # None =>
        /\ track.start <= track.delivered
        /\ track.delivered <= received
        /\ track.natural # None => track.natural.first <= track.natural.last

\* common_natural_cut, as the set of the frames it may choose: those every
\* established track owns, has been given, and can give up without cutting a
\* region of speech.
NaturalCuts(start, due, o) ==
    {f \in Larger(due, start + 1)..o.received :
        \A t \in DOMAIN o.tracks : o.tracks[t] # None =>
            /\ o.tracks[t].natural # None
            /\ f >= o.tracks[t].start /\ f <= o.tracks[t].delivered
            /\ f \in o.tracks[t].natural.first..o.tracks[t].natural.last}

Refuse(p) == [step |-> "error", frames |-> 0, policy |-> p]
Choose(p, f, k, due, armed) ==
    [step |-> "selected", frames |-> 0,
     policy |-> [due |-> due, selected |-> [frame |-> f, kind |-> k], armed |-> armed]]

\* When the window becomes due: at its nominal end, or as soon as its text is full.
DueFrame(start, p, o) ==
    CASE p.due # None                    -> p.due
      [] o.received >= start + Nominal   -> start + Nominal
      [] o.textFull                      -> o.received
      [] OTHER                           -> None

\* BoundaryPolicy::observe.  A natural cut wins, even at the deadline; without
\* one a full text or the deadline force a cut at what has been received.
Observe(start, p, o) ==
    LET due      == DueFrame(start, p, o)
        deadline == due + Deferral
        armed    == p.armed \/ o.armed
        natural  == IF due = None THEN {} ELSE NaturalCuts(start, due, o)
        limit    == IF due = None THEN start + Nominal ELSE deadline
    IN  IF \/ o.received < start
           \/ \E t \in DOMAIN o.tracks : ~ValidTrack(o.tracks[t], o.received)
        THEN Refuse(p)
        ELSE IF p.selected # None
        THEN IF o.received < p.selected.frame THEN Refuse(p)
             ELSE [step |-> "selected", frames |-> 0, policy |-> p]
        ELSE IF due # None /\ (o.received > deadline \/ o.received < due)
        THEN Refuse(p)
        ELSE IF natural # {}
        THEN Choose(p, Min(natural), "natural", due, armed)
        ELSE IF o.textFull
        THEN IF o.received = start THEN Refuse(p)
             ELSE Choose(p, o.received, "forced", due, armed)
        ELSE IF due # None /\ o.received = deadline
        THEN Choose(p, o.received, "forced", due, armed)
        ELSE [step |-> "admit", frames |-> Smaller(limit - o.received, Admission),
              policy |-> [due |-> due, selected |-> None, armed |-> armed]]

=============================================================================
