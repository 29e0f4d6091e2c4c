------------------------------ MODULE LiveNote ------------------------------
(***************************************************************************)
(* One live session from its first chunk to its outcome (app/src/live.rs:  *)
(* run_session, consume_chunks, finish_session and the NoteWriter).  The   *)
(* session thread receives audio of two tracks, decodes it, and files it   *)
(* in windows; a window ends at a fence that both tracks have to settle,   *)
(* while later audio is already arriving for the next one.  At the end the *)
(* note is either declared transcribed, or the session falls back to the   *)
(* batch pass and says what it did not file.                               *)
(*                                                                         *)
(* The thread is alone, so a step is what it does between two points where *)
(* something outside decides: the next chunk, how much the echo canceller  *)
(* and the resampler give out, whether a decode or a write fails, the      *)
(* verdict.                                                                *)
(***************************************************************************)
EXTENDS LiveChannel

CONSTANTS
    Calls,     \* the calls of this instance: records, see CallAssumption
    MaxFrames, \* bound on the frames of a call
    TextCap,   \* MAX_BUFFERED_TRANSCRIPT_BYTES, in words of a position
    Headroom,  \* TEXT_CAP_HEADROOM
    LedgerCap, \* MAX_FINAL_TRANSCRIPT_BYTES, likewise
    ShortPoll, \* the longest microphone poll that is held back as possible echo
    EchoWindow,\* echo_window_seconds, in frames
    MaxFaults  \* bound on the failures of a session

Tracks == {"mic", "tap"}
Never == MaxFrames + 1

FaultKinds == {"engine", "resampler", "asr", "note", "append", "unlink", "hosted",
               "rewrite", "flip", "ack"}

\* A call: the positions with speech on each track, when each track begins (Never: it
\* does not), how many frames it has at most, whether short microphone polls are judged
\* as echo ("off": echo_drop is not set; "clean": there is never acoustic evidence;
\* "echo": there always is), and what may fail during it.
ASSUME CallAssumption ==
    /\ \A c \in Calls :
         /\ DOMAIN c.speech = Tracks /\ DOMAIN c.starts = Tracks
         /\ \A t \in Tracks : c.speech[t] \subseteq 0..MaxFrames /\ c.starts[t] \in Nat
         /\ c.length \in 1..MaxFrames
         /\ c.echo \in {"off", "clean", "echo"}
         /\ c.faults \subseteq FaultKinds
    /\ MaxFrames \in Nat /\ TextCap \in Nat /\ Headroom \in 0..TextCap /\ LedgerCap \in Nat
    /\ ShortPoll \in Nat /\ EchoWindow \in Nat /\ MaxFaults \in Nat

VARIABLES
    call,     \* what is being said (never changes)
    pc,       \* where the session thread is
    chunk,    \* frames of the received chunk that were not pushed yet
    quota,    \* frames that may be pushed next
    received, \* start_frame + frames of the window
    start,    \* start_frame of the window
    policy,   \* BoundaryPolicy of the window
    cut,      \* OwnedCut: the fence both tracks are settling, or None
    chan,     \* the channels; None before the track began
    win,      \* TranscriptWindow: words, held polls, text_charge
    writer,   \* NoteWriter: window_input_start, WindowNotFiled facts, final ledger
    note,     \* the note in the vault: its state line (None: no note) and its text
    dropped,  \* the tee dropped chunks (part of the Finish verdict)
    broken,   \* the error that stopped the session, or None
    hosted,   \* the hosted final pass of this note
    outcome,  \* LiveOutcome
    faults    \* failures so far

sessionVars == <<chunk, quota, received, start, policy, cut, chan, win, writer>>
endVars == <<note, dropped, hosted, outcome>>
vars == <<call, pc, chunk, quota, received, start, policy, cut, chan, win, writer,
          note, dropped, broken, hosted, outcome, faults>>

Present == {t \in Tracks : chan[t] # None}
Said(t) == IF chan[t] = None THEN {}
           ELSE {p \in call.speech[t] : chan[t].origin <= p /\ p < received}
Audio(t) == call.speech[t]

\* Up to MaxFaults operations may fail, of the kinds that may fail during this call.
MayFail(kind) == kind \in call.faults /\ faults < MaxFaults
Failing(kinds) == faults' = faults + Cardinality(kinds)

\* On which tracks the recognizer fails in this step, if it has anything to decode.
Refusals == {{}} \cup (IF MayFail("asr") THEN {{t} : t \in Present} ELSE {})

Init ==
    /\ call \in Calls
    /\ pc = "recv" /\ chunk = 0 /\ quota = 0
    /\ received = 0 /\ start = 0
    /\ policy = NewPolicy /\ cut = None
    /\ chan = [t \in Tracks |-> None]
    /\ win = [polls |-> {}, them |-> {}, held |-> {}, charge |-> 0, far |-> {}, echoed |-> {}]
    /\ writer = [from |-> [t \in Tracks |-> 0], lost |-> [t \in Tracks |-> {}],
                 ledger |-> [t \in Tracks |-> {}]]
    /\ note = [state |-> None, text |-> [t \in Tracks |-> {}]]
    /\ dropped = FALSE /\ broken = None /\ hosted = "none" /\ outcome = None
    /\ faults = 0

-----------------------------------------------------------------------------
(* The window's words.                                                      *)

\* The verdict on a microphone poll: it is echo if far-end speech overlaps it.
IsEcho(poll, w) == call.echo = "echo" /\ poll \cap w.far # {}

\* release_all, and due for part of the held polls: each is judged, then kept or dropped.
Release(w, polls) ==
    LET echo == {poll \in polls : IsEcho(poll, w)}
    IN  [w EXCEPT !.held = @ \ polls, !.polls = @ \cup (polls \ echo),
                  !.echoed = @ \cup UNION echo]

ReleaseHeld(w) == Release(w, w.held)
ReleaseDue(w, now) == Release(w, {poll \in w.held : Max(poll) + 1 + EchoWindow <= now})

\* publish_mic_words: a short poll is held; a longer one is kept, behind what is held.
PublishMic(w, words) ==
    IF words = {} THEN w
    ELSE IF call.echo # "off" /\ Cardinality(words) <= ShortPoll
    THEN [w EXCEPT !.held = @ \cup {words}]
    ELSE [ReleaseHeld(w) EXCEPT !.polls = @ \cup {words}]

\* publish_them_words: far-end words are never held, and release what is.
PublishThem(w, words) ==
    IF words = {} THEN w
    ELSE ReleaseHeld([w EXCEPT !.them = @ \cup words, !.far = @ \cup words])

\* publish_owned_poll for both tracks, after charging the text of each.
PublishPolls(w, cs) ==
    LET words(t) == IF cs[t] = None THEN {} ELSE cs[t].pending
        charged == [w EXCEPT !.charge = @ + Cardinality(words("mic")) + Cardinality(words("tap"))]
    IN  PublishThem(PublishMic(charged, words("mic")), words("tap"))

Overfull(w) == w.charge > TextCap
Polled(cs) == [t \in Tracks |-> IF cs[t] = None THEN None ELSE [cs[t] EXCEPT !.pending = {}]]

\* text_cap_reached
TextCapReached == win.charge >= TextCap - Headroom

\* What flush_window renders: the polls are judged once more.
Rendered(w) ==
    [t \in Tracks |-> IF t = "tap" THEN w.them
                      ELSE UNION {poll \in w.polls : ~IsEcho(poll, w)}]
EchoOf(w) == UNION {poll \in w.polls : IsEcho(poll, w)}

-----------------------------------------------------------------------------
(* NoteWriter.                                                              *)

\* Mutant: only the window that could not be filed is recorded, not the audio that
\* had already been received behind it.
MarkToCut(wr, ends) ==
    LET some == [t \in Tracks |-> IF cut = None THEN ends[t] ELSE Smaller(ends[t], cut.frame)]
    IN  [from   |-> ends,
         lost   |-> [t \in Tracks |-> wr.lost[t] \cup (wr.from[t]..(some[t] - 1))],
         ledger |-> None]

\* mark_incomplete_to: everything from the last filed position up to `ends` is
\* recorded as not filed, and the assembled final transcript is given up.
MarkIncomplete(wr, ends) ==
    [from   |-> ends,
     lost   |-> [t \in Tracks |-> wr.lost[t] \cup (wr.from[t]..(ends[t] - 1))],
     ledger |-> None]

InputFrames(now) == [t \in Tracks |-> IF chan[t] = None THEN writer.from[t] ELSE now]
CutEnds == [t \in Tracks |-> IF chan[t] = None THEN writer.from[t]
                             ELSE Larger(cut.frame, chan[t].origin)]

\* The ledger after a window was appended.
Ledger(text) ==
    IF writer.ledger = None THEN None
    ELSE LET all == [t \in Tracks |-> writer.ledger[t] \cup text[t]]
         IN  IF Cardinality(all["mic"]) + Cardinality(all["tap"]) > LedgerCap THEN None
             ELSE all

\* An error ends the consumption: all that was received and not filed is marked.
Break(cause, now) ==
    /\ broken' = cause /\ pc' = "broken" /\ received' = now
    /\ writer' = MarkIncomplete(writer, InputFrames(now))

\* The session thread ends with an outcome.
Ends(result) == outcome' = result /\ pc' = "done"

Empty(text) == \A t \in Tracks : text[t] = {}

\* append_segments: nothing to append, or appended to the note, which is created first.
Appended(text) ==
    /\ note' = IF Empty(text) THEN note
               ELSE [state |-> "transcribing",
                     text |-> [t \in Tracks |-> note.text[t] \cup text[t]]]

\* flush_window that fails: nobody to diarize, no note, a note without the text, or a
\* text that was written but not synced.
AppendFails(text) ==
    /\ ~Empty(text)
    /\ \/ MayFail("note") /\ note' = note
       \/ MayFail("append") /\ note' = [note EXCEPT !.state = "transcribing"]
       \/ MayFail("append") /\ note' = [state |-> "transcribing",
                               text |-> [t \in Tracks |-> note.text[t] \cup text[t]]]

Cleared(w) == [w EXCEPT !.polls = {}, !.them = {}, !.charge = 0,
                        !.echoed = @ \cup EchoOf(w)]

-----------------------------------------------------------------------------
(* consume_chunks                                                           *)

\* build_parts fails: the session waits for the verdict without a decoder.
EngineFails ==
    /\ pc = "recv" /\ received = 0 /\ Present = {} /\ MayFail("engine")
    /\ broken' = "engine" /\ pc' = "broken"
    /\ Failing({"engine"})
    /\ UNCHANGED <<call, sessionVars, endVars>>

\* A chunk arrives; a track it is the first of begins here.
ReceiveChunk ==
    /\ pc = "recv"
    /\ \E n \in 1..Admission :
         /\ received + n <= call.length
         /\ chunk' = n
    /\ LET begins == {t \in Tracks \ Present : call.starts[t] <= received}
       IN  /\ chan' = [t \in Tracks |-> IF t \in begins THEN NewChannel(received) ELSE chan[t]]
           /\ writer' = [writer EXCEPT !.from = [t \in Tracks |->
                            IF t \in begins THEN received ELSE @[t]]]
    /\ pc' = "admit"
    /\ UNCHANGED <<call, quota, received, start, policy, cut, win, broken, faults, endVars>>

\* The capture writer hangs up.
HangUp ==
    /\ pc = "recv"
    /\ pc' = "verdict"
    /\ UNCHANGED <<call, sessionVars, broken, faults, endVars>>

\* rolling_observation
Observation ==
    [received |-> received,
     tracks   |-> [t \in Tracks |->
                     IF chan[t] = None THEN None
                     ELSE [start     |-> Larger(start, chan[t].origin),
                           delivered |-> chan[t].delivered,
                           natural   |-> NaturalInterval(chan[t], Audio(t))]],
     textFull |-> TextCapReached,
     armed    |-> \E t \in Present : EpochRemaining(chan[t]) <= MaintenanceTrigger]

NextInput == IF chunk = 0 THEN "recv" ELSE "push"

\* rolling_admission_inner, first half: ask the policy.
Admit ==
    LET r == Observe(start, policy, Observation)
    IN  /\ pc = "admit"
        /\ \/ /\ r.step = "error" /\ Break("policy", received)
              /\ UNCHANGED <<quota, policy, cut>>
           \/ /\ r.step = "admit"
              /\ policy' = r.policy /\ quota' = r.frames /\ pc' = NextInput
              /\ UNCHANGED <<cut, writer, received, broken>>
           \/ /\ r.step = "selected"
              /\ policy' = r.policy /\ pc' = "settle"
              /\ cut' = IF cut # None THEN cut
                        ELSE [frame |-> r.policy.selected.frame,
                              kind  |-> IF r.policy.selected.kind = "natural" /\ r.policy.armed
                                        THEN "maintenance" ELSE r.policy.selected.kind,
                              latched |-> {}]
              /\ UNCHANGED <<quota, writer, received, broken>>
        /\ UNCHANGED <<call, chunk, start, chan, win, faults, endVars>>

\* The first half of settle_owned_cut: latch the fence on the tracks that do not have it,
\* and let every track advance towards it.
Fence(t) == Larger(cut.frame, chan[t].origin)
Latches == \A t \in Present \ cut.latched : CanLatch(chan[t], Fence(t), cut.kind, Audio(t))
Advanced(ended, bad) ==
    [t \in Present |->
        Advance(IF t \in cut.latched THEN chan[t] ELSE Latch(chan[t], Fence(t), cut.kind),
                ended, Audio(t), t \in bad)]
Channels(a) == [t \in Tracks |-> IF t \in DOMAIN a THEN a[t].chan ELSE None]

\* settle_owned_cut while input goes on, and rolling_admission_inner's second half: a
\* track that still waits may be given what is left of the reserve.
Settle ==
    /\ pc = "settle"
    /\ UNCHANGED <<call, chunk, start, policy, endVars>>
    /\ \/ /\ ~Latches /\ Break("latch", received)
          /\ UNCHANGED <<quota, cut, chan, win, faults>>
       \/ \E bad \in Refusals :
            LET a == Advanced(FALSE, bad)
                cs == Channels(a)
                w == PublishPolls(win, cs)
                room == Smaller(cut.frame + Reserve - received,
                                MaximumOwned + Reserve - (received - start))
            IN  /\ Latches
                /\ Failing(bad)
                /\ chan' = Polled(cs) /\ win' = w
                /\ cut' = [cut EXCEPT !.latched = Present]
                /\ \/ Overfull(w) /\ Break("text", received) /\ quota' = quota
                   \/ /\ ~Overfull(w) /\ \E t \in Present : a[t].progress = "failed"
                      /\ Break("native", received) /\ quota' = quota
                   \/ /\ ~Overfull(w) /\ \A t \in Present : a[t].progress = "settled"
                      /\ pc' = "flush"
                      /\ UNCHANGED <<quota, received, writer, broken>>
                   \/ /\ ~Overfull(w) /\ \A t \in Present : a[t].progress # "failed"
                      /\ \E t \in Present : a[t].progress # "settled"
                      /\ IF cut.frame + Reserve > received /\ room > 0
                         THEN /\ quota' = Smaller(room, Admission) /\ pc' = NextInput
                              /\ UNCHANGED <<received, writer, broken>>
                         ELSE Break("reserve", received) /\ quota' = quota

\* The second half of settle_owned_cut: the window is filed or given up, the next one
\* begins, the tracks are told, and what they decode now belongs to the next window.
FileCut(next, stopped) ==
    LET w == ReleaseHeld(win)
        text == Rendered(w)
        filed == [writer EXCEPT !.from = CutEnds, !.ledger = Ledger(text)]
    IN  \E ok \in BOOLEAN, bad \in Refusals :
          LET cs == [t \in Tracks |-> IF chan[t] = None THEN None
                                      ELSE Acknowledge(chan[t], Audio(t), t \in bad)]
              w2 == PublishPolls(Cleared(w), cs)
              wr == IF ok THEN filed ELSE MarkIncomplete(writer, CutEnds)
              refused == \E t \in Present : ~CanAcknowledge(chan[t])
          IN  /\ IF ok THEN Appended(text) ELSE AppendFails(text)
              /\ faults' = faults + (IF ok THEN 0 ELSE 1) + Cardinality(bad)
              /\ faults' <= MaxFaults
              /\ start' = cut.frame /\ policy' = NewPolicy /\ cut' = None
              /\ \/ /\ refused
                    /\ chan' = chan /\ win' = Cleared(w)
                    /\ writer' = MarkIncomplete(wr, InputFrames(received))
                    /\ broken' = "acknowledge" /\ stopped
                 \/ /\ ~refused /\ Overfull(w2)
                    /\ chan' = Polled(cs) /\ win' = w2
                    /\ writer' = MarkIncomplete(wr, InputFrames(received))
                    /\ broken' = "text" /\ stopped
                 \/ /\ ~refused /\ ~Overfull(w2)
                    /\ chan' = Polled(cs) /\ win' = w2 /\ writer' = wr
                    /\ pc' = next /\ UNCHANGED <<broken, outcome>>

FileWindow ==
    /\ pc = "flush" /\ FileCut("admit", pc' = "broken" /\ outcome' = outcome)
    /\ UNCHANGED <<call, chunk, quota, received, dropped, hosted>>

\* How far a track's channel gets with frames received up to `now`: the echo canceller
\* holds back up to Lag of the microphone's, the resampler up to Stage of what it gets.
Deliveries(t, now) ==
    Larger(chan[t].delivered, IF t = "mic" /\ now > Lag THEN now - Lag
                              ELSE IF t = "mic" THEN 0 ELSE now)..now
Outputs(t, d) == Larger(chan[t].fed, IF d > Stage THEN d - Stage ELSE 0)..d

\* What t's channel may be after a push, or after finding that it has no resampler.
Pushed(t, now, bad, deaf) ==
    IF chan[t] = None THEN {None}
    ELSE {IF d = chan[t].delivered THEN chan[t]
          ELSE IF t \in deaf THEN PushWithoutResampler(chan[t], d)
          ELSE PushSamples(chan[t], d, f, Audio(t), t \in bad) :
             <<d, f>> \in {<<d, f>> \in Deliveries(t, now) \X (0..now) : f \in Outputs(t, d)}}

Deaf == {{}} \cup (IF MayFail("resampler")
                   THEN {{t} : t \in {u \in Present : chan[u].delivered = chan[u].origin}}
                   ELSE {})

\* One turn of the inner loop: frames are delivered, both decoders polled, the window
\* grows, and holds that have waited long enough are released.
PushFrames ==
    LET take == Smaller(Smaller(quota, chunk), Admission)
        now == received + take
    IN  /\ pc = "push"
        /\ \E bad \in Refusals, deaf \in Deaf :
           \E mic \in Pushed("mic", now, bad, deaf), tap \in Pushed("tap", now, bad, deaf) :
             LET cs == [t \in Tracks |-> IF t = "mic" THEN mic ELSE tap]
                 w == PublishPolls(win, cs)
             IN  /\ chan' = Polled(cs)
                 /\ faults' = faults + Cardinality(bad) + Cardinality(deaf)
                 /\ faults' <= MaxFaults
                 /\ \/ Overfull(w) /\ Break("text", now) /\ win' = w
                    \/ /\ ~Overfull(w)
                       /\ win' = ReleaseDue(w, now)
                       /\ received' = now /\ pc' = "admit"
                       /\ UNCHANGED <<writer, broken>>
        /\ chunk' = chunk - take
        /\ UNCHANGED <<call, quota, start, policy, cut, endVars>>

-----------------------------------------------------------------------------
(* The verdict, and finish_session.                                         *)

\* await_capture_verdict.  An error of the consumption is held until now.
FinishVerdict ==
    /\ pc \in {"verdict", "broken"} /\ outcome = None
    /\ dropped' \in BOOLEAN
    /\ IF pc = "broken" THEN Ends("Fallback") ELSE pc' = "tails" /\ outcome' = outcome
    /\ UNCHANGED <<call, sessionVars, note, broken, hosted, faults>>

\* The recording is discarded: the note is deleted, or left to the pipeline.
DiscardVerdict ==
    /\ pc \in {"verdict", "broken"}
    /\ \/ note' = [state |-> None, text |-> [t \in Tracks |-> {}]] /\ Ends("NoNote")
          /\ faults' = faults
          /\ broken' = broken
       \/ /\ note.state # None /\ MayFail("unlink") /\ Failing({"unlink"})
          /\ note' = note /\ Ends("Fallback") /\ broken' = "unlink"
    /\ UNCHANGED <<call, sessionVars, dropped, hosted>>

\* The application is closing; whatever was written stays.
NoVerdict ==
    /\ pc \in {"verdict", "broken"}
    /\ Ends("Fallback") /\ broken' = "verdict"
    /\ UNCHANGED <<call, sessionVars, note, dropped, hosted, faults>>

\* finish_session fails: what is not filed is marked, and the outcome is a fallback.
FinishFails(cause) ==
    /\ broken' = cause /\ Ends("Fallback")
    /\ writer' = MarkIncomplete(writer, InputFrames(received))

\* The echo canceller gives out the rest of the microphone's frames.
FinishAec ==
    /\ pc = "tails"
    /\ \E bad \in Refusals :
       \E mic \in IF chan["mic"] = None THEN {None}
                  ELSE {c \in Pushed("mic", received, bad, {}) : c.delivered = received} :
         LET cs == [chan EXCEPT !["mic"] = mic]
             w == PublishPolls(win, cs)
         IN  /\ Failing(bad)
             /\ chan' = Polled(cs) /\ win' = w
             /\ IF Overfull(w) THEN FinishFails("text")
                ELSE /\ pc' = IF cut # None THEN "lastcut" ELSE "tail"
                     /\ UNCHANGED <<writer, broken, outcome>>
    /\ UNCHANGED <<call, chunk, quota, received, start, policy, cut, note, dropped, hosted>>

\* settle_owned_cut at the end of the input: the fence has to settle now.
SettleLast ==
    /\ pc = "lastcut"
    /\ \/ /\ ~Latches /\ FinishFails("latch") /\ UNCHANGED <<cut, chan, win, faults>>
       \/ \E bad \in Refusals :
            LET a == Advanced(TRUE, bad)
                w == PublishPolls(win, Channels(a))
            IN  /\ Latches /\ Failing(bad)
                /\ chan' = Polled(Channels(a)) /\ win' = w
                /\ cut' = [cut EXCEPT !.latched = Present]
                /\ IF Overfull(w) THEN FinishFails("text")
                   ELSE IF \E t \in Present : a[t].progress # "settled"
                   THEN FinishFails("lookahead")
                   ELSE pc' = "lastflush" /\ UNCHANGED <<writer, broken, outcome>>
    /\ UNCHANGED <<call, chunk, quota, received, start, policy, note, dropped, hosted>>

FileLastCut ==
    /\ pc = "lastflush" /\ FileCut("tail", Ends("Fallback"))
    /\ UNCHANGED <<call, chunk, quota, received, dropped, hosted>>

\* Both sources end: the decoders' tails are the last words.
EndSources ==
    /\ pc = "tail"
    /\ \E bad \in Refusals :
         LET a == [t \in Present |-> Advance(chan[t], TRUE, Audio(t), t \in bad)]
             w == PublishPolls(win, Channels(a))
         IN  /\ Failing(bad)
             /\ chan' = Polled(Channels(a)) /\ win' = w
             /\ IF Overfull(w) THEN FinishFails("text")
                ELSE IF \E t \in Present : a[t].progress # "ended" THEN FinishFails("terminal")
                ELSE pc' = "lastwindow" /\ UNCHANGED <<writer, broken, outcome>>
    /\ UNCHANGED <<call, chunk, quota, received, start, policy, cut, note, dropped, hosted>>

\* The last window is filed with every hold released, or marked as not filed.
FileLastWindow ==
    LET w == ReleaseHeld(win)
        text == Rendered(w)
        ends == [t \in Tracks |-> IF chan[t] = None THEN writer.from[t] ELSE chan[t].delivered]
    IN  /\ pc = "lastwindow"
        /\ \/ /\ Appended(text)
              /\ writer' = [writer EXCEPT !.from = ends, !.ledger = Ledger(text)]
              /\ win' = Cleared(w) /\ start' = received /\ pc' = "quality"
              /\ UNCHANGED <<broken, outcome, faults>>
           \/ /\ AppendFails(text) /\ Failing({"append"})
              /\ writer' = MarkIncomplete(writer, ends)
              /\ win' = w /\ start' = start /\ broken' = "append" /\ Ends("Fallback")
        /\ UNCHANGED <<call, chunk, quota, received, policy, cut, chan, dropped, hosted>>

\* What settle makes of the session: nothing lost, not decoded or failed.
Complete ==
    /\ \A t \in Tracks : writer.lost[t] = {}
    /\ \A t \in Present : chan[t].bad = {} /\ ~chan[t].failed

\* settle_capture_quality and the choice of the outcome: losses create a note if there is
\* none; only a complete session with a note goes on.
SettleQuality ==
    /\ pc = "quality"
    /\ \/ /\ note.state # None /\ ~dropped /\ Complete
          /\ pc' = "hosted" /\ UNCHANGED <<note, outcome>>
       \/ /\ note.state # None /\ (dropped \/ ~Complete)
          /\ Ends("Fallback") /\ note' = note
       \/ /\ note.state = None /\ ~Complete
          /\ Ends("Fallback") /\ note' = [note EXCEPT !.state = "transcribing"]
       \/ /\ note.state = None /\ Complete
          /\ Ends("NoNote") /\ note' = note
    /\ UNCHANGED <<call, sessionVars, dropped, broken, hosted, faults>>

\* The hosted final pass, when there is a ledger to send: its text is applied, refused
\* at the mark, or replaced by the raw one; both texts rewrite the note.
HostedFinal ==
    /\ pc = "hosted"
    /\ \/ pc' = "flip" /\ UNCHANGED <<note, hosted, broken, outcome, faults>>
       \/ /\ writer.ledger # None
          /\ \E text \in {"applied", "raw"} :
               /\ hosted' = text
               /\ note' = [note EXCEPT !.text = writer.ledger]
               /\ pc' = "flip" /\ UNCHANGED <<broken, outcome, faults>>
       \/ /\ writer.ledger # None /\ MayFail("hosted") /\ Failing({"hosted"})
          /\ hosted' = "abandoned" /\ pc' = "flip" /\ UNCHANGED <<note, broken, outcome>>
       \/ /\ writer.ledger # None /\ MayFail("rewrite") /\ Failing({"rewrite"})
          /\ hosted' \in {"abandoned", "raw"} /\ note' = note
          /\ broken' = "rewrite" /\ Ends("Fallback")
    /\ UNCHANGED <<call, sessionVars, dropped>>

\* flip_state, then mark_final_checkpointed.
FlipNote ==
    /\ pc = "flip"
    /\ \/ /\ note' = [note EXCEPT !.state = "transcribed"]
          /\ hosted' = IF hosted = "applied" THEN "acknowledged" ELSE hosted
          /\ Ends("Filed") /\ UNCHANGED <<broken, faults>>
       \/ /\ MayFail("flip") /\ Failing({"flip"})
          /\ UNCHANGED <<note, hosted>> /\ broken' = "flip" /\ Ends("Fallback")
       \/ /\ hosted = "applied" /\ MayFail("ack") /\ Failing({"ack"})
          /\ note' = [note EXCEPT !.state = "transcribed"] /\ hosted' = hosted
          /\ broken' = "acknowledged" /\ Ends("Fallback")
    /\ UNCHANGED <<call, sessionVars, dropped>>

Next ==
    \/ EngineFails \/ ReceiveChunk \/ HangUp \/ Admit \/ Settle \/ FileWindow \/ PushFrames
    \/ FinishVerdict \/ DiscardVerdict \/ NoVerdict
    \/ FinishAec \/ SettleLast \/ FileLastCut \/ EndSources \/ FileLastWindow
    \/ SettleQuality \/ HostedFinal \/ FlipNote

Spec == Init /\ [][Next]_vars

-----------------------------------------------------------------------------
(* Properties.                                                              *)

TypeOK ==
    /\ call \in Calls
    /\ received \in 0..MaxFrames /\ start \in 0..received /\ chunk \in 0..Admission
    /\ faults \in 0..MaxFaults
    /\ \A t \in Present :
         chan[t].accepted <= chan[t].fed /\ chan[t].fed <= chan[t].delivered

\* A note that says it is transcribed has every position that was said and received on
\* either track, across all its windows, apart from the microphone's echo of the far
\* end (finish_session flips the state only then; the batch pass does not come back).
TranscribedIsWhole ==
    note.state = "transcribed" =>
        \A t \in Tracks : Said(t) \subseteq note.text[t] \cup (IF t = "mic" THEN win.echoed ELSE {})

\* No audio is given to the recognizer twice, although a forced cut makes the detector
\* hear up to a second of it again (FORCED_REPLAY_PREROLL: "Attempted audio is never
\* decoded again"), and the words of a window are said in that window: none before its
\* start, none behind a fence both tracks have settled.
WordsHaveOneOwner ==
    /\ \A t \in Present : chan[t].twice = {}
    /\ \A p \in win.them \cup UNION (win.polls \cup win.held) :
         start <= p /\ (pc \in {"flush", "lastflush"} => p < cut.frame)

\* When a session falls back, each received position that is not in its note is one it
\* reports as not filed or not decoded, so that the batch pass is told what is missing.
\* A session without an engine, a verdict or permission to delete its note is not
\* asked.
LossIsTold ==
    outcome = "Fallback" /\ broken \notin {"engine", "verdict", "unlink"} =>
        \A t \in Present :
            Said(t) \subseteq note.text[t] \cup writer.lost[t] \cup chan[t].bad
                              \cup (IF t = "mic" THEN win.echoed ELSE {})

\* The reserve, the epochs and the retention that rolling_capacity computes are enough:
\* without a failure nothing runs out while chunks arrive, and the audio of a window
\* stays within its allocation.  Only a poll too large for the text budget stops a
\* session, or the end of the input right behind a forced cut.
NothingExhausted ==
    /\ received - start <= MaximumOwned + Reserve
    /\ faults = 0 => broken \in {None, "text", "lookahead", "verdict"}

=============================================================================
