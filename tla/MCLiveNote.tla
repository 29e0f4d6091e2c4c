----------------------------- MODULE MCLiveNote -----------------------------
(* An instance of LiveNote for TLC.                                         *)
EXTENDS LiveNote

Call(mic, tap, micStart, tapStart, length, echo, fails) ==
    [speech |-> [t \in Tracks |-> IF t = "mic" THEN mic ELSE tap],
     starts |-> [t \in Tracks |-> IF t = "mic" THEN micStart ELSE tapStart],
     length |-> length, echo |-> echo, faults |-> fails]

AtEnd == {"hosted", "rewrite", "flip", "ack"}
Before == FaultKinds \ AtEnd

\* Calls long enough to need a maintenance reset: somebody talks without a pause, is
\* mostly silent, or starts talking again when the reset is due.
Long ==
    { Call(3..17, {1, 2, 8}, 0, 0, 40, "off", {}),
      Call({1, 2, 20, 43}, {}, 0, 3, 46, "off", {}),
      Call({0, 1} \cup 27..46, {1, 2, 3}, 0, 8, 46, "off", {}) }

\* Every pair of a few ways to talk, with a far end that comes at once or late.
Dialogues ==
    { Call(mic, tap, 0, late, 20, echo, {}) :
        mic \in {{1, 2, 9, 10, 18}, 0..14, {4, 8, 12, 16}},
        tap \in {{1, 9, 18, 19}, 10..15, {2, 3, 7}},
        late \in {0, 10}, echo \in {"off", "echo"} }

\* Failures: at the end of a call whose text is dense, or that has one track only, and
\* before it.
Troubled ==
    { Call({0, 1, 7, 8}, {0, 1, 6, 7}, 0, 0, 16, "off", AtEnd),
      Call({2, 3, 4, 12}, {}, 0, Never, 18, "off", AtEnd),
      Call({}, 5..12, Never, 2, 18, "off", AtEnd),
      Call(1..9, {3, 4}, 0, 1, 18, "off", Before),
      Call(6..11, 10..12, 5, 0, 20, "clean", Before) }

MCCalls == Long \cup Dialogues \cup Troubled

=============================================================================
