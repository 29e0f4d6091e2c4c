------------------------------ MODULE MCCapture ------------------------------
(* Instances of Capture for TLC.                                            *)
EXTENDS Capture

CONSTANTS Kinds

\* What a callback's clocks say.
Clocks ==
    [steady    |-> [sampled |-> TRUE,  delta |-> 0,  hosted |-> TRUE,  error |-> 0],
     unflagged |-> [sampled |-> FALSE, delta |-> 0,  hosted |-> FALSE, error |-> 0],
     gap       |-> [sampled |-> TRUE,  delta |-> 1,  hosted |-> TRUE,  error |-> 0],
     chasm     |-> [sampled |-> TRUE,  delta |-> 3,  hosted |-> FALSE, error |-> 0],
     reset     |-> [sampled |-> TRUE,  delta |-> -1, hosted |-> TRUE,  error |-> 0],
     late      |-> [sampled |-> TRUE,  delta |-> 0,  hosted |-> TRUE,  error |-> 5],
     early     |-> [sampled |-> TRUE,  delta |-> 1,  hosted |-> TRUE,  error |-> -5]]

MCStamps == {Clocks[k] : k \in Kinds}
=============================================================================
