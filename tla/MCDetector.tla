----------------------------- MODULE MCDetector -----------------------------
(* Instances of Detector for TLC.  Windows keep the order of the code's     *)
(* constants (DEBOUNCE < COALESCE < MIN_RECORDING, POLL_INTERVAL shortest). *)
EXTENDS Detector
=============================================================================
