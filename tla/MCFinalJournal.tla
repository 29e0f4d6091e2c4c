--------------------------- MODULE MCFinalJournal ---------------------------
(* Instances of FinalJournal for TLC.                                       *)
EXTENDS FinalJournal
=============================================================================
