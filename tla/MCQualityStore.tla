--------------------------- MODULE MCQualityStore ---------------------------
(* An instance of QualityStore for TLC.                                     *)
EXTENDS QualityStore
=============================================================================
