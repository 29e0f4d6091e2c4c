------------------------------- MODULE MCJobs -------------------------------
(* An instance of Jobs for TLC: one recording with two competing notes, a   *)
(* chore and a sweep.  Callers pass the payloads that process_live_result,   *)
(* schedule_retry, manual_retry and the startup recovery build.              *)
EXTENDS Jobs

CONSTANTS n1, n2, local

MCPayloads ==
    { [Blank EXCEPT !.origin = local, !.first = TRUE, !.finished = TRUE],
      [Blank EXCEPT !.note = n1, !.origin = local, !.finished = TRUE, !.quality = Facts],
      [Blank EXCEPT !.note = n2, !.canonical = TRUE, !.origin = local],
      Blank }
=============================================================================
