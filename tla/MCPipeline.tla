----------------------------- MODULE MCPipeline -----------------------------
(* Instances of Pipeline for TLC: two backends, no quality facts.           *)
EXTENDS Pipeline

CONSTANTS n1, n2, n3, n4, local, aws

MCNotes == {n1, n2, n3, n4}
MCBackends == {local, aws}
MCFacts == {}
=============================================================================
