----------------------------- MODULE MCIncidents -----------------------------
(***************************************************************************)
(* Model-checking instances of the incident store: one container that can  *)
(* fail in two ways, and one that can fail in one.                         *)
(***************************************************************************)
EXTENDS Incidents

CONSTANTS c1, c2, oom, crash

MCProblem == {<<c1, oom>>, <<c1, crash>>, <<c2, oom>>}
=============================================================================
