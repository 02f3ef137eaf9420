----------------------------- MODULE MCSweepGate -----------------------------
(***************************************************************************)
(* Model-checking instances of the cluster-wide brakes.                    *)
(***************************************************************************)
EXTENDS SweepGate
=============================================================================
