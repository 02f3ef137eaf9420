------------------------------- MODULE MCWatch ------------------------------
(***************************************************************************)
(* Two restarts make a storm, two sweeps a forecast, and every grace       *)
(* period is a tick.                                                       *)
(***************************************************************************)
EXTENDS Watch

MCOptions == [minRestarts |-> 2, restartWindow |-> 1, notReadyGrace |-> 1,
              volumeMountGrace |-> 1, minConsecutive |-> 2]
=============================================================================
