------------------------------ MODULE MCBreaker ------------------------------
(***************************************************************************)
(* Model-checking instance of the circuit breaker: one workload, three     *)
(* handlers, long enough a clock for two trips and a clean slate.          *)
(***************************************************************************)
EXTENDS Breaker, TLC

MCSymmetry == Permutations(Handler)
=============================================================================
