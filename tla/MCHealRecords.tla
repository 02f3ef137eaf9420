---------------------------- MODULE MCHealRecords ----------------------------
(***************************************************************************)
(* Model-checking instances of the heal records: a Deployment with two     *)
(* replicas and one with a single one.                                     *)
(***************************************************************************)
EXTENDS HealRecords

CONSTANTS w1, w2, p1, p2, p3

MCOwner == [p \in Pod |-> IF p = p3 THEN w2 ELSE w1]
=============================================================================
