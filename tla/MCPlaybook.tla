------------------------------ MODULE MCPlaybook ------------------------------
(***************************************************************************)
(* Model-checking instances of the playbook: more pairs than the book has  *)
(* room for, a quarantine that doubles once before its cap, and a decay    *)
(* shorter than the longest quarantine, as with the defaults (7 and 14     *)
(* days).                                                                  *)
(***************************************************************************)
EXTENDS Playbook, TLC

MCSymmetry == Permutations(Pair)
=============================================================================
