---------------------------- MODULE MCRightsize -----------------------------
(***************************************************************************)
(* Two workloads with one pod each, and a pod without a controller, in a   *)
(* history with room for one container.                                    *)
(***************************************************************************)
EXTENDS Rightsize

MCPods == <<"web", "none", "job">>
MCHeadroom == <<1, 1>>
MCOverRatio == <<2, 5>>
=============================================================================
