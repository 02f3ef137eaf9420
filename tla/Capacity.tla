------------------------------ MODULE Capacity ------------------------------
(***************************************************************************)
(* How much room a cluster has left (internal/capacity/capacity.go and     *)
(* internal/k8s/capacity.go): the headroom of a snapshot of the nodes, the *)
(* number of pods it still takes, what a pod reserves, and the number of   *)
(* replicas a measured load calls for.  Pure: constant-level operators     *)
(* that Validator and the specifications above it use.                     *)
(*                                                                         *)
(* A snapshot is [nodes, reserve]: a function from node names to           *)
(* [alloc, used, schedulable], and the share held back, in percent.  A     *)
(* request maps each resource to an amount; floating-point ratios are      *)
(* exact fractions here.                                                   *)
(***************************************************************************)
EXTENDS Integers, Sequences, FiniteSetsExt

Resource == {"cpu", "memory"}

\* A node is filled by its pods' requests and by their number.
Dimension == Resource \cup {"pods"}

\* The sum of a function's values, as many as it has units: pairs of an argument and
\* a number up to its value.
Units(f) == UNION {{x} \X (1 .. f[x]) : x \in DOMAIN f}
Total(f) == Cardinality(Units(f))

-----------------------------------------------------------------------------
\* Never negative, and never everything.
Reserve(s) == IF s.reserve < 0 THEN 0 ELSE IF s.reserve > 90 THEN 90 ELSE s.reserve

NonNegative(v) == IF v < 0 THEN 0 ELSE v
Least(a, b) == IF a < b THEN a ELSE b

Headroom(s, n, d) ==
  LET node == s.nodes[n]
  IN NonNegative(node.alloc[d] - node.used[d] - (node.alloc[d] * Reserve(s)) \div 100)

Schedulable(s) == {n \in DOMAIN s.nodes : s.nodes[n].schedulable}

\* How many more pods of this size one node takes: its tightest dimension.
FitOn(s, n, req) ==
  LET Bound(r) == IF req[r] > 0 THEN Headroom(s, n, r) \div req[r] ELSE Headroom(s, n, "pods")
  IN Least(Headroom(s, n, "pods"), Least(Bound("cpu"), Bound("memory")))

\* Mutant: free space summed over the cluster, then divided.
FitAggregate(s, req) ==
  LET Free(d) == Total([n \in Schedulable(s) |-> Headroom(s, n, d)])
  IN Min({Free("pods")} \cup {Free(r) \div req[r] : r \in {x \in Resource : req[x] > 0}})

FitAdditional(s, req) == Total([n \in Schedulable(s) |-> FitOn(s, n, req)])

Fits(s, req) == FitAdditional(s, req) > 0

-----------------------------------------------------------------------------
\* What one pod reserves of a resource.  Its containers and its native sidecars
\* add up; an ordinary init container counts only if, on top of the sidecars
\* started before it, it needs more than that.
PodRequests(pod, r) ==
  LET Main == Total([i \in DOMAIN pod.main |-> pod.main[i][r]])
      Sidecars == {i \in DOMAIN pod.init : pod.init[i].sidecar}
      Before(i) == Total([j \in {x \in Sidecars : x < i} |-> pod.init[j].req[r]])
      Peaks == {Before(i) + pod.init[i].req[r] : i \in DOMAIN pod.init \ Sidecars}
  IN Max({Main + Before(Len(pod.init) + 1)} \cup Peaks) + pod.overhead[r]

-----------------------------------------------------------------------------
\* A workload's load is [replicas, sampled, cpu, ref]: its desired replicas, how
\* many of them had a sample, their summed usage and its summed reference.
NotComputable == 0

\* Mutant: rounded down.
TargetRoundedDown(load, percent) ==
  IF load.replicas <= 0 \/ load.sampled <= 0 \/ load.cpu <= 0 \/ load.ref <= 0
     \/ load.cpu * 100 <= load.ref * percent
  THEN NotComputable
  ELSE (load.replicas * load.cpu * 100) \div (load.ref * percent)

\* The utilisation formula, rounded up, and always more than there are.
TargetReplicas(load, percent) ==
  IF \/ load.replicas <= 0 \/ load.sampled <= 0 \/ load.cpu <= 0 \/ load.ref <= 0
     \/ percent <= 0 \/ percent > 100
     \/ load.cpu * 100 <= load.ref * percent
  THEN NotComputable
  ELSE LET whole == load.ref * percent
           desired == (load.replicas * load.cpu * 100 + whole - 1) \div whole
       IN IF desired <= load.replicas THEN load.replicas + 1 ELSE desired
=============================================================================
