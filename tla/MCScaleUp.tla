------------------------------ MODULE MCScaleUp ------------------------------
(***************************************************************************)
(* Model-checking instances of scaling up: two workloads of equal pods on  *)
(* two nodes whose free space is uneven; one node is short of pod slots.   *)
(***************************************************************************)
EXTENDS ScaleUp

Node(cpu, pods, usedCPU) ==
  [alloc |-> [d \in Dimension |-> IF d = "pods" THEN pods ELSE cpu],
   used |-> [d \in Dimension |-> IF d = "pods" THEN 1 ELSE usedCPU],
   schedulable |-> TRUE]

World(auto, max, size, demands, hpa) ==
  [options |-> [autoReplicas |-> auto, maxReplicas |-> max, multiplier |-> 200,
                targetPercent |-> 70, allowedKinds |-> {}, minConfidence |-> 3,
                denyNamespaces |-> {"kube-system"}, allowNamespaces |-> {}],
   reserve |-> 20,
   request |-> [w \in Workload |-> [r \in Resource |-> IF r = "cpu" THEN size ELSE 0]],
   limit |-> [w \in Workload |-> 2],
   demand |-> [w \in Workload |-> demands[w]], hpa |-> hpa,
   nodes |-> [n \in NodeName |-> IF n = "n1" THEN Node(10, 4, 3) ELSE Node(6, 10, 2)],
   replicas |-> [w \in Workload |-> IF demands[w] = 3 THEN 2 ELSE 1]]

Demands(d1, d2) == [w \in Workload |-> IF w = "w1" THEN d1 ELSE d2]

MCWorlds ==
  { World(TRUE, 0, 2, Demands(6, 3), {}), World(TRUE, 3, 2, Demands(6, 2), {}),
    World(TRUE, 0, 0, Demands(4, 3), {"w1"}), World(FALSE, 3, 3, Demands(6, 2), {}) }
=============================================================================
