------------------------------- MODULE ScaleUp -------------------------------
(***************************************************************************)
(* Adding replicas to a cluster with finite room: the evidence a sweep     *)
(* gathers once and all its handlers share (newSweepState and enrich in    *)
(* internal/agent/agent.go, internal/k8s/capacity.go, autoscaler.go and    *)
(* metrics.go), the validator that sizes and bounds a scale-up, and the    *)
(* scheduler that finds room for the new pods, or leaves them pending.     *)
(*                                                                         *)
(* The demand on a workload is a fixed amount of CPU, shared by its        *)
(* running pods and throttled at their limits.  The brakes, the cooldown   *)
(* and the diagnosis are other modules' business: here every workload has  *)
(* its turn once in a sweep, with any proposal.                            *)
(***************************************************************************)
EXTENDS Validator

CONSTANTS
  Workload,   \* controllers under CPU pressure
  NodeName,
  Worlds,     \* [options, reserve, request, limit, demand, hpa, nodes, replicas]
  Wishes,     \* replica counts a diagnosis may propose; 0 is none
  MaxFaults   \* bound on failed reads and cordoned nodes

ASSUME ScaleUpAssumption ==
  /\ IsFiniteSet(Workload) /\ IsFiniteSet(NodeName)
  /\ Wishes \subseteq Nat /\ MaxFaults \in Nat
  /\ \A v \in Worlds :
       /\ {v.options.multiplier, v.options.maxReplicas, v.options.targetPercent} \subseteq Int
       /\ v.reserve \in Nat /\ v.hpa \subseteq Workload
       /\ v.request \in [Workload -> [Resource -> Nat]]
       /\ {v.limit, v.demand, v.replicas} \subseteq [Workload -> Nat]
       /\ v.nodes \in [NodeName -> [alloc : [Dimension -> Nat], used : [Dimension -> Nat],
                                   schedulable : BOOLEAN]]
       /\ \A n \in NodeName, d \in Dimension : v.nodes[n].used[d] <= v.nodes[n].alloc[d]

VARIABLES
  world,     \* configuration, requests, limits and demand: never change
  nodes,     \* the nodes, with what is used of them
  replicas,  \* spec.replicas of each workload
  running,   \* its pods that have found a node
  phase,     \* "idle" or "handle"
  todo,      \* workloads this sweep has not handled
  cooling,   \* workloads within their heal cooldown
  st,        \* the sweep's evidence, shared by its handlers
  faults

scaleVars == <<world, nodes, replicas, running, phase, todo, cooling, st, faults>>

NoEvidence == [capacity |-> {}, pods |-> [w \in Workload |-> 0], usage |-> FALSE, hpas |-> {}]

ScaleInit ==
  /\ world \in Worlds
  /\ nodes = world.nodes /\ replicas = world.replicas /\ running = world.replicas
  /\ phase = "idle" /\ todo = {} /\ cooling = {} /\ st = NoEvidence
  /\ faults = 0

-----------------------------------------------------------------------------
\* The requests of the pods bound to each node, and which nodes take more.
ClusterCapacity == [nodes |-> nodes, reserve |-> world.reserve]

\* The workloads that a HorizontalPodAutoscaler targets, and whether a workload is
\* in such an index, which is empty when it could not be read.
ListAutoscalers == world.hpa
Autoscaler(index, w) == w \in index

\* Usage, capacity and the autoscalers are read once; each read may fail.
StartSweep ==
  /\ phase = "idle"
  /\ \E ok \in SUBSET {"capacity", "usage", "hpas"} :
       LET lost == 3 - Cardinality(ok)
       IN /\ faults + lost <= MaxFaults /\ faults' = faults + lost
          /\ st' = [capacity |-> IF "capacity" \in ok THEN {ClusterCapacity} ELSE {},
                    pods |-> running, usage |-> "usage" \in ok,
                    hpas |-> IF "hpas" \in ok THEN ListAutoscalers ELSE {}]
  /\ phase' = "handle" /\ todo' = Workload
  /\ UNCHANGED <<world, nodes, replicas, running, cooling>>

\* Metrics-server has a sample of every pod the sweep listed; no sample when its API
\* could not be read.
UsageSamples(w) == IF st.usage THEN st.pods[w] ELSE 0

\* Live usage over the pods the sweep listed, against their limits.  The replica
\* count is read when the evidence is collected, later than the list.
WorkloadLoad(w) ==
  LET sampled == UsageSamples(w)
      ref == sampled * world.limit[w]
  IN [replicas |-> replicas[w], sampled |-> sampled, cpu |-> Least(world.demand[w], ref), ref |-> ref]

\* The bundle of a pod of this workload, enriched with the sweep's evidence.
Bundle(w) ==
  [kind |-> "CPUPressure", ns |-> "apps", container |-> "app", owned |-> TRUE,
   containers |-> [c \in {"app"} |-> <<>>], replicas |-> replicas[w],
   autoscaled |-> Autoscaler(st.hpas, w), claims |-> <<>>, capacity |-> st.capacity, node |-> {},
   podRequests |-> world.request[w],
   load |-> {l \in {WorkloadLoad(w)} : l.sampled > 0}]

Proposal(wish) ==
  [kind |-> "scale_replicas", container |-> "", want |-> [k \in {Replicas} |-> wish]]

Plans(w, wish) ==
  UNION {Validate(b, 3, a, world.options) : b \in {Bundle(w)}, a \in {Proposal(wish)}}

\* The executor sets spec.replicas.
ScaleWorkload(w, target) == replicas' = [replicas EXCEPT ![w] = target]

\* A workload's turn: its plan, if there is one, is carried out.
Handle(w) ==
  /\ phase = "handle" /\ w \in todo
  /\ todo' = todo \ {w}
  /\ \E wish \in Wishes : \E plans \in {Plans(w, wish)} :
          \/ /\ plans = {} \/ w \in cooling
             /\ UNCHANGED <<replicas, cooling>>
          \/ /\ w \notin cooling /\ cooling' = cooling \cup {w}
             /\ \E p \in plans : ScaleWorkload(w, p.change[Replicas])
  /\ UNCHANGED <<world, nodes, running, phase, st, faults>>

EndSweep ==
  /\ phase = "handle" /\ todo = {}
  /\ phase' = "idle"
  /\ UNCHANGED <<world, nodes, replicas, running, todo, cooling, st, faults>>

-----------------------------------------------------------------------------
\* The scheduler and the nodes.

\* A node of the cluster as it is, or was in a snapshot, with room for so many pods
\* of this size beside a reserve of this many percent.
NodeHasRoom(node, req, count, percent) ==
  LET Kept(d) == (node.alloc[d] * percent) \div 100
  IN /\ node.schedulable
     /\ node.used["pods"] + count + Kept("pods") <= node.alloc["pods"]
     /\ \A r \in Resource :
          req[r] > 0 => node.used[r] + count * req[r] + Kept(r) <= node.alloc[r]

\* A pending pod is bound to a node with room, which knows of no reserve.
Schedule(w) ==
  /\ running[w] < replicas[w]
  /\ \E n \in NodeName :
       /\ NodeHasRoom(nodes[n], world.request[w], 1, 0)
       /\ nodes' = [nodes EXCEPT ![n].used = [d \in Dimension |->
            IF d = "pods" THEN @[d] + 1 ELSE @[d] + world.request[w][d]]]
  /\ running' = [running EXCEPT ![w] = @ + 1]
  /\ UNCHANGED <<world, replicas, phase, todo, cooling, st, faults>>

\* A node is cordoned or not ready any more.
Cordon(n) ==
  /\ faults < MaxFaults /\ faults' = faults + 1
  /\ nodes[n].schedulable
  /\ nodes' = [nodes EXCEPT ![n].schedulable = FALSE]
  /\ UNCHANGED <<world, replicas, running, phase, todo, cooling, st>>

\* The cooldown of an hour is over: long after the scheduler has bound the new pods,
\* or found no node for them.
CooldownEnds(w) ==
  /\ w \in cooling /\ cooling' = cooling \ {w}
  /\ running[w] < replicas[w] => ~\E n \in NodeName : NodeHasRoom(nodes[n], world.request[w], 1, 0)
  /\ UNCHANGED <<world, nodes, replicas, running, phase, todo, st, faults>>

ScaleNext ==
  \/ StartSweep \/ EndSweep
  \/ \E w \in Workload : Handle(w) \/ Schedule(w) \/ CooldownEnds(w)
  \/ \E n \in NodeName : Cordon(n)

\* The poll loop sweeps again and again and handles every workload in its turn; the
\* scheduler binds what it can.
ScaleSpec ==
  /\ ScaleInit /\ [][ScaleNext]_scaleVars
  /\ WF_scaleVars(StartSweep) /\ WF_scaleVars(EndSweep)
  /\ \A w \in Workload : WF_scaleVars(Handle(w)) /\ SF_scaleVars(Schedule(w)) /\ WF_scaleVars(CooldownEnds(w))

-----------------------------------------------------------------------------
\* Type invariant: no heal scales a workload down, no more pods run than are wanted,
\* and no node holds more than it allocates.
ScaleTypeOK ==
  /\ \A w \in Workload : world.replicas[w] <= running[w] /\ running[w] <= replicas[w]
  /\ \A n \in NodeName, d \in Dimension : nodes[n].used[d] \in 0 .. nodes[n].alloc[d]
  /\ phase \in {"idle", "handle"} /\ todo \cup cooling \subseteq Workload /\ faults \in 0 .. MaxFaults

\* These pods can all be given nodes of the snapshot, and each node keeps its
\* reserve, of which more than 90 percent would be everything (Reserve).
Placeable(s, req, count) ==
  \E home \in [1 .. count -> NodeName] : \A n \in NodeName :
    LET here == {i \in 1 .. count : home[i] = n}
    IN here # {} => NodeHasRoom(s.nodes[n], req, Cardinality(here), Least(s.reserve, 90))

\* The replicas one heal adds fit, pod by pod and node by node, into the room the
\* sweep saw, with the reserve kept (README "Capacity review", capacity.go
\* FitAdditional, validate.go validateScaleReplicas).
ScaleUpPlaceable ==
  [][\A w \in Workload : replicas'[w] # replicas[w] =>
       \E s \in st.capacity : Placeable(s, world.request[w], replicas'[w] - replicas[w])]_scaleVars

\* With a derived target a proposal can only make the scale-up smaller: no wish ends
\* with more replicas than no wish at all (README "The model does not pick the
\* number", validate.go scaleTarget).
DiagnosisOnlyLowers ==
  phase = "handle" /\ world.options.autoReplicas =>
    \A w \in todo, wish \in Wishes : \A p \in Plans(w, wish) :
      \E q \in Plans(w, 0) : p.change[Replicas] <= q.change[Replicas]

\* Utilisation is above the target.
Overloaded(w) == world.demand[w] * 100 > running[w] * world.limit[w] * world.options.targetPercent

\* Nothing more can be done for a workload: no room, or a policy bound reached.
AtLimit(w) ==
  \/ w \in world.hpa \/ running[w] < replicas[w]
  \/ ~world.options.autoReplicas
  \/ FitAdditional(ClusterCapacity, world.request[w]) = 0
  \/ Ceiling(replicas[w], world.options) <= replicas[w]

\* Sustained CPU pressure ends: sweep after sweep the workload is scaled until its
\* utilisation is at the target, or there is no room or policy for more, although
\* reads fail, proposals hold back and each step is bounded.
PressureRelieved ==
  []<>(\A w \in Workload : Overloaded(w) => AtLimit(w))
=============================================================================
