------------------------------ MODULE Remedies ------------------------------
(***************************************************************************)
(* What a heal does to one workload and what a rollback undoes: the        *)
(* evidence of a failing pod (internal/k8s/collect.go), the validator, the *)
(* executor (internal/heal/executor.go) with the patches it sends          *)
(* (internal/k8s/heal.go, storage.go, gitops.go), the record kept of an    *)
(* applied patch (internal/heal/record.go) and its rollback.               *)
(*                                                                         *)
(* A failing pod runs the template it was created from; people, rollouts   *)
(* and the volume provisioner act on the cluster between any two steps.    *)
(* Which heal is attempted when is SweepGate's and Breaker's business, and *)
(* records of several workloads are HealRecords'.                          *)
(***************************************************************************)
EXTENDS Validator

CONSTANTS
  Settings,   \* configurations: [options, apply, allowGitOps]
  Workloads,  \* workloads: [ctrl, gitops, pods, side, init, template, claims]
  Clusters,   \* snapshots of the nodes that a sweep may read
  Proposals,  \* what a diagnosis may propose
  Edits,      \* what people may set on the template
  MaxHeals,   \* bound on the heals executed
  MaxEdits    \* bound on the changes made by others

\* The values of a spec, a proposal or an edit that are not images.
Numbers(spec) == {spec[k] : k \in DOMAIN spec \ {Image}}

ASSUME RemediesAssumption ==
  /\ MaxHeals \in Nat /\ MaxEdits \in Nat
  \* What the code reads as unset is there with the value 0: a probe has every
  \* field or it is missing, and a workload that can be scaled has a number.
  /\ \A w \in Workloads :
       /\ ResourceKey \cup {Image} \subseteq DOMAIN w.template
       /\ \A t \in ProbeType : \/ {t} \X ProbeField \subseteq DOMAIN w.template
                             \/ \A f \in ProbeField : <<t, f>> \notin DOMAIN w.template
       /\ w.ctrl \in {"Deployment", "StatefulSet"} => Replicas \in DOMAIN w.template
       /\ Numbers(w.template) \subseteq Nat
       /\ w.side \in [Resource -> Nat]
       /\ w.init \in Seq([sidecar : BOOLEAN, req : [Resource -> Nat]])
       /\ \A c \in DOMAIN w.claims : w.claims[c] \in {"missing", "Pending", "Bound"}
  /\ \A e \in Edits : Numbers(e) \subseteq Nat
  \* Whatever a diagnosis proposes is parsed into whole numbers.
  /\ \A a \in Proposals : Numbers(a.want) \subseteq Int
  /\ \A t \in Settings : {t.options.multiplier, t.options.maxReplicas} \subseteq Int
  /\ \A s \in Clusters :
       /\ s.reserve \in Nat /\ IsFiniteSet(DOMAIN s.nodes)
       /\ \A n \in DOMAIN s.nodes :
            s.nodes[n] \in [alloc : [Dimension -> Nat], used : [Dimension -> Nat], schedulable : BOOLEAN]

VARIABLES
  setting,   \* the configuration of this run
  work,      \* the fixed facts of the workload
  cluster,   \* the nodes of this run
  template,  \* the controller's spec: replicas and pod template
  pod,       \* the spec of the pod that fails
  claims,    \* the claims the pod mounts: "missing", "Pending" or "Bound"
  evidence,  \* the bundle a handler holds, if any
  record,    \* the record of the workload's unverified heal, if any
  heals,     \* heals executed
  edits      \* changes made by others

fixed == <<setting, work, cluster>>
vars == <<fixed, template, pod, claims, evidence, record, heals, edits>>

\* A pod as PodRequests sees it, with its application container at this spec.
Shape(spec) ==
  [main |-> <<[r \in Resource |-> Value(spec, <<"requests", r>>)], work.side>>,
   init |-> work.init, overhead |-> [r \in Resource |-> 0]]

Init ==
  /\ setting \in Settings /\ work \in Workloads /\ cluster \in Clusters
  /\ template = work.template /\ pod = work.template
  /\ claims = work.claims
  /\ evidence = {} /\ record = {} /\ heals = 0 /\ edits = 0

\* A strategic merge patch: the keys it names are set and the others kept.
Merge(patch, spec) ==
  [k \in DOMAIN patch \cup DOMAIN spec |-> IF k \in DOMAIN patch THEN patch[k] ELSE spec[k]]

-----------------------------------------------------------------------------
\* The cluster, moved by others.

\* Somebody edits the template, as far as the pod's containers allow it.
Edit ==
  /\ edits < MaxEdits
  /\ \E e \in Edits : DOMAIN e \subseteq DOMAIN template /\ template' = Merge(e, template)
  /\ edits' = edits + 1
  /\ UNCHANGED <<fixed, pod, claims, evidence, record, heals>>

\* The controller replaces the failing pod with one of its current template.
Rollout ==
  /\ pod # template /\ pod' = template
  /\ UNCHANGED <<fixed, template, claims, evidence, record, heals, edits>>

\* Somebody creates a missing claim, or the provisioner binds a pending one.
ClaimMoves ==
  /\ edits < MaxEdits /\ edits' = edits + 1
  /\ \E c \in DOMAIN claims :
       \/ claims[c] = "missing" /\ claims' = [claims EXCEPT ![c] = "Pending"]
       \/ claims[c] = "Pending" /\ claims' = [claims EXCEPT ![c] = "Bound"]
  /\ UNCHANGED <<fixed, template, pod, evidence, record, heals>>

-----------------------------------------------------------------------------
\* A handler.

\* Only a pod of one of these controllers can be resolved and patched.
Healable == {"Deployment", "StatefulSet", "DaemonSet"}

\* Desired replicas, or 0 where there are none or they cannot be read.
WorkloadReplicas ==
  {0} \cup {template[Replicas] : c \in {work.ctrl} \cap {"Deployment", "StatefulSet"}}

\* A claim that cannot be read is reported as such, not dropped.
ClaimsRead == {claims, [c \in DOMAIN claims |-> "unreadable"]}

\* Collect and enrich: the evidence of the pod as it is, the reads that may fail
\* answered or not.
Collect ==
  /\ evidence = {} /\ heals < MaxHeals
  /\ \E kind \in {"OOMKilled", "PVCPending"}, replicas \in WorkloadReplicas,
        read \in ClaimsRead, snapshot \in {{}, {cluster}} :
       evidence' = {[kind |-> kind, ns |-> "apps", container |-> "app",
                     owned |-> work.ctrl # "none",
                     containers |-> [c \in {"app"} |-> pod],
                     replicas |-> replicas, autoscaled |-> FALSE, claims |-> read,
                     capacity |-> snapshot, node |-> {},
                     podRequests |-> [r \in Resource |-> PodRequests(Shape(pod), r)],
                     load |-> {}]}
  /\ UNCHANGED <<fixed, template, pod, claims, record, heals, edits>>

\* Declined, or failed on the way: the handler lets go of its evidence.
Decline ==
  /\ evidence # {} /\ evidence' = {}
  /\ UNCHANGED <<fixed, template, pod, claims, record, heals, edits>>

\* Mutant: a heal forgets the replicas there were.
PickNoReplicas(b, p) ==
  [k \in {x \in DOMAIN p.change \ {Replicas} : IsSet(b.containers[p.container], x)} |->
     b.containers[p.container][k]]

Patched(change) == Merge(change, template)

\* Mutant: the values the heal sets are recorded as the old ones.
PickNew(b, p) == p.change

\* The values to restore: those of the pod in the evidence, for the keys that
\* change; probe timings always, the rest only where there was a value.
Pick(b, p) ==
  LET before == b.containers[p.container]
      had == {k \in DOMAIN p.change : k \in ProbeKey \/ IsSet(before, k)}
  IN IF Replicas \in DOMAIN p.change THEN [k \in {Replicas} |-> b.replicas]
     ELSE [k \in had |-> IF k \in DOMAIN before THEN before[k] ELSE 0]

\* History: "was", the spec and the replicas in the evidence, and "before", those of
\* the controller when it is patched.
RecordFromPlan(b, p) ==
  [new |-> p.change, old |-> Pick(b, p), before |-> template,
   was |-> Merge([k \in {Replicas} |-> b.replicas], b.containers[p.container])]

Reconciled == work.gitops /\ ~setting.allowGitOps

\* The executor carries out a plan on the workload's controller.  A patch that is
\* applied is recorded, unless the save fails.
Patch(b, p) ==
  /\ DOMAIN p.change # {}
  /\ Replicas \in DOMAIN p.change => work.ctrl # "DaemonSet"
  /\ template' = IF setting.apply THEN Patched(p.change) ELSE template
  /\ \/ record' = IF setting.apply THEN {RecordFromPlan(b, p)} ELSE record
     \/ UNCHANGED record
  /\ UNCHANGED claims

\* A restart stamps the template, which brings a pod of the current template.
Restart(p) ==
  /\ p.kind = "restart_workload"
  /\ UNCHANGED <<template, claims, record>>

\* Create only: the API server refuses a claim that exists.
CreatePVC(p) ==
  /\ p.kind = "create_pvc"
  /\ \A c \in p.claim : claims[c] = "missing"
  /\ claims' = IF setting.apply
               THEN [c \in DOMAIN claims |-> IF c \in p.claim THEN "Pending" ELSE claims[c]]
               ELSE claims
  /\ UNCHANGED <<template, record>>

Heal ==
  /\ work.ctrl \in Healable /\ ~Reconciled
  /\ \E b \in evidence, a \in Proposals :
       \E p \in Validate(b, 3, a, setting.options) :
         Patch(b, p) \/ Restart(p) \/ CreatePVC(p)
  /\ evidence' = {} /\ heals' = heals + 1
  /\ UNCHANGED <<fixed, pod, edits>>

-----------------------------------------------------------------------------
\* Verification of a due record.

\* The workload is healthy: the record is retired.
Verified ==
  /\ record # {} /\ record' = {}
  /\ UNCHANGED <<fixed, template, pod, claims, evidence, heals, edits>>

\* A record without an old value cannot be rolled back.
Restorable(rec) == DOMAIN rec.old # {}

\* The workload still fails: the old values are patched back, and the record goes
\* if that worked.
Rollback ==
  /\ \E rec \in record : Restorable(rec) /\ template' = Patched(rec.old)
  /\ record' = {}
  /\ UNCHANGED <<fixed, pod, claims, evidence, heals, edits>>

Next ==
  \/ Edit \/ Rollout \/ ClaimMoves
  \/ Collect \/ Decline \/ Heal
  \/ Verified \/ Rollback

Spec == Init /\ [][Next]_vars

-----------------------------------------------------------------------------
\* Type invariant: a patch only sets keys the template has, whole numbers but for
\* the image, and the number of heals and edits stays within its bound.
TypeOK ==
  /\ DOMAIN template = DOMAIN work.template /\ DOMAIN pod = DOMAIN template
  /\ Numbers(template) \subseteq Nat
  /\ DOMAIN claims = DOMAIN work.claims
  /\ \A c \in DOMAIN claims : claims[c] \in {"missing", "Pending", "Bound"}
  /\ Cardinality(evidence) <= 1 /\ Cardinality(record) <= 1
  /\ heals \in 0 .. MaxHeals /\ edits \in 0 .. MaxEdits

\* The heal changed this field, and there was a value that can be given back.
GivenBack(rec, k) == k \in DOMAIN rec.new /\ (IsSet(rec.was, k) \/ k \in ProbeKey)

\* A rollback gives every field the heal changed exactly the value the controller had
\* before it, if the failing pod had that value too, and touches no field the heal did
\* not change or had added (record.go:10-12, executor.go Rollback), however many heals,
\* edits and rollouts lie in between.
RollbackRestores ==
  [][Rollback =>
       \A rec \in record : \A k \in DOMAIN template :
         /\ ~GivenBack(rec, k) => template'[k] = template[k]
         /\ GivenBack(rec, k) /\ rec.was[k] = rec.before[k] =>
              template'[k] = rec.before[k]]_vars

\* Only a heal that added values where there were none leaves a record whose
\* rollback must fail for ever (executor.go "nothing to roll back").
StuckOnlyAdded ==
  \A rec \in record : ~Restorable(rec) => \A k \in DOMAIN rec.new : ~IsSet(rec.was, k)

\* A schedulable node that keeps its reserve with one more such pod on it.
HasRoom(s, req) ==
  \E n \in DOMAIN s.nodes :
    LET node == s.nodes[n]
        Kept(d) == (node.alloc[d] * Least(s.reserve, 90)) \div 100
    IN /\ node.schedulable
       /\ node.used["pods"] + 1 + Kept("pods") <= node.alloc["pods"]
       /\ \A r \in Resource : req[r] > 0 => node.used[r] + req[r] + Kept(r) <= node.alloc[r]

\* When a heal raises requests and the nodes were readable, a node has room for the
\* whole of the pod that the new template makes, with its sidecars and its init
\* containers, if the template is still the one of the failing pod (validate.go
\* schedulable, projectedPodRequests).
RaisedPodFits ==
  [][\A b \in evidence :
       /\ b.containers["app"] = template /\ b.capacity # {}
       /\ \E k \in DOMAIN template : k[1] = "requests" /\ template'[k] # template[k]
       /\ heals' # heals
       => HasRoom(cluster, [r \in Resource |-> PodRequests(Shape(template'), r)])]_vars

=============================================================================
