------------------------------ MODULE MCRemedies ------------------------------
(***************************************************************************)
(* Model-checking instances of the remedies: a web server with a limit and *)
(* a request, one with neither and with an init container, and a           *)
(* DaemonSet without a probe; two nodes that have room together for what   *)
(* neither has room for alone, and one that holds half of itself back.     *)
(***************************************************************************)
EXTENDS Remedies, TLC

Lim(r) == <<"limits", r>>
Req(r) == <<"requests", r>>
Period == <<"liveness", "periodSeconds">>
V(tag) == [repo |-> "registry/app", tag |-> tag, digest |-> ""]
NoResource == [r \in Resource |-> 0]

Spec1(mem, cpu, limit) ==
  (Req("memory") :> mem) @@ (Req("cpu") :> cpu) @@ (Lim("memory") :> limit)
    @@ (Lim("cpu") :> 0) @@ (Image :> V("v1")) @@ (Replicas :> 1)
    @@ [k \in {"liveness"} \X ProbeField |-> IF k = Period THEN 1 ELSE 0]

Workload(ctrl, pods, side, init, spec, bound) ==
  [ctrl |-> ctrl, gitops |-> init # <<>>, pods |-> pods, side |-> side, init |-> init,
   template |-> spec, claims |-> [c \in {"data"} |-> bound]]

MCWorkloads == {
  Workload("Deployment", 1, [NoResource EXCEPT !["memory"] = 1], <<>>,
           Spec1(1, 1, 2), "missing"),
  Workload("Deployment", 1, NoResource,
           <<[sidecar |-> TRUE, req |-> [r \in Resource |-> 1]],
             [sidecar |-> FALSE, req |-> [r \in Resource |-> 1]]>>,
           Spec1(0, 0, 0), "Pending"),
  Workload("DaemonSet", 2, NoResource, <<>>,
           [k \in ResourceKey \cup {Image} |-> Spec1(1, 0, 2)[k]], "missing") }

Node(mem, pods) ==
  [alloc |-> [d \in Dimension |-> CASE d = "memory" -> mem [] d = "cpu" -> 4 [] OTHER -> pods],
   used |-> [d \in Dimension |-> 1], schedulable |-> TRUE]

MCClusters == {
  [nodes |-> [n \in {"n1", "n2"} |-> Node(4, 4)], reserve |-> 20],
  [nodes |-> [n \in {"n1"} |-> Node(10, 4)], reserve |-> 50] }

MCSettings == {
  [apply |-> apply, allowGitOps |-> apply,
   options |-> [cap |-> [r \in Resource |-> 4], multiplier |-> 200, allowRequests |-> TRUE,
     probeCap |-> 2, maxReplicas |-> 3, autoReplicas |-> FALSE, targetPercent |-> 70,
     pvcAutoCreate |-> TRUE, pvcSize |-> 1, allowedKinds |-> {},
     minConfidence |-> 3, denyNamespaces |-> {}, allowNamespaces |-> {"apps"}]]
  : apply \in BOOLEAN }

Propose(kind, want) == [kind |-> kind, container |-> "", want |-> want]

MCProposals ==
  { Propose("patch_resources", Lim("memory") :> 4),
    Propose("patch_resources", (Req("memory") :> 2) @@ (Lim("cpu") :> 2)),
    Propose("patch_resources", (Req("memory") :> 4) @@ (Req("cpu") :> 2)),
    Propose("patch_image", Image :> V("v2")),
    Propose("patch_probe", Period :> 2),
    Propose("scale_replicas", Replicas :> 2),
    Propose("restart_workload", <<>>),
    Propose("create_pvc", <<>>) }

MCEdits == { Lim("memory") :> 3, Replicas :> 2, Image :> V("v3") }
=============================================================================
