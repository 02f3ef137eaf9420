------------------------------ MODULE Validator ------------------------------
(***************************************************************************)
(* The trust boundary of healing (internal/heal/validate.go): what the     *)
(* validator makes of a remedy proposed by a diagnosis, which is untrusted *)
(* input.  Pure: constant-level operators.                                 *)
(*                                                                         *)
(* What a heal can set on a workload is a set of keys, <<group, field>>.   *)
(* A container, a template, a proposal and a plan's change are functions   *)
(* from keys to values, the last two partial; 0 is unset.  Validate        *)
(* returns the set of plans it accepts: one plan, or none.  An optional    *)
(* piece of evidence is a set of at most one element.                      *)
(*                                                                         *)
(*   evidence b  [kind, ns, container, owned, containers, replicas,        *)
(*                autoscaled, claims, capacity, node, podRequests, load]   *)
(*   proposal a  [kind, container, want]                                   *)
(*   options  o  see Remedies and ScaleUp                                  *)
(***************************************************************************)
EXTENDS Capacity

ProbeType == {"liveness", "readiness"}
ProbeField == {"initialDelaySeconds", "periodSeconds", "timeoutSeconds", "failureThreshold"}

ResourceKey == {"limits", "requests"} \X Resource
ProbeKey == ProbeType \X ProbeField
Image == <<"image", "image">>
Replicas == <<"scale", "replicas">>

\* An image reference, as parseImageRef splits it.
NoImage == [repo |-> "", tag |-> "", digest |-> ""]

IsSet(spec, k) == k \in DOMAIN spec /\ spec[k] # (IF k = Image THEN NoImage ELSE 0)
Value(spec, k) == IF IsSet(spec, k) THEN spec[k] ELSE 0

Storage(kind) == kind \in {"PVCPending", "VolumeMountFailed"}

\* The container a proposal is about: its own, or the problem's.
Target(b, a) == IF a.container # "" THEN a.container ELSE b.container
Known(b, a) == Target(b, a) \in DOMAIN b.containers

Accept(b, a, change) ==
  [kind |-> a.kind, container |-> Target(b, a), change |-> change, claim |-> {}]

\* What one kind of action may set, for the fields the proposal fills in.
Proposed(a, keys) == {k \in DOMAIN a.want \cap keys : a.want[k] # 0}

-----------------------------------------------------------------------------
\* patch_resources

BoundedIncrease(have, want, cap, mult) ==
  /\ want > 0
  /\ cap > 0 => want <= cap
  /\ have > 0 => /\ want >= have
                 /\ mult > 0 => want <= (have * mult) \div 100

\* Mutant: only the container's own request is placed, not its pod.
OwnRequests(b, cur, a, keys) ==
  [r \in Resource |-> IF <<"requests", r>> \in keys THEN a.want[<<"requests", r>>] ELSE 0]

\* The pod's total, with the container's raise.
ProjectedPodRequests(b, cur, a, keys) ==
  [r \in Resource |->
     LET k == <<"requests", r>>
     IN b.podRequests[r] + (IF k \in keys THEN a.want[k] - Value(cur, k) ELSE 0)]

\* Without a snapshot, a request must at least fit the pod's whole node.
FitsOnNode(b, a, keys) ==
  \A alloc \in b.node : \A k \in keys : a.want[k] <= alloc[k[2]]

RoomFor(b, cur, a, keys) ==
  IF b.capacity = {} THEN FitsOnNode(b, a, keys)
  ELSE \A s \in b.capacity : Fits(s, ProjectedPodRequests(b, cur, a, keys))

ValidatePatch(b, a, o) ==
  LET keys == Proposed(a, ResourceKey)
      requests == {k \in keys : k[1] = "requests"}
      cur == b.containers[Target(b, a)]
      ok == /\ \A k \in keys :
                 BoundedIncrease(Value(cur, k), a.want[k], o.cap[k[2]], o.multiplier)
            /\ requests # {} => o.allowRequests /\ RoomFor(b, cur, a, requests)
            /\ keys # {}
  IN IF Known(b, a) /\ ok THEN {Accept(b, a, [k \in keys |-> a.want[k]])} ELSE {}

-----------------------------------------------------------------------------
\* patch_image: the same repository, pinned, and a change.
BoundedImage(have, want) ==
  /\ want # NoImage /\ have # NoImage
  /\ want.repo = have.repo
  /\ want.tag # "" \/ want.digest # ""
  /\ want.tag # "latest"
  /\ want.tag # have.tag \/ want.digest # have.digest

ValidatePatchImage(b, a) ==
  LET cur == b.containers[Target(b, a)]
  IN IF Known(b, a) /\ Image \in DOMAIN a.want /\ BoundedImage(cur[Image], a.want[Image])
     THEN {Accept(b, a, [k \in {Image} |-> a.want[Image]])} ELSE {}

-----------------------------------------------------------------------------
\* Mutant: a probe the container does not have is adjusted too.
ValidateAnyProbe(b, a, o) ==
  IF Proposed(a, ProbeKey) = {} THEN {}
  ELSE {Accept(b, a, [k \in Proposed(a, ProbeKey) |-> a.want[k]])}

\* patch_probe: the fields of one probe the container has, none lowered, and those
\* that change within their cap.
ValidatePatchProbe(b, a, o) ==
  LET cur == b.containers[Target(b, a)]
      asked == Proposed(a, ProbeKey)
      raised == {k \in asked : a.want[k] > Value(cur, k)}
      ok == /\ \E t \in ProbeType : /\ asked \subseteq {t} \X ProbeField
                                    /\ \E k \in {t} \X ProbeField : k \in DOMAIN cur
            /\ \A k \in asked : a.want[k] >= Value(cur, k)
            /\ \A k \in raised : o.probeCap > 0 => a.want[k] <= o.probeCap
            /\ raised # {}
  IN IF Known(b, a) /\ ok THEN {Accept(b, a, [k \in raised |-> a.want[k]])} ELSE {}

-----------------------------------------------------------------------------
\* scale_replicas

\* Mutant: the diagnosis may argue the derived target upward.
ScaleTargetTrusting(b, wish, o) ==
  IF b.load = {} THEN NotComputable
  ELSE LET derived == TargetReplicas(CHOOSE l \in b.load : TRUE, o.targetPercent)
       IN IF wish > b.replicas /\ derived # NotComputable THEN wish ELSE derived

\* The proposal's number, or the derived one, which the proposal can only lower.
ScaleTarget(b, wish, o) ==
  IF ~o.autoReplicas THEN wish
  ELSE IF b.load = {} THEN NotComputable
  ELSE LET derived == TargetReplicas(CHOOSE l \in b.load : TRUE, o.targetPercent)
       IN IF wish > b.replicas /\ wish < derived THEN wish ELSE derived

MaxInt32 == 2147483647
AddClamped(current, fit) == IF current + fit < MaxInt32 THEN current + fit ELSE MaxInt32

\* The policy bound on a target: the step multiplier and the hand-set backstop.
Ceiling(current, o) ==
  LET step == IF o.multiplier > 0 THEN (current * o.multiplier) \div 100 ELSE MaxInt32
  IN IF o.maxReplicas > 0 THEN Least(step, o.maxReplicas) ELSE step

\* Mutant: the final target is not compared with the current replicas.
ScaleEitherWay(b, a, o) ==
  {Accept(b, a, [k \in {Replicas} |-> Least(a.want[Replicas], Ceiling(b.replicas, o))]) : s \in b.capacity}

ValidateScaleReplicas(b, a, o) ==
  LET wish == IF Replicas \in DOMAIN a.want THEN a.want[Replicas] ELSE 0
      ceiling == Ceiling(b.replicas, o)
      trimmed == {Least(asked, AddClamped(b.replicas, FitAdditional(s, b.podRequests))) :
                    asked \in {ScaleTarget(b, wish, o)}, s \in b.capacity}
      bounded == {Least(t, ceiling) : t \in {x \in trimmed : o.autoReplicas \/ x <= ceiling}}
  IN IF (o.autoReplicas \/ o.maxReplicas > 0) /\ ~b.autoscaled /\ b.replicas > 0
     THEN {Accept(b, a, [k \in {Replicas} |-> final]) : final \in {x \in bounded : x > b.replicas}}
     ELSE {}

-----------------------------------------------------------------------------
\* The two recoveries of a storage fault.

\* A claim of the evidence is "missing", "unreadable" or its phase.
MissingClaims(b) == {c \in DOMAIN b.claims : b.claims[c] = "missing"}
AllClaimsBound(b) == \A c \in DOMAIN b.claims : b.claims[c] = "Bound"

ValidateCreatePVC(b, a, o) ==
  IF /\ o.pvcAutoCreate
     /\ o.allowNamespaces # {}
     /\ Cardinality(MissingClaims(b)) = 1
     /\ b.replicas <= 1
     /\ o.pvcSize > 0
  THEN {[Accept(b, a, <<>>) EXCEPT !.claim = MissingClaims(b)]} ELSE {}

ValidateRestart(b, a) ==
  IF /\ Storage(b.kind) => AllClaimsBound(b) /\ DOMAIN b.claims # {}
     /\ b.owned
  THEN {Accept(b, a, <<>>)} ELSE {}

-----------------------------------------------------------------------------
\* Low, medium and high are 1, 2 and 3; what is not one of them is 0.
ConfidenceAtLeast(have, want) == have >= want

\* What must hold of any proposal, whatever it proposes.
Gates(b, confidence, a, o) ==
  /\ Storage(b.kind) => a.kind \in {"restart_workload", "create_pvc"}
  /\ a.kind = "create_pvc" => Storage(b.kind)
  /\ o.allowedKinds # {} => b.kind \in o.allowedKinds
  /\ ConfidenceAtLeast(confidence, o.minConfidence)
  /\ b.ns \notin o.denyNamespaces
  /\ o.allowNamespaces # {} => b.ns \in o.allowNamespaces

Validate(b, confidence, a, o) ==
  IF ~Gates(b, confidence, a, o) THEN {}
  ELSE CASE a.kind = "patch_resources" -> ValidatePatch(b, a, o)
         [] a.kind = "patch_image" -> ValidatePatchImage(b, a)
         [] a.kind = "patch_probe" -> ValidatePatchProbe(b, a, o)
         [] a.kind = "scale_replicas" -> ValidateScaleReplicas(b, a, o)
         [] a.kind = "create_pvc" -> ValidateCreatePVC(b, a, o)
         [] a.kind = "restart_workload" -> ValidateRestart(b, a)
         [] OTHER -> {}
=============================================================================
