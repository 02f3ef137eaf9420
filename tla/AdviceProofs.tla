---------------------------- MODULE AdviceProofs ----------------------------
(***************************************************************************)
(* The two components that tell people about the cluster and leave it as   *)
(* it is; they share no state.                                             *)
(*                                                                         *)
(* What the sizing report promises for every list of pods, usage, request, *)
(* threshold, headroom of at least one and rounding step.  The inductive   *)
(* invariant IInv adds to the type invariant that a peak is the highest    *)
(* usage folded in, in memory and in the ConfigMap alike, which a restart  *)
(* needs.                                                                  *)
(*                                                                         *)
(* What the sweep and the live view find out about a pod, for every grace  *)
(* period, threshold and length of a streak.  PodInv gives the states a    *)
(* pod can be in, of which only one that is placed has containers, LiveInv *)
(* what the live view has told of the copy it holds, and Sustained that a  *)
(* streak of n is backed by the last n samples.                            *)
(***************************************************************************)
EXTENDS Rightsize, Watch, SequenceTheorems, FiniteSetTheorems, TLAPS

\* The peak kept of a container is its highest usage since it was last forgotten.
PeaksKept(h) == \A c \in DOMAIN h : h[c].most <= h[c].peak

IInv == TypeOK /\ PeaksKept(obs) /\ PeaksKept(stored)

-----------------------------------------------------------------------------
\* Facts about the recommendation.

\* Rounding up to a multiple never goes below the value.
LEMMA DivUp ==
  ASSUME NEW v \in Nat, NEW s \in Nat \ {0}
  PROVE  /\ ((v + s - 1) \div s) * s \in Nat
         /\ ((v + s - 1) \div s) * s >= v
<1>1. (v + s - 1) \div s \in Nat
  OBVIOUS
<1>2. ((v + s - 1) \div s) * s \in Nat
  BY <1>1
<1>3. ((v + s - 1) \div s) * s >= v
  OBVIOUS
<1> QED BY <1>2, <1>3

\* Neither does scaling by a factor of at least one.
LEMMA MulDiv ==
  ASSUME NEW v \in Nat, NEW a \in Nat, NEW b \in Nat \ {0}, a >= b
  PROVE  (v * a) \div b \in Nat /\ (v * a) \div b >= v
<1>1. v * a \in Nat
  OBVIOUS
<1>2. (v * a) \div b \in Nat
  BY <1>1
<1>3. (v * a) \div b >= v
  OBVIOUS
<1> QED BY <1>2, <1>3

\* A recommendation is at least the peak it is made from (roundCPU, roundMem, scale).
LEMMA RecommendedCovers ==
  ASSUME NEW peak \in Nat
  PROVE  Recommended(peak) \in Nat /\ Recommended(peak) >= peak
<1>1. Scaled(peak) \in Nat /\ Scaled(peak) >= peak
  <2>1. Headroom[1] \in Nat /\ Headroom[2] \in Nat \ {0} /\ Headroom[1] >= Headroom[2]
    BY RightsizeAssumption
  <2> QED BY <2>1, MulDiv DEF Scaled
<1>2. RoundUp(Scaled(peak)) \in Nat /\ RoundUp(Scaled(peak)) >= Scaled(peak)
  BY <1>1, RightsizeAssumption, DivUp DEF RoundUp
<1> QED BY <1>1, <1>2 DEF Recommended

\* What is observed has natural numbers for its fields.
LEMMA ObservationType ==
  ASSUME NEW o \in Observation
  PROVE  /\ o.peak \in Usages /\ o.peak \in Nat /\ o.request \in Nat /\ o.most \in Nat
         /\ o.idle \in Nat /\ o.window \in 0..MinWindow
<1>1. Usages \subseteq Nat /\ Requests \subseteq Nat /\ MinWindow \in Nat
  BY RightsizeAssumption
<1>2. Advice \subseteq Nat
  BY <1>1, RecommendedCovers DEF Advice
<1>3. /\ o.peak \in Usages /\ o.most \in Usages /\ o.request \in Advice
      /\ o.window \in 0..MinWindow /\ o.idle \in 0..(2 * MinWindow + 1)
  BY DEF Observation
<1>4. o.idle \in Nat
  BY <1>1, <1>3
<1> QED BY <1>1, <1>2, <1>3, <1>4

\* Every finding recommends what its container's peak calls for.
LEMMA FindingFacts ==
  ASSUME NEW h, NEW x \in Findings(h)
  PROVE  x.container \in DOMAIN h /\ x.finding.recommended = Recommended(h[x.container].peak)
<1>1. PICK c \in DOMAIN h : \E f \in Judge(h[c]) : x = [container |-> c, finding |-> f]
  BY DEF Findings
<1>2. PICK f \in Judge(h[c]) : x = [container |-> c, finding |-> f]
  BY <1>1
<1>3. f.recommended = Recommended(h[c].peak)
  BY DEF Judge, Finding
<1> QED BY <1>2, <1>3

-----------------------------------------------------------------------------
\* Facts about the history.

\* There are finitely many workloads.
LEMMA ContainersFinite == IsFiniteSet(Containers)
<1>1. Len(Pods) \in Nat /\ DOMAIN Pods = 1 .. Len(Pods)
  BY RightsizeAssumption
<1>2. IsFiniteSet(DOMAIN Pods)
  BY <1>1, FS_Interval
<1>3. IsFiniteSet({Pods[i] : i \in DOMAIN Pods})
  <2> DEFINE T == {Pods[i] : i \in DOMAIN Pods}
  <2>1. [i \in DOMAIN Pods |-> Pods[i]] \in Surjection(DOMAIN Pods, T)
    BY DEF Surjection
  <2> QED BY <1>2, <2>1, FS_Surjection
<1> QED BY <1>3, FS_Difference DEF Containers

\* A history stays one when it loses containers.
LEMMA HistoryWithout ==
  ASSUME NEW h, History(h), PeaksKept(h), NEW S, S \subseteq DOMAIN h
  PROVE  History([c \in S |-> h[c]]) /\ PeaksKept([c \in S |-> h[c]])
<1>1. IsFiniteSet(DOMAIN h)
  BY ContainersFinite, FS_Subset DEF History
<1>2. Cardinality(S) <= Cardinality(DOMAIN h) /\ Cardinality(S) \in Nat /\ Cardinality(DOMAIN h) \in Nat
  BY <1>1, FS_Subset, FS_CardinalityType
<1>3. MaxTracked \in Nat
  BY RightsizeAssumption
<1> QED BY <1>2, <1>3 DEF History, PeaksKept

\* Folding a sample in gives an observation whose peak covers it (Observe).
LEMMA AddedType ==
  ASSUME NEW o \in Observation \cup {Fresh}, o.most <= o.peak,
         NEW s \in [used : Usages, request : Advice]
  PROVE  Added(o, s) \in Observation /\ Added(o, s).most <= Added(o, s).peak
<1>1. Usages \subseteq Nat /\ MinSamples \in Nat \ {0} /\ MinWindow \in Nat \ {0}
  BY RightsizeAssumption
<1>2. o.samples \in Nat /\ o.window \in Nat /\ o.idle \in Nat
  BY <1>1 DEF Observation, Fresh
<1>3. s.used \in Usages /\ s.used \in Nat
  BY <1>1
<1>4a. (o.peak \in Usages /\ o.most \in Usages) \/ (o.peak = 0 /\ o.most = 0)
  <2>1. CASE o \in Observation
    BY <2>1 DEF Observation
  <2>2. CASE o = Fresh
    BY <2>2 DEF Fresh
  <2> QED BY <2>1, <2>2
<1>4b. o.peak \in Nat /\ o.most \in Nat
  <2>1. CASE o.peak = 0 /\ o.most = 0
    BY <2>1
  <2> QED BY <1>1, <1>4a, <2>1
<1>4. Higher(o.peak, s.used) \in Usages /\ Higher(o.most, s.used) \in Usages
  <2>1. CASE o.peak \in Usages /\ o.most \in Usages
    BY <1>3, <2>1 DEF Higher
  <2>2. CASE o.peak = 0 /\ o.most = 0
    <3>1. CASE s.used = 0
      BY <1>3, <2>2, <3>1 DEF Higher
    <3>2. CASE s.used > 0
      BY <1>3, <2>2, <3>2 DEF Higher
    <3> QED BY <1>3, <3>1, <3>2
  <2> QED BY <1>4a, <2>1, <2>2
<1>5. Higher(o.most, s.used) <= Higher(o.peak, s.used)
  BY <1>3, <1>4b DEF Higher
<1>6. /\ Limit(o.samples + 1, MinSamples) \in 1..MinSamples
      /\ Limit(o.window + o.idle, MinWindow) \in 0..MinWindow
  BY <1>1, <1>2 DEF Limit
<1>7. 0 \in 0..(2 * MinWindow + 1)
  BY <1>1
<1> QED BY <1>4, <1>5, <1>6, <1>7 DEF Added, Observation

\* A history stays one when a tracked container's observation is replaced.
LEMMA HistoryReplaced ==
  ASSUME NEW h, History(h), PeaksKept(h), NEW c \in DOMAIN h,
         NEW o \in Observation, o.most <= o.peak
  PROVE  History(With(h, c, o)) /\ PeaksKept(With(h, c, o))
<1>1. DOMAIN With(h, c, o) = DOMAIN h
  BY DEF With
<1>2. \A x \in DOMAIN h : With(h, c, o)[x] = IF x = c THEN o ELSE h[x]
  BY DEF With
<1> QED BY <1>1, <1>2 DEF History, PeaksKept

\* There is room for a container once room was made (forgetStalest).
LEMMA RoomMadeType ==
  ASSUME NEW h, History(h), PeaksKept(h), NEW g \in RoomMade(h)
  PROVE  /\ History(g) /\ PeaksKept(g) /\ DOMAIN g \subseteq DOMAIN h
         /\ Cardinality(DOMAIN g) < MaxTracked
<1>1. IsFiniteSet(DOMAIN h) /\ Cardinality(DOMAIN h) \in Nat
  BY ContainersFinite, FS_Subset, FS_CardinalityType DEF History
<1>2. CASE Cardinality(DOMAIN h) < MaxTracked
  BY <1>2 DEF RoomMade
<1>3. CASE ~(Cardinality(DOMAIN h) < MaxTracked)
  <2>1. PICK c \in Stalest(h) : g = Without(h, c)
    BY <1>3 DEF RoomMade
  <2>2. c \in DOMAIN h /\ g = [x \in DOMAIN h \ {c} |-> h[x]] /\ DOMAIN g = DOMAIN h \ {c}
    BY <2>1 DEF Stalest, Without
  <2>3. History(g) /\ PeaksKept(g)
    BY <2>2, HistoryWithout
  <2>4. Cardinality(DOMAIN h \ {c}) = Cardinality(DOMAIN h) - 1
    BY <1>1, <2>2, FS_RemoveElement
  <2>5. Cardinality(DOMAIN h) <= MaxTracked /\ MaxTracked \in Nat
    BY RightsizeAssumption DEF History
  <2> QED BY <1>1, <2>2, <2>3, <2>4, <2>5
<1> QED BY <1>2, <1>3

\* A history stays one when a sample is folded in (Observe).
LEMMA ObservedType ==
  ASSUME NEW h, History(h), PeaksKept(h), NEW c \in Containers,
         NEW s \in [used : Usages, request : Advice], NEW k \in Observed(h, c, s)
  PROVE  History(k) /\ PeaksKept(k)
<1>1. CASE c \in DOMAIN h
  <2>1. h[c] \in Observation /\ h[c].most <= h[c].peak
    BY <1>1 DEF History, PeaksKept
  <2>2. Added(h[c], s) \in Observation /\ Added(h[c], s).most <= Added(h[c], s).peak
    BY <2>1, AddedType
  <2>3. k = With(h, c, Added(h[c], s))
    BY <1>1 DEF Observed
  <2> QED BY <1>1, <2>2, <2>3, HistoryReplaced
<1>2. CASE c \notin DOMAIN h
  <2>1. PICK g \in RoomMade(h) : k = With(g, c, Added(Fresh, s))
    BY <1>2 DEF Observed
  <2>2. /\ History(g) /\ PeaksKept(g) /\ DOMAIN g \subseteq DOMAIN h
        /\ Cardinality(DOMAIN g) < MaxTracked
    BY <2>1, RoomMadeType
  <2>3. Fresh.most <= Fresh.peak
    BY DEF Fresh
  <2>4. Added(Fresh, s) \in Observation /\ Added(Fresh, s).most <= Added(Fresh, s).peak
    BY <2>3, AddedType
  <2>5. IsFiniteSet(DOMAIN g) /\ Cardinality(DOMAIN g) \in Nat
    BY <2>2, ContainersFinite, FS_Subset, FS_CardinalityType DEF History
  <2>6. DOMAIN k = DOMAIN g \cup {c}
    BY <2>1 DEF With
  <2>7. Cardinality(DOMAIN k) = Cardinality(DOMAIN g) + 1
    BY <1>2, <2>2, <2>5, <2>6, FS_AddElement
  <2>8. Cardinality(DOMAIN k) <= MaxTracked
    BY <2>2, <2>5, <2>7, RightsizeAssumption
  <2>9. \A x \in DOMAIN k : k[x] = IF x = c THEN Added(Fresh, s) ELSE g[x]
    BY <2>1, <2>6 DEF With
  <2>10. \A x \in DOMAIN k : k[x] \in Observation /\ k[x].most <= k[x].peak
    BY <2>2, <2>4, <2>6, <2>9 DEF History, PeaksKept
  <2> QED BY <2>2, <2>6, <2>8, <2>10 DEF History, PeaksKept
<1> QED BY <1>1, <1>2

\* A history stays one while time passes.
LEMMA OlderType ==
  ASSUME NEW h, History(h), PeaksKept(h)
  PROVE  History(Older(h)) /\ PeaksKept(Older(h))
<1>1. DOMAIN Older(h) = DOMAIN h
  BY DEF Older
<1>2. ASSUME NEW c \in DOMAIN h
      PROVE  Older(h)[c] \in Observation /\ Older(h)[c].most <= Older(h)[c].peak
  <2>1. h[c] \in Observation /\ h[c].most <= h[c].peak
    BY DEF History, PeaksKept
  <2>2. MinWindow \in Nat
    BY RightsizeAssumption
  <2>3. h[c].idle \in 0..(2 * MinWindow + 1)
    BY <2>1 DEF Observation
  <2>4. Limit(h[c].idle + 1, 2 * MinWindow + 1) \in 0..(2 * MinWindow + 1)
    BY <2>2, <2>3 DEF Limit
  <2>5. Older(h)[c] = [h[c] EXCEPT !.idle = Limit(h[c].idle + 1, 2 * MinWindow + 1)]
    BY DEF Older
  <2> QED BY <2>1, <2>4, <2>5 DEF Observation
<1> QED BY <1>1, <1>2 DEF History, PeaksKept

\* An empty history is one.
LEMMA EmptyHistory == History(<<>>) /\ PeaksKept(<<>>)
<1>1. DOMAIN <<>> = {} /\ Cardinality({}) = 0
  BY FS_EmptySet
<1> QED BY <1>1, RightsizeAssumption DEF History, PeaksKept

-----------------------------------------------------------------------------
\* The inductive invariant.

\* What a report advises is something a manifest may come to request.
LEMMA AdviceType ==
  ASSUME History(obs), NEW x \in Findings(obs)
  PROVE  x.finding.recommended \in Advice
<1>1. x.container \in DOMAIN obs /\ x.finding.recommended = Recommended(obs[x.container].peak)
  BY FindingFacts
<1>2. obs[x.container].peak \in Usages
  BY <1>1, ObservationType DEF History
<1> QED BY <1>1, <1>2 DEF Advice

\* The invariant holds before the first sweep (New).
LEMMA InitIInv == Init => IInv
<1> SUFFICES ASSUME Init PROVE IInv
  OBVIOUS
<1>1. History(obs) /\ PeaksKept(obs) /\ History(stored) /\ PeaksKept(stored)
  BY EmptyHistory DEF Init
<1>2. spec \in [Containers -> Advice]
  BY DEF Init, Advice
<1> QED BY <1>1, <1>2 DEF Init, IInv, TypeOK

\* Every step of the sweep, of the agent's restart and of the cluster keeps it.
LEMMA NextIInv == IInv /\ [Next]_vars => IInv'
<1> SUFFICES ASSUME IInv, [Next]_vars PROVE IInv'
  OBVIOUS
<1>0. /\ History(obs) /\ PeaksKept(obs) /\ History(stored) /\ PeaksKept(stored)
      /\ dirty \in BOOLEAN /\ spec \in [Containers -> Advice]
      /\ phase \in {"idle", "sweep", "down"} /\ todo \subseteq read /\ read \subseteq DOMAIN Pods
  BY DEF IInv, TypeOK
<1>1. CASE StartSweep
  <2>1. UNCHANGED <<obs, stored>>
    BY <1>1 DEF StartSweep
  <2> QED BY <1>0, <1>1, <2>1 DEF StartSweep, IInv, TypeOK, History, PeaksKept
<1>2. CASE Observe
  <2>1. PICK i \in todo, used \in Usages :
          /\ todo' = todo \ {i} /\ dirty' = TRUE
          /\ IF Pods[i] = Unowned THEN obs' = obs
             ELSE obs' \in Observed(obs, Pods[i], [used |-> used, request |-> spec[Pods[i]]])
          /\ UNCHANGED <<stored, spec, phase, read>>
    BY <1>2 DEF Observe
  <2>2. History(obs') /\ PeaksKept(obs')
    <3>1. CASE Pods[i] = Unowned
      BY <1>0, <2>1, <3>1
    <3>2. CASE Pods[i] # Unowned
      <4>1. Pods[i] \in Containers
        BY <1>0, <3>2 DEF Containers
      <4>2. [used |-> used, request |-> spec[Pods[i]]] \in [used : Usages, request : Advice]
        BY <1>0, <4>1
      <4> QED BY <1>0, <2>1, <3>2, <4>1, <4>2, ObservedType
    <3> QED BY <3>1, <3>2
  <2>3. History(stored') /\ PeaksKept(stored')
    BY <1>0, <2>1
  <2> QED BY <1>0, <2>1, <2>2, <2>3 DEF IInv, TypeOK, History, PeaksKept
<1>3. CASE Persist
  <2>1. /\ obs' = (IF read = {} THEN obs ELSE Forget(obs))
        /\ stored' = obs' \/ stored' = stored
        /\ dirty' \in BOOLEAN /\ phase' = "idle" /\ UNCHANGED <<spec, read, todo>>
    BY <1>0, <1>3 DEF Persist
  <2>2. History(Forget(obs)) /\ PeaksKept(Forget(obs))
    <3> DEFINE S == {x \in DOMAIN obs : obs[x].idle <= 2 * MinWindow}
    <3>1. S \subseteq DOMAIN obs
      OBVIOUS
    <3>2. History([c \in S |-> obs[c]]) /\ PeaksKept([c \in S |-> obs[c]])
      BY <1>0, <3>1, HistoryWithout
    <3> QED BY <3>2 DEF Forget
  <2>3. History(obs') /\ PeaksKept(obs')
    BY <1>0, <2>1, <2>2
  <2>4. History(stored') /\ PeaksKept(stored')
    BY <1>0, <2>1, <2>3
  <2> QED BY <1>0, <2>1, <2>3, <2>4 DEF IInv, TypeOK, History, PeaksKept
<1>4. CASE Crash
  <2>1. obs' = <<>> /\ stored' = stored
    BY <1>4 DEF Crash
  <2>2. History(obs') /\ PeaksKept(obs') /\ History(stored') /\ PeaksKept(stored')
    BY <1>0, <2>1, EmptyHistory
  <2> QED BY <1>0, <1>4, <2>2 DEF Crash, IInv, TypeOK, History, PeaksKept
<1>5. CASE Load
  <2>1. obs' \in {stored, <<>>} /\ stored' = stored
    BY <1>5 DEF Load
  <2>2. History(obs') /\ PeaksKept(obs') /\ History(stored') /\ PeaksKept(stored')
    BY <1>0, <2>1, EmptyHistory
  <2> QED BY <1>0, <1>5, <2>2 DEF Load, IInv, TypeOK, History, PeaksKept
<1>6. CASE Tick
  <2>1. History(obs') /\ PeaksKept(obs') /\ History(stored') /\ PeaksKept(stored')
    BY <1>0, <1>6, OlderType DEF Tick
  <2> QED BY <1>0, <1>6, <2>1 DEF Tick, IInv, TypeOK, History, PeaksKept
<1>7. CASE Edit
  <2>1. PICK c \in Containers :
          \E r \in Requests \cup {x.finding.recommended : x \in {y \in Findings(obs) : y.container = c}} :
            r # spec[c] /\ spec' = [spec EXCEPT ![c] = r]
    BY <1>7 DEF Edit
  <2>2. PICK r \in Advice : spec' = [spec EXCEPT ![c] = r]
    BY <1>0, <2>1, AdviceType DEF Advice
  <2>3. spec' \in [Containers -> Advice]
    BY <1>0, <2>2
  <2>4. UNCHANGED <<obs, dirty, stored, phase, read, todo>>
    BY <1>7 DEF Edit
  <2> QED BY <1>0, <2>3, <2>4 DEF IInv, TypeOK, History, PeaksKept
<1>8. CASE UNCHANGED vars
  BY <1>0, <1>8 DEF vars, IInv, TypeOK, History, PeaksKept
<1> QED BY <1>1, <1>2, <1>3, <1>4, <1>5, <1>6, <1>7, <1>8 DEF Next

-----------------------------------------------------------------------------
\* What follows from it.

\* An observation that is adjusted to its own recommendation has no finding but a
\* recommendation of nothing (judge).
LEMMA Settled ==
  ASSUME NEW o \in Observation, Recommended(o.peak) > 0
  PROVE  Judge([o EXCEPT !.request = Recommended(o.peak)]) = {}
<1> DEFINE q == [o EXCEPT !.request = Recommended(o.peak)]
<1>1. o.peak \in Nat
  BY ObservationType
<1>2. Recommended(o.peak) \in Nat /\ Recommended(o.peak) >= o.peak
  BY <1>1, RecommendedCovers
<1>3. q.request = Recommended(o.peak) /\ q.peak = o.peak
  BY DEF Observation
<1>4. q.request # 0 /\ ~(q.peak > q.request)
  BY <1>1, <1>2, <1>3
<1>5. ~Oversized(q)
  BY <1>2, <1>3 DEF Oversized
<1> QED BY <1>4, <1>5 DEF Judge

\* What the invariant says of the report.
LEMMA IInvImplies == IInv => TypeOK /\ AdviceSettles /\ AdviceCoversUsage
<1> SUFFICES ASSUME IInv PROVE AdviceSettles /\ AdviceCoversUsage
  BY DEF IInv
<1>0. History(obs) /\ PeaksKept(obs)
  BY DEF IInv, TypeOK
<1>1. ASSUME NEW x \in Findings(obs)
      PROVE  /\ x.container \in DOMAIN obs
             /\ x.finding.recommended = Recommended(obs[x.container].peak)
             /\ obs[x.container] \in Observation
             /\ obs[x.container].most <= obs[x.container].peak
  BY <1>0, FindingFacts DEF History, PeaksKept
<1>2. AdviceSettles
  <2> SUFFICES ASSUME NEW x \in Findings(obs), x.finding.recommended > 0
               PROVE  Judge([obs[x.container] EXCEPT !.request = x.finding.recommended]) = {}
    BY DEF AdviceSettles
  <2> QED BY <1>1, Settled
<1>3. AdviceCoversUsage
  <2> SUFFICES ASSUME NEW x \in Findings(obs)
               PROVE  x.finding.recommended >= obs[x.container].most
    BY DEF AdviceCoversUsage
  <2>1. obs[x.container].peak \in Nat /\ obs[x.container].most \in Nat
    BY <1>1, ObservationType
  <2>2. Recommended(obs[x.container].peak) \in Nat
        /\ Recommended(obs[x.container].peak) >= obs[x.container].peak
    BY <2>1, RecommendedCovers
  <2> QED BY <1>1, <2>1, <2>2
<1> QED BY <1>2, <1>3

\* The invariant holds in every state of every behaviour.
LEMMA Invariance == Spec => []IInv
BY InitIInv, NextIInv, PTL DEF Spec

\* The histories in memory and in the ConfigMap are well formed and within MaxTracked
\* throughout, whatever is saved, lost and restored (Tracker.Observe, Restore).
THEOREM HistoriesBounded == Spec => []TypeOK
BY Invariance, IInvImplies, PTL

\* A container given the request that was recommended for it is not reported again
\* while its usage stays within its peak (Tracker.judge).
THEOREM AdviceIsFinal == Spec => []AdviceSettles
BY Invariance, IInvImplies, PTL

\* No recommendation is below a usage in the container's history (Tracker.Findings).
THEOREM AdviceIsSafe == Spec => []AdviceCoversUsage
BY Invariance, IInvImplies, PTL

-----------------------------------------------------------------------------
\* The pod.

\* A container that has just been created waits for that whatever Waits says.
Death == [reason : Deaths, ago : 0 .. MaxAge]
Status ==
  [waiting : Waits \cup {"", "ContainerCreating", "CrashLoopBackOff"},
   dead : SUBSET Death, last : SUBSET Death, restarts : Nat, ready : BOOLEAN]
PodSet ==
  [phase : {"Pending", "Running", "Failed"}, reason : {""} \cup Failures,
   placed : {"unknown", "no room", "no volume", "node"}, mounts : BOOLEAN, since : 0 .. MaxAge, ready : BOOLEAN, unready : 0 .. MaxAge,
   cs : {<<>>} \cup [{"app"} -> Status]]

\* Containers are reported only of a pod that has a node.
PodInv == pod \in PodSet /\ (pod.cs # <<>> => pod.placed = "node")

\* No time has passed yet.
LEMMA ZeroAge == 0 \in 0 .. MaxAge
<1>1. MaxAge \in Nat
  BY WatchAssumption
<1> QED BY <1>1

\* A new pod is a pod without containers.
LEMMA NewPodFacts == NewPod \in PodSet /\ NewPod.cs = <<>>
BY WatchAssumption DEF NewPod, PodSet

\* So is the status of a container that has just been created.
LEMMA CreatedFacts == Created \in Status
BY DEF Created, Status

\* The status of its container changes nothing else of a pod but its readiness.
LEMMA WithStatusFacts ==
  ASSUME PodInv, HasApp, NEW cs \in Status
  PROVE  /\ WithStatus(cs) \in PodSet /\ WithStatus(cs).placed = "node"
         /\ WithStatus(cs).phase = pod.phase
         /\ WithStatus(cs).cs = [c \in {"app"} |-> cs]
<1>1. [c \in {"app"} |-> cs] \in [{"app"} -> Status] /\ 0 \in 0 .. MaxAge
  BY WatchAssumption
<1>2. cs.ready \in BOOLEAN
  BY DEF Status
<1>3. (IF cs.ready THEN 0 ELSE pod.unready) \in 0 .. MaxAge
  BY <1>1 DEF PodInv, PodSet
<1> QED BY <1>1, <1>2, <1>3 DEF PodInv, PodSet, WithStatus, HasApp

\* A pod that reports its container has a node.
LEMMA AppFacts ==
  ASSUME PodInv, HasApp
  PROVE  App \in Status /\ pod.placed = "node" /\ DOMAIN pod.cs = {"app"}
BY DEF PodInv, PodSet, HasApp, App

\* The first pod has its type.
LEMMA InitPod == WatchInit => PodInv
BY NewPodFacts DEF WatchInit, PodInv

\* Placed or not, the pod keeps its type.
LEMMA PlacePod == PodInv /\ Place => PodInv'
<1> SUFFICES ASSUME PodInv, Place PROVE PodInv'
  OBVIOUS
<1>1. PICK where \in {"no room", "no volume", "node"} :
        pod' = [pod EXCEPT !.placed = where, !.since = 0,
                  !.cs = IF where = "node" THEN [c \in {"app"} |-> Created] ELSE <<>>]
  BY DEF Place, Becomes
<1>2. [c \in {"app"} |-> Created] \in [{"app"} -> Status]
  BY CreatedFacts
<1> QED BY <1>1, <1>2, ZeroAge DEF PodInv, PodSet

\* So it does with any status of its container.
LEMMA StatusPod ==
  ASSUME PodInv, HasApp, NEW cs \in Status, pod' = WithStatus(cs)
  PROVE  PodInv'
BY WithStatusFacts DEF PodInv

\* The container starts.
LEMMA RunPod == PodInv /\ Run => PodInv'
<1> SUFFICES ASSUME PodInv, Run PROVE PodInv'
  OBVIOUS
<1> DEFINE cs == [App EXCEPT !.waiting = ""]
<1>1. HasApp /\ pod' = [WithStatus(cs) EXCEPT !.phase = "Running", !.unready = 0, !.since = 0]
  BY DEF Run, Becomes
<1>2. cs \in Status
  BY <1>1, AppFacts DEF Status
<1> HIDE DEF cs
<1>3. WithStatus(cs) \in PodSet /\ WithStatus(cs).placed = "node" /\ 0 \in 0 .. MaxAge
  BY <1>1, <1>2, WithStatusFacts, WatchAssumption
<1> QED BY <1>1, <1>3 DEF PodInv, PodSet

\* The other steps of the container only change its status.
LEMMA ContainerPod ==
  PodInv /\ (Pull \/ Probe \/ Die \/ BackOff \/ Restart \/ Collected) => PodInv'
<1> SUFFICES ASSUME PodInv, Pull \/ Probe \/ Die \/ BackOff \/ Restart \/ Collected
             PROVE  PodInv'
  OBVIOUS
<1>1. HasApp
  BY DEF Pull, Probe, Die, BackOff, Restart, Collected, Up
<1>2. App \in Status
  BY <1>1, AppFacts
<1>3. CASE Pull
  <2>1. PICK why \in Waits : pod' = WithStatus([App EXCEPT !.waiting = why])
    BY <1>3 DEF Pull, Becomes
  <2>2. [App EXCEPT !.waiting = why] \in Status
    BY <1>2 DEF Status
  <2> QED BY <1>1, <2>1, <2>2, StatusPod
<1>4. CASE Probe
  <2>1. [App EXCEPT !.ready = ~@] \in Status
    BY <1>2 DEF Status
  <2> QED BY <1>1, <1>4, <2>1, StatusPod DEF Probe, Becomes
<1>5. CASE Die
  <2>1. PICK why \in Deaths :
          pod' = WithStatus([App EXCEPT !.dead = {[reason |-> why, ago |-> 0]}, !.ready = FALSE])
    BY <1>5 DEF Die, Becomes
  <2>2. {[reason |-> why, ago |-> 0]} \in SUBSET Death
    BY WatchAssumption DEF Death
  <2>3. [App EXCEPT !.dead = {[reason |-> why, ago |-> 0]}, !.ready = FALSE] \in Status
    BY <1>2, <2>2 DEF Status
  <2> QED BY <1>1, <2>1, <2>3, StatusPod
<1>6. CASE BackOff
  <2>1. [App EXCEPT !.waiting = "CrashLoopBackOff", !.last = App.dead, !.dead = {}] \in Status
    BY <1>2 DEF Status
  <2> QED BY <1>1, <1>6, <2>1, StatusPod DEF BackOff, Becomes
<1>7. CASE Restart
  <2>1. /\ App.dead \in SUBSET Death /\ App.last \in SUBSET Death
        /\ App.restarts \in Nat
    BY <1>2 DEF Status
  <2>3. Terminated(App) \in SUBSET Death
    BY <2>1 DEF Terminated
  <2>2. [App EXCEPT !.waiting = "", !.last = Terminated(App), !.dead = {},
           !.restarts = @ + 1] \in Status
    <3>1. App.restarts + 1 \in Nat
      BY <2>1
    <3> QED BY <1>2, <2>3, <3>1 DEF Status
  <2> QED BY <1>1, <1>7, <2>2, StatusPod DEF Restart, Becomes
<1>8. CASE Collected
  <2>1. [App EXCEPT !.last = {}] \in Status
    BY <1>2 DEF Status
  <2> QED BY <1>1, <1>8, <2>1, StatusPod DEF Collected, Becomes
<1> QED BY <1>3, <1>4, <1>5, <1>6, <1>7, <1>8

\* Ages stay within their bound.
LEMMA AgedFacts == \A n \in 0 .. MaxAge : Aged(n) \in 0 .. MaxAge
BY WatchAssumption DEF Aged

\* Terminations only grow older.
LEMMA AgedDeaths ==
  ASSUME NEW ds \in SUBSET Death
  PROVE  {[d EXCEPT !.ago = Aged(@)] : d \in ds} \in SUBSET Death
BY AgedFacts DEF Death

\* As time passes the pod keeps its type.
LEMMA ClockPod == PodInv /\ ClockTick => PodInv'
<1> SUFFICES ASSUME PodInv, ClockTick PROVE PodInv'
  OBVIOUS
<1> DEFINE older(s) == [s EXCEPT !.last = {[d EXCEPT !.ago = Aged(@)] : d \in s.last},
                                 !.dead = {[d EXCEPT !.ago = Aged(@)] : d \in s.dead}]
           cs == [c \in DOMAIN pod.cs |-> older(pod.cs[c])]
           since == IF pod.placed = "node" /\ pod.phase = "Pending" THEN Aged(pod.since) ELSE pod.since
           unready == IF pod.phase = "Running" /\ ~pod.ready THEN Aged(pod.unready) ELSE pod.unready
<1>1. pod' = [pod EXCEPT !.since = since, !.unready = unready, !.cs = cs]
  BY DEF ClockTick, Becomes, PodInv, PodSet
<1>2. since \in 0 .. MaxAge /\ unready \in 0 .. MaxAge
  BY AgedFacts DEF PodInv, PodSet
<1>3. ASSUME NEW s \in Status PROVE older(s) \in Status
  <2>1. /\ {[d EXCEPT !.ago = Aged(@)] : d \in s.last} \in SUBSET Death
        /\ {[d EXCEPT !.ago = Aged(@)] : d \in s.dead} \in SUBSET Death
    BY AgedDeaths DEF Status
  <2> QED BY <2>1 DEF Status
<1> HIDE DEF since, unready, older
<1>4. CASE pod.cs = <<>>
  <2>1. cs = <<>>
    BY <1>4
  <2> HIDE DEF cs
  <2> QED BY <1>1, <1>2, <2>1 DEF PodInv, PodSet
<1>5. CASE pod.cs # <<>>
  <2>1. pod.cs \in [{"app"} -> Status]
    BY <1>5 DEF PodInv, PodSet
  <2>2. cs \in [{"app"} -> Status]
    BY <2>1, <1>3
  <2> HIDE DEF cs
  <2> QED BY <1>1, <1>2, <1>5, <2>2 DEF PodInv, PodSet
<1> QED BY <1>4, <1>5

\* Every step keeps PodInv.
LEMMA NextPod == PodInv /\ [WatchNext]_watchVars => PodInv'
<1> SUFFICES ASSUME PodInv, [WatchNext]_watchVars PROVE PodInv'
  OBVIOUS
<1>1. CASE Sweep \/ Deliver \/ DeliverGone \/ UNCHANGED watchVars
  <2>1. pod' = pod
    BY <1>1 DEF Sweep, Deliver, DeliverGone, Notify, watchVars
  <2> QED BY <2>1 DEF PodInv
<1>2. CASE Fail
  <2>1. PICK why \in Failures :
          pod' = [pod EXCEPT !.phase = "Failed", !.reason = why, !.ready = FALSE, !.unready = 0,
                             !.since = 0, !.cs = <<>>]
    BY <1>2 DEF Fail, Becomes
  <2>2. 0 \in 0 .. MaxAge
    BY WatchAssumption
  <2> QED BY <2>1, <2>2 DEF PodInv, PodSet
<1>3. CASE Replace
  BY <1>3, NewPodFacts DEF Replace, PodInv
<1> QED BY <1>1, <1>2, <1>3, PlacePod, RunPod, ContainerPod, ClockPod DEF WatchNext, Kubelet

\* PodInv holds in every state.
LEMMA PodHolds == WatchSpec => []PodInv
BY InitPod, NextPod, PTL DEF WatchSpec

-----------------------------------------------------------------------------
\* The live view: at most one copy, and nothing told of a pod it has no copy of.
LiveInv ==
  /\ ReadinessTold
  /\ told \in {"", "Ready", "NotReady"} /\ (known = {} => told = "")
  /\ \A k, l \in known : k = l
  /\ \A k \in known : k.ready \in BOOLEAN

\* The only events about readiness are those of a change of it.
LEMMA EventFacts ==
  ASSUME NEW o, NEW p, PodInv, p = Look(pod), o.ready \in BOOLEAN
  PROVE  {e.reason : e \in Transitions({o}, {p})} \cap {"Ready", "NotReady"} =
           IF o.ready = p.ready THEN {} ELSE {IF p.ready THEN "Ready" ELSE "NotReady"}
<1> DEFINE readiness == {"Ready", "NotReady"}
<1>1. /\ Transitions({o}, {p}) = RestartEvents(o, p) \cup ReadinessEvents(o, p)
                                   \cup WaitingEvents(o, p) \cup FailedEvents(o, p)
  <2> DEFINE between(a, b) == RestartEvents(a, b) \cup ReadinessEvents(a, b)
                                \cup WaitingEvents(a, b) \cup FailedEvents(a, b)
  <2>1. Transitions({o}, {p}) = UNION {between(a, b) : a \in {o}, b \in {p}}
    BY DEF Transitions
  <2> HIDE DEF between
  <2>2. {between(a, b) : a \in {o}, b \in {p}} = {between(o, p)}
    OBVIOUS
  <2>3. UNION {between(o, p)} = between(o, p)
    OBVIOUS
  <2>4. Transitions({o}, {p}) = between(o, p)
    BY <2>1, <2>2, <2>3
  <2> QED BY <2>4 DEF between
<1>2. \A e \in RestartEvents(o, p) : e.reason \in {"OOMKilled", "Restarted"}
  BY DEF RestartEvents, Event
<1>3. \A e \in FailedEvents(o, p) : e.reason \notin readiness
  <2>1. p.reason \in {""} \cup Failures
    BY DEF Look, PodInv, PodSet
  <2>2. ASSUME NEW e \in FailedEvents(o, p)
        PROVE  e.reason \in {"Failed", p.reason}
    <3>1. FailedEvents(o, p) \in {{}, Event("problem", "Failed"), Event("problem", p.reason)}
      BY DEF FailedEvents
    <3> QED BY <3>1 DEF Event
  <2> QED BY <2>1, <2>2, WatchAssumption
<1>4. \A c \in DOMAIN p.cs : p.cs[c].waiting \notin readiness
  <2>1. \A c \in DOMAIN pod.cs : pod.cs[c].waiting \in Waits \cup {"", "ContainerCreating", "CrashLoopBackOff"}
    <3>1. pod.cs = <<>> \/ pod.cs \in [{"app"} -> Status]
      BY DEF PodInv, PodSet
    <3>2. CASE pod.cs = <<>>
      <4>1. DOMAIN pod.cs = {}
        BY <3>2
      <4> QED BY <4>1
    <3>3. CASE pod.cs \in [{"app"} -> Status]
      <4>1. \A c \in DOMAIN pod.cs : pod.cs[c] \in Status
        BY <3>3
      <4> QED BY <4>1 DEF Status
    <3> QED BY <3>1, <3>2, <3>3
  <2>2. \A c \in DOMAIN p.cs : c \in DOMAIN pod.cs /\ p.cs[c].waiting = pod.cs[c].waiting
    BY DEF Look
  <2> QED BY <2>1, <2>2, WatchAssumption
<1>5. \A e \in WaitingEvents(o, p) : e.reason \notin readiness
  <2>1. ASSUME NEW e \in WaitingEvents(o, p)
        PROVE  \E c \in DOMAIN p.cs : e.reason = p.cs[c].waiting
    <3>1. PICK c \in DOMAIN p.cs : e \in Event("problem", p.cs[c].waiting)
      BY DEF WaitingEvents
    <3> QED BY <3>1 DEF Event
  <2> QED BY <2>1, <1>4
<1>6. {e.reason : e \in ReadinessEvents(o, p)} =
        IF o.ready = p.ready THEN {} ELSE {IF p.ready THEN "Ready" ELSE "NotReady"}
  <2>1. CASE o.ready = p.ready
    BY <2>1 DEF ReadinessEvents
  <2>2. CASE o.ready # p.ready /\ p.ready
    <3>1. ReadinessEvents(o, p) = {[class |-> "recovery", reason |-> "Ready"]}
      BY <2>2 DEF ReadinessEvents, Event
    <3> QED BY <2>2, <3>1
  <2>3. CASE o.ready # p.ready /\ ~p.ready
    <3>1. ReadinessEvents(o, p) = {[class |-> "problem", reason |-> "NotReady"]}
      BY <2>3 DEF ReadinessEvents, Event
    <3> QED BY <2>3, <3>1
  <2> QED BY <2>1, <2>2, <2>3
<1>7. \A e \in ReadinessEvents(o, p) : e.reason \in readiness
  BY DEF ReadinessEvents, Event
<1> QED BY <1>1, <1>2, <1>3, <1>5, <1>6, <1>7

\* Every step keeps LiveInv: a delivery tells the change of readiness, if there is one.
LEMMA NextLive == PodInv /\ LiveInv /\ [WatchNext]_watchVars => LiveInv'
<1> SUFFICES ASSUME PodInv, LiveInv, [WatchNext]_watchVars PROVE LiveInv'
  OBVIOUS
<1>1. CASE UNCHANGED <<known, told>>
  BY <1>1 DEF LiveInv, ReadinessTold
<1>2. CASE DeliverGone
  BY <1>2 DEF DeliverGone, Notify, LiveInv, ReadinessTold
<1>3. CASE Deliver
  <2> DEFINE p == Look(pod)
             flips == {e.reason : e \in Transitions(known, {p})} \cap {"Ready", "NotReady"}
  <2>1. /\ known' = {p}
        /\ IF flips = {} THEN told' = told ELSE told' \in flips
    BY <1>3 DEF Deliver, Notify
  <2>2. p.ready \in BOOLEAN
    BY DEF Look, PodInv, PodSet
  <2>3. CASE known = {}
    <3>1. flips = {}
      BY <2>3 DEF Transitions
    <3>2. told' = ""
      BY <2>1, <2>3, <3>1 DEF LiveInv
    <3> QED BY <2>1, <2>2, <3>2 DEF LiveInv, ReadinessTold
  <2>4. CASE known # {}
    <3>1. PICK o \in known : TRUE
      BY <2>4
    <3>2. known = {o} /\ o.ready \in BOOLEAN
      BY <3>1 DEF LiveInv
    <3>3. flips = IF o.ready = p.ready THEN {} ELSE {IF p.ready THEN "Ready" ELSE "NotReady"}
      BY <3>2, EventFacts
    <3>4. told # "" => (told = "Ready") = o.ready
      BY <3>2 DEF LiveInv, ReadinessTold
    <3> HIDE DEF flips, p
    <3>5. told' \in {"", "Ready", "NotReady"} /\ (told' # "" => (told' = "Ready") = p.ready)
      <4>1. CASE o.ready = p.ready
        BY <4>1, <2>1, <3>3, <3>4 DEF LiveInv
      <4>2. CASE o.ready # p.ready
        <5>1. told' = IF p.ready THEN "Ready" ELSE "NotReady"
          BY <4>2, <2>1, <3>3
        <5> QED BY <5>1, <2>2
      <4> QED BY <4>1, <4>2
    <3> QED BY <2>1, <2>2, <3>5 DEF LiveInv, ReadinessTold
  <2> QED BY <2>3, <2>4
<1> QED
  <2>1. Kubelet \/ ClockTick \/ Sweep \/ UNCHANGED watchVars => UNCHANGED <<known, told>>
    BY DEF Kubelet, Place, Pull, Run, Probe, Die, BackOff, Restart, Collected, Fail, Replace,
           ClockTick, Becomes, Sweep, watchVars
  <2> QED BY <1>1, <1>2, <1>3, <2>1 DEF WatchNext

\* LiveInv holds in every state.
LEMMA LiveHolds == WatchSpec => []LiveInv
<1>1. WatchInit => LiveInv
  BY DEF WatchInit, LiveInv, ReadinessTold
<1> QED BY <1>1, NextLive, PodHolds, PTL DEF WatchSpec

\* The live view's last word on a pod's readiness is right as of the informer's copy,
\* for any history of the pod and any states the watch missed (live.Transitions, WatchPods).
THEOREM ReadinessIsRight == WatchSpec => []ReadinessTold
<1>1. LiveInv => ReadinessTold
  BY DEF LiveInv
<1> QED BY <1>1, LiveHolds, PTL

-----------------------------------------------------------------------------
\* Failures are never forecasts.

\* The problems of a container are of it.
LEMMA ProblemFacts ==
  ASSUME NEW c, NEW kinds, NEW x \in Problem(c, kinds)
  PROVE  x.container = c /\ x.kind \in kinds
BY DEF Problem

\* Failures of a container are not forecasts.
LEMMA ContainerKindsFacts ==
  ASSUME NEW cs, NEW o
  PROVE  ContainerKinds(cs, o) \cap Predictive = {}
<1>1. \A k \in Died(cs) : k \in {"OOMKilled", "ContainerError"}
  BY DEF Died, DeathKind
<1>2. \A k \in WaitingKind(cs.waiting) :
        k \in {"CrashLoopBackOff", "ImagePullBackOff", "CreateContainerError"}
  BY DEF WaitingKind
<1> QED BY <1>1, <1>2 DEF ContainerKinds, Predictive

\* Nor is any failure of the pod, which is about the pod or one of its containers.
LEMMA AcuteFacts ==
  ASSUME NEW p, NEW o, NEW x \in Acute(p, o)
  PROVE  x.kind \notin Predictive /\ x.container \in {""} \cup DOMAIN p.cs
<1> DEFINE kinds == (IF Evicted(p) THEN {"Evicted"} ELSE {}) \cup Unplaced(p)
                       \cup (IF VolumeMountStuck(p, o) THEN {"VolumeMountFailed"} ELSE {})
<1>1. \/ x \in Problem("", kinds)
      \/ \E c \in DOMAIN p.cs : x \in Problem(c, ContainerKinds(p.cs[c], o))
  BY DEF Acute
<1>2. \A k \in kinds : k \in {"Evicted", "Unschedulable", "PVCPending", "VolumeMountFailed"}
  BY DEF Unplaced
<1> HIDE DEF kinds
<1>3. CASE x \in Problem("", kinds)
  <2>1. x.container = "" /\ x.kind \in kinds
    BY <1>3, ProblemFacts
  <2>2. x.kind \notin Predictive
    BY <1>2, <2>1 DEF Predictive
  <2>3. x.container \in {""}
    BY <2>1
  <2> QED BY <2>2, <2>3
<1>4. ASSUME NEW c \in DOMAIN p.cs, x \in Problem(c, ContainerKinds(p.cs[c], o))
      PROVE  x.kind \notin Predictive /\ x.container \in {""} \cup DOMAIN p.cs
  <2>1. x.container = c /\ x.kind \in ContainerKinds(p.cs[c], o)
    BY <1>4, ProblemFacts
  <2>2. x.kind \notin Predictive
    BY <2>1, ContainerKindsFacts
  <2> QED BY <2>1, <2>2
<1> QED BY <1>1, <1>3, <1>4

\* The same of all the problems of a pod.
LEMMA PodProblemsFacts ==
  ASSUME NEW p, NEW o, NEW x \in PodProblems(p, o)
  PROVE  x.kind \notin Predictive /\ x.container \in {""} \cup DOMAIN p.cs
<1>1. CASE x \in Acute(p, o)
  BY <1>1, AcuteFacts
<1>2. CASE x \in Problem("", {"NotReady"})
  BY <1>2, ProblemFacts DEF Predictive
<1> QED BY <1>1, <1>2 DEF PodProblems

\* A streak of n is backed by the last n samples.
Sustained ==
  /\ streak \in [Predictive -> 0 .. Options.minConsecutive]
  /\ samples \in Seq(SUBSET Predictive) /\ Len(samples) = Options.minConsecutive
  /\ \A k \in Predictive, i \in 1 .. Options.minConsecutive :
       i + streak[k] > Options.minConsecutive => k \in samples[i]
  /\ \A x \in seen : x.container \in {"", "app"}
  /\ ForecastsSustained

\* The window of samples moves by one.
LEMMA Shifted ==
  ASSUME NEW X, NEW s \in Seq(X), Len(s) > 0, NEW e \in X
  PROVE  /\ Tail(s) \o <<e>> \in Seq(X) /\ Len(Tail(s) \o <<e>>) = Len(s)
         /\ \A i \in 1 .. Len(s) :
              (Tail(s) \o <<e>>)[i] = IF i < Len(s) THEN s[i + 1] ELSE e
<1>1. Tail(s) \in Seq(X) /\ Len(Tail(s)) = Len(s) - 1 /\ \A i \in 1 .. Len(s) - 1 : Tail(s)[i] = s[i + 1]
  BY HeadTailProperties, EmptySeq
<1>2. <<e>> \in Seq(X) /\ Len(<<e>>) = 1 /\ <<e>>[1] = e
  OBVIOUS
<1>3. Len(s) \in Nat
  OBVIOUS
<1> QED BY <1>1, <1>2, <1>3, ConcatProperties

\* A sweep lengthens or ends a streak with its sample, and forecasts by the streaks only.
LEMMA SweepSustained == PodInv /\ Sustained /\ Sweep => Sustained'
<1> SUFFICES ASSUME PodInv, Sustained, Sweep PROVE Sustained'
  OBVIOUS
<1> DEFINE n == Options.minConsecutive
           real == PodProblems(pod, Options)
<1>1. PICK high \in IF Up THEN SUBSET Limited ELSE {{}} :
        /\ streak' = [k \in Predictive |-> Streak(streak[k], k \in high, Options)]
        /\ seen' = real \cup Predicted("app", streak', real, Options)
        /\ samples' = Tail(samples) \o <<high>>
  BY DEF Sweep
<1>2. n \in Nat \ {0} /\ high \in SUBSET Predictive
  BY WatchAssumption
<1>3. /\ samples' \in Seq(SUBSET Predictive) /\ Len(samples') = n
      /\ \A i \in 1 .. n : samples'[i] = IF i < n THEN samples[i + 1] ELSE high
  <2>1. samples \in Seq(SUBSET Predictive) /\ Len(samples) = n
    BY DEF Sustained
  <2> QED BY <1>1, <1>2, <2>1, Shifted
<1>4. ASSUME NEW k \in Predictive
      PROVE  /\ streak'[k] \in 0 .. n
             /\ streak'[k] = IF k \notin high THEN 0 ELSE IF streak[k] < n THEN streak[k] + 1 ELSE streak[k]
  <2>1. streak[k] \in 0 .. n
    BY DEF Sustained
  <2>2. streak'[k] = IF k \notin high THEN 0 ELSE IF streak[k] < n THEN streak[k] + 1 ELSE streak[k]
    BY <1>1 DEF Streak
  <2> QED BY <1>2, <2>1, <2>2
<1>5. streak' \in [Predictive -> 0 .. n]
  BY <1>1, <1>4
<1>6. ASSUME NEW k \in Predictive, NEW i \in 1 .. n, i + streak'[k] > n
      PROVE  k \in samples'[i]
  <2>4. streak[k] \in 0 .. n
    BY DEF Sustained
  <2>5. k \notin high => streak'[k] = 0
    BY <1>4
  <2>1. k \in high /\ streak[k] \in 0 .. n
    BY <1>2, <1>6, <2>4, <2>5
  <2>2. CASE i < n
    <3>1. i + 1 \in 1 .. n /\ (i + 1) + streak[k] > n
      BY <1>2, <1>4, <1>6, <2>1, <2>2
    <3>2. k \in samples[i + 1]
      BY <3>1 DEF Sustained
    <3> QED BY <1>3, <2>2, <3>2
  <2>3. CASE ~(i < n)
    BY <1>3, <2>1, <2>3
  <2> QED BY <2>2, <2>3
<1>7. \A x \in real : x.kind \notin Predictive /\ x.container \in {"", "app"}
  <2>1. DOMAIN pod.cs \subseteq {"app"}
    <3>1. pod.cs = <<>> \/ pod.cs \in [{"app"} -> Status]
      BY DEF PodInv, PodSet
    <3>2. DOMAIN <<>> = {}
      OBVIOUS
    <3> QED BY <3>1, <3>2
  <2> QED BY <2>1, PodProblemsFacts
<1>8. \A x \in Predicted("app", streak', real, Options) :
        /\ x.container = "app" /\ x.kind \in Predictive /\ streak'[x.kind] >= n
        /\ \A y \in real : y.container # "app"
  BY DEF Predicted, Problem
<1> HIDE DEF n, real
<1>9. ASSUME NEW x \in seen', x.kind \in Predictive
      PROVE  /\ \A i \in DOMAIN samples' : x.kind \in samples'[i]
             /\ \A y \in seen' : y.container = x.container => y.kind \in Predictive
  <2>1. x \in Predicted("app", streak', real, Options)
    BY <1>1, <1>7, <1>9
  <2>2. streak'[x.kind] >= n /\ x.container = "app" /\ \A y \in real : y.container # "app"
    BY <1>8, <2>1
  <2>3. \A y \in seen' : y.container = x.container => y.kind \in Predictive
    BY <1>1, <1>8, <2>2
  <2>4. ASSUME NEW i \in DOMAIN samples' PROVE x.kind \in samples'[i]
    <3>1. i \in 1 .. n /\ streak'[x.kind] \in 0 .. n
      BY <1>3, <1>4, <1>9
    <3>2. i + streak'[x.kind] > n
      BY <1>2, <2>2, <3>1
    <3> QED BY <1>6, <1>9, <3>1, <3>2
  <2> QED BY <2>3, <2>4
<1>10. \A x \in seen' : x.container \in {"", "app"}
  BY <1>1, <1>7, <1>8
<1>11. ForecastsSustained'
  BY <1>9 DEF ForecastsSustained
<1> QED BY <1>3, <1>5, <1>6, <1>10, <1>11 DEF Sustained, n

\* No other step touches streaks or samples, or finds anything.
LEMMA NextSustained == PodInv /\ Sustained /\ [WatchNext]_watchVars => Sustained'
<1> SUFFICES ASSUME PodInv, Sustained, [WatchNext]_watchVars PROVE Sustained'
  OBVIOUS
<1>1. CASE UNCHANGED <<streak, samples>> /\ seen' \in {{}, seen}
  BY <1>1 DEF Sustained, ForecastsSustained
<1>2. Kubelet \/ ClockTick \/ Deliver \/ DeliverGone \/ UNCHANGED watchVars
        => UNCHANGED <<streak, samples>> /\ seen' \in {{}, seen}
  BY DEF Kubelet, Place, Pull, Run, Probe, Die, BackOff, Restart, Collected, Fail, Replace,
         ClockTick, Becomes, Deliver, DeliverGone, Notify, watchVars
<1> QED BY <1>1, <1>2, SweepSustained DEF WatchNext

\* There are no streaks at first.
LEMMA InitSustained == WatchInit => Sustained
<1> SUFFICES ASSUME WatchInit PROVE Sustained
  OBVIOUS
<1> DEFINE n == Options.minConsecutive
<1>1. n \in Nat \ {0}
  BY WatchAssumption
<1>2. samples = [i \in 1 .. n |-> {}] /\ streak = [k \in Predictive |-> 0] /\ seen = {}
  BY DEF WatchInit
<1> HIDE DEF n
<1>3. samples \in Seq(SUBSET Predictive) /\ Len(samples) = n
  BY <1>1, <1>2
<1>4. \A k \in Predictive, i \in 1 .. n : ~(i + streak[k] > n)
  BY <1>1, <1>2
<1> QED BY <1>1, <1>2, <1>3, <1>4 DEF Sustained, ForecastsSustained, n

\* Sustained holds in every state.
LEMMA SustainedHolds == WatchSpec => []Sustained
BY InitSustained, NextSustained, PodHolds, PTL DEF WatchSpec

\* A forecast rests on as many high samples in a row as the configuration asks for, and never
\* stands beside a failure of its container (Predictor.Observe, predictProblems).
THEOREM ForecastsHaveStreaks == WatchSpec => []ForecastsSustained
<1>1. Sustained => ForecastsSustained
  BY DEF Sustained
<1> QED BY <1>1, SustainedHolds, PTL

-----------------------------------------------------------------------------
\* Nothing broken is missed.

\* What is wrong with its container is a problem of the pod.
LEMMA KindsShow ==
  ASSUME PodInv, HasApp, NEW k \in ContainerKinds(App, Options)
  PROVE  PodProblems(pod, Options) # {}
<1>1. [container |-> "app", kind |-> k] \in Problem("app", ContainerKinds(App, Options))
  BY DEF Problem
<1>2. "app" \in DOMAIN pod.cs
  BY AppFacts
<1>3. [container |-> "app", kind |-> k]
        \in UNION {Problem(c, ContainerKinds(pod.cs[c], Options)) : c \in DOMAIN pod.cs}
  BY <1>1, <1>2 DEF App
<1>4. [container |-> "app", kind |-> k] \in Acute(pod, Options)
  BY <1>3 DEF Acute
<1> QED BY <1>4 DEF PodProblems

\* So is what is wrong with the pod itself.
LEMMA PodKindsShow ==
  ASSUME \/ Evicted(pod) \/ Unplaced(pod) # {} \/ VolumeMountStuck(pod, Options)
         \/ NotReady(pod, Options)
  PROVE  PodProblems(pod, Options) # {}
<1> DEFINE kinds == (IF Evicted(pod) THEN {"Evicted"} ELSE {}) \cup Unplaced(pod)
                       \cup (IF VolumeMountStuck(pod, Options) THEN {"VolumeMountFailed"} ELSE {})
<1>1. CASE NotReady(pod, Options)
  <2>1. Problem("", {"NotReady"}) # {}
    BY DEF Problem
  <2> QED BY <1>1, <2>1 DEF PodProblems
<1>2. CASE ~NotReady(pod, Options)
  <2>1. kinds # {}
    BY <1>2
  <2>2. Problem("", kinds) \subseteq Acute(pod, Options)
    BY DEF Acute
  <2> HIDE DEF kinds
  <2>3. PICK k \in kinds : TRUE
    BY <2>1
  <2>4. [container |-> "", kind |-> k] \in Acute(pod, Options)
    BY <2>2, <2>3 DEF Problem
  <2> QED BY <2>4 DEF PodProblems
<1> QED BY <1>1, <1>2

\* An abnormal death that the container has not recovered from is a failure of it.
LEMMA DiedShow ==
  ASSUME NEW cs, cs.dead = {}, ~cs.ready, Abnormal(cs.last)
  PROVE  Died(cs) # {}
<1>1. PICK d \in cs.last : d.reason # "Completed"
  BY DEF Abnormal
<1>2. d \in {x \in Terminated(cs) : x.reason # "Completed" /\ ~(Historical(cs) /\ cs.ready)}
  BY <1>1 DEF Terminated
<1>3. DeathKind(d) \in Died(cs)
  BY <1>2 DEF Died
<1> QED BY <1>3

\* What is broken in one of the ways that Broken lists is found.
LEMMA BrokenShows == PodInv => BrokenIsFound
<1> SUFFICES ASSUME PodInv, Broken PROVE PodProblems(pod, Options) # {}
  BY DEF BrokenIsFound
<1>1. CASE pod.phase = "Pending" /\ pod.placed \in {"no room", "no volume"}
  BY <1>1, PodKindsShow DEF Unplaced
<1>2. CASE pod.phase = "Failed" /\ pod.reason = "Evicted"
  BY <1>2, PodKindsShow DEF Evicted
<1>3. CASE pod.phase = "Running" /\ ~pod.ready /\ pod.unready > Options.notReadyGrace
  BY <1>3, PodKindsShow DEF NotReady
<1>4. CASE HasApp /\ App.dead = {} /\ ~App.ready /\ Abnormal(App.last)
  <2>1. PICK k \in Died(App) : TRUE
    BY <1>4, DiedShow
  <2>2. k \in ContainerKinds(App, Options)
    BY <2>1 DEF ContainerKinds
  <2> QED BY <1>4, <2>2, KindsShow
<1>5. CASE /\ HasApp /\ Options.minRestarts > 0 /\ App.restarts >= Options.minRestarts
           /\ \E d \in App.last : d.ago <= Options.restartWindow
  <2>1. Storm(App, Options)
    BY <1>5 DEF Storm, RestartedRecently
  <2>2. PICK k \in ContainerKinds(App, Options) : TRUE
    BY <2>1 DEF ContainerKinds
  <2> QED BY <1>5, <2>2, KindsShow
<1>6. CASE /\ pod.phase = "Pending" /\ pod.mounts /\ HasApp
           /\ App.waiting \notin {"", "PodInitializing"}
           /\ Options.volumeMountGrace > 0 /\ pod.since > Options.volumeMountGrace
  <2>1. App \in Status /\ pod.placed = "node" /\ DOMAIN pod.cs = {"app"}
    BY <1>6, AppFacts
  <2>2. App.waiting \in {"ContainerCreating", "ImagePullBackOff", "CreateContainerConfigError",
                         "CrashLoopBackOff"}
    BY <1>6, <2>1, WatchAssumption DEF Status
  <2>3. CASE App.waiting = "ContainerCreating"
    BY <1>6, <2>1, <2>3, PodKindsShow DEF VolumeMountStuck, App
  <2>4. CASE App.waiting # "ContainerCreating"
    <3>1. PICK k \in WaitingKind(App.waiting) : TRUE
      BY <2>2, <2>4 DEF WaitingKind
    <3>2. k \in ContainerKinds(App, Options)
      BY <3>1 DEF ContainerKinds
    <3> QED BY <1>6, <3>2, KindsShow
  <2> QED BY <2>3, <2>4
<1> QED BY <1>1, <1>2, <1>3, <1>4, <1>5, <1>6 DEF Broken

\* A sweep that looks at a pod which is broken in one of the ways that Broken lists finds
\* a problem, for every grace period, restart threshold and window (detect.pod).
THEOREM BrokenPodsAreFound == WatchSpec => []BrokenIsFound
BY BrokenShows, PodHolds, PTL

=============================================================================
