---------------------------- MODULE ValidatorProofs ----------------------------
(***************************************************************************)
(* What the validator's answers are worth on a cluster, for any nodes,     *)
(* workloads, policies, proposals, edits and faults: ScaleUp and Remedies. *)
(*                                                                         *)
(* 1. Capacity: a sum is a number of units, which can be dealt out one by  *)
(*    one; so what FitAdditional counts can be placed.                     *)
(* 2. ScaleUp: the evidence of a sweep is a snapshot with numbers in it,   *)
(*    and the final number of replicas is at most what fits, and no more   *)
(*    with a proposal than without.                                        *)
(* 3. Remedies: heals and rollbacks only set fields the template already   *)
(*    has, so the evidence of every heal has a value for each of them, and *)
(*    the record of the heal holds those values.  All of them are numbers, *)
(*    and a pod with a raised request reserves no more than projected.     *)
(***************************************************************************)
EXTENDS Remedies, ScaleUp, FiniteSetTheorems, TLAPS

-----------------------------------------------------------------------------
\* Capacity.

\* The sum of a function with natural numbers for values.
Natural(f) == IsFiniteSet(DOMAIN f) /\ \A x \in DOMAIN f : f[x] \in Nat

\* The units of a value are as many as the value.
LEMMA UnitsOf ==
  ASSUME NEW x, NEW n \in Nat
  PROVE  IsFiniteSet({x} \X (1 .. n)) /\ Cardinality({x} \X (1 .. n)) = n
<1>1. IsFiniteSet({x}) /\ Cardinality({x}) = 1
  BY FS_Singleton
<1>2. IsFiniteSet(1 .. n) /\ Cardinality(1 .. n) = n
  BY FS_Interval
<1>3. /\ IsFiniteSet({x} \X (1 .. n))
      /\ Cardinality({x} \X (1 .. n)) = Cardinality({x}) * Cardinality(1 .. n)
  BY <1>1, <1>2, FS_Product
<1>4. 1 * n = n
  OBVIOUS
<1> QED BY <1>1, <1>2, <1>3, <1>4

\* A sum is a natural number.
LEMMA TotalNat ==
  ASSUME NEW f, Natural(f)
  PROVE  IsFiniteSet(Units(f)) /\ Total(f) \in Nat
<1> DEFINE part == [x \in DOMAIN f |-> {x} \X (1 .. f[x])]
           parts == {part[x] : x \in DOMAIN f}
<1>1. part \in Surjection(DOMAIN f, parts)
  BY DEF Surjection
<1>2. IsFiniteSet(parts)
  <2> HIDE DEF part
  <2> QED BY <1>1, FS_Surjection DEF Natural
<1>3. \A x \in DOMAIN f : IsFiniteSet(part[x])
  BY UnitsOf DEF Natural
<1>4. IsFiniteSet(UNION parts)
  <2> HIDE DEF part
  <2> QED BY <1>2, <1>3, FS_UNION
<1>5. UNION parts = Units(f)
  BY DEF Units
<1>6. IsFiniteSet(Units(f))
  BY <1>4, <1>5
<1>7. Total(f) \in Nat
  BY <1>6, FS_CardinalityType DEF Total
<1> QED BY <1>6, <1>7

\* What a unit is: one of an argument's, with its number.
LEMMA UnitFacts ==
  ASSUME NEW f, NEW u \in Units(f)
  PROVE  u[1] \in DOMAIN f /\ u[2] \in 1 .. f[u[1]] /\ u = <<u[1], u[2]>>
<1>1. PICK x \in DOMAIN f : u \in {x} \X (1 .. f[x])
  BY DEF Units
<1> QED BY <1>1

\* Units can be taken one by one, no more of an argument than its value.
LEMMA Dealt ==
  ASSUME NEW f, Natural(f), NEW count \in Nat, count <= Total(f)
  PROVE  \E home \in [1 .. count -> DOMAIN f] : \A x \in DOMAIN f :
           /\ IsFiniteSet({i \in 1 .. count : home[i] = x})
           /\ Cardinality({i \in 1 .. count : home[i] = x}) <= f[x]
<1>1. IsFiniteSet(Units(f)) /\ Total(f) \in Nat
  BY TotalNat
<1>2. PICK b : b \in Bijection(1 .. Total(f), Units(f))
  BY <1>1, FS_CardinalityType DEF Total, ExistsBijection
<1>3. /\ \A i \in 1 .. Total(f) : b[i] \in Units(f)
      /\ \A i, j \in 1 .. Total(f) : b[i] = b[j] => i = j
  BY <1>2 DEF Bijection, Injection, IsInjective
<1>4. \A i \in 1 .. count : i \in 1 .. Total(f)
  BY <1>1
<1> DEFINE home == [i \in 1 .. count |-> b[i][1]]
<1>5. home \in [1 .. count -> DOMAIN f]
  BY <1>3, <1>4, UnitFacts
<1>6. ASSUME NEW x \in DOMAIN f
      PROVE  /\ IsFiniteSet({i \in 1 .. count : home[i] = x})
             /\ Cardinality({i \in 1 .. count : home[i] = x}) <= f[x]
  <2> DEFINE here == {i \in 1 .. count : home[i] = x}
             place == [i \in here |-> b[i][2]]
  <2>1. ASSUME NEW i \in here
        PROVE  i \in 1 .. Total(f) /\ b[i] = <<x, place[i]>> /\ place[i] \in 1 .. f[x]
    <3>1. i \in 1 .. count /\ b[i][1] = x
      OBVIOUS
    <3>2. i \in 1 .. Total(f) /\ b[i] \in Units(f)
      BY <3>1, <1>3, <1>4
    <3> QED BY <3>1, <3>2, UnitFacts
  <2>2. place \in [here -> 1 .. f[x]]
    BY <2>1
  <2>3. ASSUME NEW i \in here, NEW j \in here, place[i] = place[j] PROVE i = j
    <3>1. b[i] = b[j]
      <4> HIDE DEF place, here
      <4> QED BY <2>1, <2>3
    <3> QED BY <2>1, <3>1, <1>3
  <2>4. place \in Injection(here, 1 .. f[x])
    <3> DOMAIN place = here
      OBVIOUS
    <3> HIDE DEF place, here
    <3> QED BY <2>2, <2>3 DEF Injection, IsInjective
  <2>5. f[x] \in Nat
    BY DEF Natural
  <2>6. IsFiniteSet(1 .. f[x]) /\ Cardinality(1 .. f[x]) = f[x]
    BY <2>5, FS_Interval
  <2> HIDE DEF place, here
  <2>7. IsFiniteSet(here) /\ Cardinality(here) <= f[x]
    BY <2>4, <2>6, FS_Injection
  <2> QED BY <2>7 DEF here
<1> HIDE DEF home
<1> QED BY <1>5, <1>6

\* Something positive is in a positive sum.
LEMMA SomePositive ==
  ASSUME NEW f, Natural(f), Total(f) > 0
  PROVE  \E x \in DOMAIN f : f[x] >= 1
<1>1. Units(f) # {}
  BY FS_EmptySet DEF Total
<1>2. PICK u \in Units(f) : TRUE
  BY <1>1
<1>3. u[1] \in DOMAIN f /\ u[2] \in 1 .. f[u[1]] /\ f[u[1]] \in Nat
  BY <1>2, UnitFacts DEF Natural
<1> QED BY <1>3

-----------------------------------------------------------------------------
\* The nodes of a cluster.
NodeSet == [alloc : [Dimension -> Nat], used : [Dimension -> Nat], schedulable : BOOLEAN]

\* Snapshots and requests as the API server reports them.
Snapshot(s) ==
  /\ s.reserve \in Nat /\ IsFiniteSet(DOMAIN s.nodes)
  /\ \A n \in DOMAIN s.nodes : s.nodes[n] \in NodeSet

Demand(req) == \A r \in Resource : req[r] \in Nat

\* A percentage of an amount is an amount.
LEMMA Share ==
  ASSUME NEW a \in Nat, NEW p \in Nat
  PROVE  (a * p) \div 100 \in Nat
<1>1. a * p \in Nat
  OBVIOUS
<1> HIDE DEF Nat
<1> QED BY <1>1

\* What is free of a node beside its reserve, or nothing (capacity.go Headroom).
LEMMA HeadroomFacts ==
  ASSUME NEW s, Snapshot(s), NEW n \in DOMAIN s.nodes, NEW d \in Dimension
  PROVE  /\ Headroom(s, n, d) \in Nat
         /\ s.nodes[n].used[d] \in Nat /\ s.nodes[n].alloc[d] \in Nat
         /\ (s.nodes[n].alloc[d] * Reserve(s)) \div 100 \in Nat
         /\ Headroom(s, n, d) > 0 =>
              s.nodes[n].used[d] + Headroom(s, n, d) + (s.nodes[n].alloc[d] * Reserve(s)) \div 100
                = s.nodes[n].alloc[d]
<1>1. s.nodes[n].used[d] \in Nat /\ s.nodes[n].alloc[d] \in Nat /\ Reserve(s) \in Nat
  BY DEF Snapshot, NodeSet, Reserve
<1> DEFINE kept == (s.nodes[n].alloc[d] * Reserve(s)) \div 100
<1>2. kept \in Nat
  BY <1>1, Share
<1>3. Headroom(s, n, d) = NonNegative(s.nodes[n].alloc[d] - s.nodes[n].used[d] - kept)
  BY DEF Headroom
<1> HIDE DEF kept
<1>4. /\ Headroom(s, n, d) \in Nat
      /\ Headroom(s, n, d) > 0 => s.nodes[n].used[d] + Headroom(s, n, d) + kept = s.nodes[n].alloc[d]
  BY <1>1, <1>2, <1>3 DEF NonNegative
<1> QED BY <1>1, <1>2, <1>4 DEF kept

\* So many times the divisor, if no more than the quotient, is no more than the dividend.
LEMMA Quotient ==
  ASSUME NEW h \in Nat, NEW q \in Nat \ {0}
  PROVE  h \div q \in Nat /\ \A c \in Nat : c <= h \div q => c * q <= h
<1>1. h \div q \in Nat /\ (h \div q) * q <= h
  OBVIOUS
<1>2. ASSUME NEW c \in Nat, c <= h \div q PROVE c * q <= h
  <2> DEFINE k == h \div q
  <2>1. k \in Nat /\ k * q <= h /\ c <= k
    BY <1>1, <1>2
  <2> HIDE DEF k
  <2>2. c * q <= k * q
    BY <2>1
  <2>3. c * q \in Nat /\ k * q \in Nat
    BY <2>1
  <2> QED BY <2>1, <2>2, <2>3
<1> QED BY <1>1, <1>2

\* A node takes as many pods as FitOn says and keeps its reserve (capacity.go fitOn).
LEMMA FitOnFacts ==
  ASSUME NEW s, Snapshot(s), NEW n \in DOMAIN s.nodes, NEW req, Demand(req)
  PROVE  /\ FitOn(s, n, req) \in Nat
         /\ \A count \in Nat : count >= 1 /\ count <= FitOn(s, n, req) =>
              /\ s.nodes[n].used["pods"] + count + (s.nodes[n].alloc["pods"] * Reserve(s)) \div 100
                   <= s.nodes[n].alloc["pods"]
              /\ \A r \in Resource : req[r] > 0 =>
                   s.nodes[n].used[r] + count * req[r] + (s.nodes[n].alloc[r] * Reserve(s)) \div 100
                     <= s.nodes[n].alloc[r]
<1> DEFINE pods == Headroom(s, n, "pods")
           bound(r) == IF req[r] > 0 THEN Headroom(s, n, r) \div req[r] ELSE pods
<1>1. FitOn(s, n, req) = Least(pods, Least(bound("cpu"), bound("memory")))
  BY DEF FitOn
<1>2. pods \in Nat
  BY HeadroomFacts DEF Dimension
<1>3. ASSUME NEW r \in Resource
      PROVE  bound(r) \in Nat /\ (req[r] > 0 => \A c \in Nat : c <= bound(r) => c * req[r] <= Headroom(s, n, r))
  <2>1. Headroom(s, n, r) \in Nat /\ req[r] \in Nat
    BY HeadroomFacts DEF Dimension, Demand
  <2>2. CASE req[r] > 0
    <3>1. req[r] \in Nat \ {0}
      BY <2>1, <2>2
    <3> QED BY <2>1, <2>2, <3>1, Quotient
  <2>3. CASE ~(req[r] > 0)
    BY <1>2, <2>3
  <2> QED BY <2>2, <2>3
<1> HIDE DEF pods, bound
<1>4. /\ bound("cpu") \in Nat /\ bound("memory") \in Nat
  BY <1>3 DEF Resource
<1>5. /\ FitOn(s, n, req) \in Nat /\ FitOn(s, n, req) <= pods
      /\ FitOn(s, n, req) <= bound("cpu") /\ FitOn(s, n, req) <= bound("memory")
  BY <1>1, <1>2, <1>4 DEF Least
<1>6. ASSUME NEW count \in Nat, count >= 1, count <= FitOn(s, n, req)
      PROVE  /\ s.nodes[n].used["pods"] + count + (s.nodes[n].alloc["pods"] * Reserve(s)) \div 100
                  <= s.nodes[n].alloc["pods"]
             /\ \A r \in Resource : req[r] > 0 =>
                  s.nodes[n].used[r] + count * req[r] + (s.nodes[n].alloc[r] * Reserve(s)) \div 100
                    <= s.nodes[n].alloc[r]
  <2>1. ASSUME NEW d \in Dimension, NEW m \in Nat, m >= 1, m <= Headroom(s, n, d)
        PROVE  s.nodes[n].used[d] + m + (s.nodes[n].alloc[d] * Reserve(s)) \div 100
                 <= s.nodes[n].alloc[d]
    <3> DEFINE kept == (s.nodes[n].alloc[d] * Reserve(s)) \div 100
    <3>1. /\ Headroom(s, n, d) \in Nat /\ s.nodes[n].used[d] \in Nat
          /\ s.nodes[n].alloc[d] \in Nat /\ kept \in Nat
          /\ Headroom(s, n, d) > 0 => s.nodes[n].used[d] + Headroom(s, n, d) + kept = s.nodes[n].alloc[d]
      BY HeadroomFacts
    <3> HIDE DEF kept
    <3>2. s.nodes[n].used[d] + m + kept <= s.nodes[n].alloc[d]
      BY <2>1, <3>1
    <3> QED BY <3>2 DEF kept
  <2>2. count <= Headroom(s, n, "pods") /\ "pods" \in Dimension
    BY <1>2, <1>5, <1>6 DEF pods, Dimension
  <2>3. ASSUME NEW r \in Resource, req[r] > 0
        PROVE  s.nodes[n].used[r] + count * req[r] + (s.nodes[n].alloc[r] * Reserve(s)) \div 100
                 <= s.nodes[n].alloc[r]
    <3>1. count <= bound(r)
      BY <1>4, <1>5, <1>6 DEF Resource
    <3>2. count * req[r] <= Headroom(s, n, r)
      BY <1>3, <2>3, <3>1
    <3>3. count * req[r] \in Nat /\ count * req[r] >= 1
      BY <1>6, <2>3 DEF Demand
    <3>4. r \in Dimension
      BY DEF Dimension
    <3> QED BY <2>1, <3>2, <3>3, <3>4
  <2> QED BY <1>6, <2>1, <2>2, <2>3
<1> QED BY <1>5, <1>6

\* FitAdditional counts what FitOn allows on each schedulable node.
LEMMA FitAdditionalFacts ==
  ASSUME NEW s, Snapshot(s), NEW req, Demand(req)
  PROVE  LET f == [n \in Schedulable(s) |-> FitOn(s, n, req)]
         IN Natural(f) /\ FitAdditional(s, req) = Total(f) /\ FitAdditional(s, req) \in Nat
<1> DEFINE f == [n \in Schedulable(s) |-> FitOn(s, n, req)]
<1>1. Schedulable(s) \subseteq DOMAIN s.nodes
  BY DEF Schedulable
<1>2. IsFiniteSet(Schedulable(s))
  BY <1>1, FS_Subset DEF Snapshot
<1>3. Natural(f)
  BY <1>1, <1>2, FitOnFacts DEF Natural
<1> HIDE DEF f
<1>4. Total(f) \in Nat
  BY <1>3, TotalNat
<1>5. FitAdditional(s, req) = Total(f)
  BY DEF FitAdditional, f
<1> QED BY <1>3, <1>4, <1>5 DEF f

-----------------------------------------------------------------------------
\* These pods can be dealt out to nodes with room, each of which keeps its reserve.
LEMMA FitsArePlaceable ==
  ASSUME NEW s, Snapshot(s), DOMAIN s.nodes = NodeName, NEW req, Demand(req),
         NEW count \in Nat, count <= FitAdditional(s, req)
  PROVE  Placeable(s, req, count)
<1> DEFINE f == [n \in Schedulable(s) |-> FitOn(s, n, req)]
<1>1. Natural(f) /\ FitAdditional(s, req) = Total(f)
  BY FitAdditionalFacts
<1>2. DOMAIN f = Schedulable(s) /\ Schedulable(s) \subseteq NodeName
  BY DEF Schedulable
<1>3. \A n \in Schedulable(s) : f[n] = FitOn(s, n, req)
  OBVIOUS
<1> HIDE DEF f
<1>4. PICK home \in [1 .. count -> Schedulable(s)] : \A n \in Schedulable(s) :
        /\ IsFiniteSet({i \in 1 .. count : home[i] = n})
        /\ Cardinality({i \in 1 .. count : home[i] = n}) <= FitOn(s, n, req)
  BY <1>1, <1>2, <1>3, Dealt
<1>5. home \in [1 .. count -> NodeName]
  BY <1>2, <1>4
<1>6. ASSUME NEW n \in NodeName, {i \in 1 .. count : home[i] = n} # {}
      PROVE  NodeHasRoom(s.nodes[n], req, Cardinality({i \in 1 .. count : home[i] = n}), Least(s.reserve, 90))
  <2> DEFINE here == {i \in 1 .. count : home[i] = n}
             c == Cardinality(here)
  <2>1. n \in Schedulable(s)
    BY <1>4, <1>6
  <2>2. IsFiniteSet(here) /\ c <= FitOn(s, n, req)
    BY <1>4, <2>1
  <2>3. here # {}
    BY <1>6
  <2>4. c \in Nat /\ c >= 1
    <3> HIDE DEF here
    <3>1. c \in Nat /\ c # 0
      BY <2>2, <2>3, FS_CardinalityType, FS_EmptySet
    <3> HIDE DEF c
    <3> QED BY <3>1
  <2>5. Reserve(s) = Least(s.reserve, 90)
    BY DEF Snapshot, Reserve, Least
  <2> HIDE DEF c
  <2>6. /\ s.nodes[n].schedulable
        /\ s.nodes[n].used["pods"] + c + (s.nodes[n].alloc["pods"] * Least(s.reserve, 90)) \div 100
             <= s.nodes[n].alloc["pods"]
        /\ \A r \in Resource : req[r] > 0 =>
             s.nodes[n].used[r] + c * req[r] + (s.nodes[n].alloc[r] * Least(s.reserve, 90)) \div 100
               <= s.nodes[n].alloc[r]
    BY <2>1, <2>2, <2>4, <2>5, FitOnFacts DEF Schedulable
  <2>7. NodeHasRoom(s.nodes[n], req, c, Least(s.reserve, 90))
    BY <2>6 DEF NodeHasRoom
  <2> QED BY <2>7 DEF c
<1> QED BY <1>5, <1>6 DEF Placeable

-----------------------------------------------------------------------------
\* Scaling up.

\* The validator's answer to a proposal to scale.
LEMMA ScaleValidated ==
  ASSUME NEW b, NEW confidence, NEW a, NEW o, a.kind = "scale_replicas"
  PROVE  Validate(b, confidence, a, o) =
           IF Gates(b, confidence, a, o) THEN ValidateScaleReplicas(b, a, o) ELSE {}
BY DEF Validate

\* The plans for a workload are the validator's for its bundle.
LEMMA PlansFacts ==
  ASSUME NEW w, NEW wish
  PROVE  Plans(w, wish) = Validate(Bundle(w), 3, Proposal(wish), world.options)
<1> DEFINE v(b, a) == Validate(b, 3, a, world.options)
<1>1. Plans(w, wish) = UNION {v(b, a) : b \in {Bundle(w)}, a \in {Proposal(wish)}}
  BY DEF Plans
<1> HIDE DEF v
<1>2. {v(b, a) : b \in {Bundle(w)}, a \in {Proposal(wish)}} = {v(Bundle(w), Proposal(wish))}
  OBVIOUS
<1>3. UNION {v(Bundle(w), Proposal(wish))} = v(Bundle(w), Proposal(wish))
  OBVIOUS
<1> QED BY <1>1, <1>2, <1>3 DEF v

\* A state's numbers are numbers, and the evidence is of the nodes as they once were.
ScaleIInv ==
  /\ ScaleTypeOK
  /\ world \in Worlds /\ nodes \in [NodeName -> NodeSet]
  /\ replicas \in [Workload -> Nat] /\ running \in [Workload -> Nat]
  /\ st.pods \in [Workload -> Nat] /\ st.usage \in BOOLEAN
  /\ \A s \in st.capacity : Snapshot(s) /\ DOMAIN s.nodes = NodeName
  /\ \A s, t \in st.capacity : s = t

\* A load is measured in numbers.
LEMMA LoadNumbers ==
  ASSUME ScaleIInv, NEW w \in Workload
  PROVE  /\ WorkloadLoad(w).replicas \in Int /\ WorkloadLoad(w).sampled \in Int
         /\ WorkloadLoad(w).cpu \in Int /\ WorkloadLoad(w).ref \in Int
<1>1. UsageSamples(w) \in Nat /\ world.limit[w] \in Nat /\ world.demand[w] \in Nat /\ replicas[w] \in Nat
  BY ScaleUpAssumption DEF ScaleIInv, UsageSamples
<1>2. UsageSamples(w) * world.limit[w] \in Nat
  BY <1>1
<1>3. Least(world.demand[w], UsageSamples(w) * world.limit[w]) \in Int
  BY <1>1, <1>2 DEF Least
<1> QED BY <1>1, <1>2, <1>3 DEF WorkloadLoad

\* A derived target is a number.
LEMMA TargetNumber ==
  ASSUME NEW l, l.replicas \in Int, l.sampled \in Int, l.cpu \in Int, l.ref \in Int,
         NEW percent \in Int
  PROVE  TargetReplicas(l, percent) \in Int
<1> DEFINE whole == l.ref * percent
           load == l.replicas * l.cpu * 100 + whole - 1
<1>1. whole \in Int /\ load \in Int /\ l.cpu * 100 \in Int
  OBVIOUS
<1>2. CASE \/ l.replicas <= 0 \/ l.sampled <= 0 \/ l.cpu <= 0 \/ l.ref <= 0
           \/ percent <= 0 \/ percent > 100 \/ l.cpu * 100 <= whole
  BY <1>2 DEF TargetReplicas, NotComputable
<1>3. CASE ~(\/ l.replicas <= 0 \/ l.sampled <= 0 \/ l.cpu <= 0 \/ l.ref <= 0
             \/ percent <= 0 \/ percent > 100 \/ l.cpu * 100 <= whole)
  <2>1. whole > 0
    BY <1>3
  <2>2. load \div whole \in Int
    <3> HIDE DEF load, whole
    <3> QED BY <1>1, <2>1
  <2>3. TargetReplicas(l, percent) =
          IF load \div whole <= l.replicas THEN l.replicas + 1 ELSE load \div whole
    BY <1>3 DEF TargetReplicas
  <2> HIDE DEF load, whole
  <2> QED BY <2>2, <2>3
<1> QED BY <1>2, <1>3

\* What the replicas of a workload may be raised to, without the room there is.
Asked(w, wish) == ScaleTarget(Bundle(w), wish, world.options)

\* A wish can lower a derived target and not raise it (validate.go scaleTarget).
LEMMA AskedFacts ==
  ASSUME ScaleIInv, NEW w \in Workload, NEW wish \in Nat
  PROVE  /\ Asked(w, wish) \in Int /\ Asked(w, 0) \in Int
         /\ world.options.autoReplicas => Asked(w, wish) <= Asked(w, 0)
<1> DEFINE loads == {l \in {WorkloadLoad(w)} : l.sampled > 0}
           o == world.options
           derived == TargetReplicas(CHOOSE l \in loads : TRUE, o.targetPercent)
<1>1. Bundle(w).load = loads /\ Bundle(w).replicas = replicas[w]
  BY DEF Bundle
<1>2. replicas[w] \in Nat
  BY DEF ScaleIInv
<1>3. \A v \in Nat : Asked(w, v) =
        IF ~o.autoReplicas THEN v ELSE IF loads = {} THEN NotComputable
        ELSE IF v > replicas[w] /\ v < derived THEN v ELSE derived
  BY <1>1 DEF Asked, ScaleTarget
<1>4. loads # {} => derived \in Int
  <2> HAVE loads # {}
  <2>1. (CHOOSE l \in loads : TRUE) = WorkloadLoad(w)
    OBVIOUS
  <2>2. o.targetPercent \in Int
    BY ScaleUpAssumption DEF ScaleIInv
  <2> QED BY <2>1, <2>2, LoadNumbers, TargetNumber
<1> HIDE DEF loads, derived, o
<1>5. NotComputable \in Int
  BY DEF NotComputable
<1>6. 0 \in Nat
  OBVIOUS
<1>7. Asked(w, wish) \in Int /\ Asked(w, 0) \in Int
  BY <1>3, <1>4, <1>5, <1>6
<1>8. o.autoReplicas => Asked(w, wish) <= Asked(w, 0)
  BY <1>2, <1>3, <1>4, <1>5, <1>6
<1> QED BY <1>7, <1>8 DEF o

\* The ceiling of the policy is a number.
LEMMA CeilingNumber ==
  ASSUME ScaleIInv, NEW w \in Workload
  PROVE  Ceiling(replicas[w], world.options) \in Int
<1>1. world.options.multiplier \in Int /\ world.options.maxReplicas \in Int /\ replicas[w] \in Nat
  BY ScaleUpAssumption DEF ScaleIInv
<1>2. replicas[w] * world.options.multiplier \in Int
  BY <1>1
<1>3. (replicas[w] * world.options.multiplier) \div 100 \in Int
  BY <1>2
<1> QED BY <1>1, <1>3 DEF Ceiling, MaxInt32, Least

\* How far the replicas of a workload can grow in the room of a snapshot, and what
\* the validator makes of a proposal.
Grown(w, s) == AddClamped(replicas[w], FitAdditional(s, world.request[w]))
Final(w, wish, s) == Least(Least(Asked(w, wish), Grown(w, s)), Ceiling(replicas[w], world.options))

\* The plan that sets the replicas to n.
ScalePlan(w, wish, n) == Accept(Bundle(w), Proposal(wish), [k \in {Replicas} |-> n])

\* The final number is at most what fits, and with a derived target a wish makes it
\* no larger.
LEMMA FinalFacts ==
  ASSUME ScaleIInv, NEW w \in Workload, NEW wish \in Nat, NEW s \in st.capacity
  PROVE  /\ Final(w, wish, s) \in Int
         /\ FitAdditional(s, world.request[w]) \in Nat /\ Demand(world.request[w])
         /\ Final(w, wish, s) <= replicas[w] + FitAdditional(s, world.request[w])
         /\ world.options.autoReplicas => Final(w, wish, s) <= Final(w, 0, s)
<1> DEFINE fit == FitAdditional(s, world.request[w])
           top == Ceiling(replicas[w], world.options)
<1>1. Demand(world.request[w]) /\ replicas[w] \in Nat
  BY ScaleUpAssumption DEF ScaleIInv, Demand
<1>2. fit \in Nat
  BY <1>1, FitAdditionalFacts DEF ScaleIInv
<1>3. top \in Int
  BY CeilingNumber
<1>4. /\ Asked(w, wish) \in Int /\ Asked(w, 0) \in Int
      /\ world.options.autoReplicas => Asked(w, wish) <= Asked(w, 0)
  BY AskedFacts
<1> HIDE DEF top
<1>5. Grown(w, s) \in Int /\ Grown(w, s) <= replicas[w] + fit
  <2> HIDE DEF fit
  <2>1. Grown(w, s) = AddClamped(replicas[w], fit)
    BY DEF Grown, fit
  <2> QED BY <1>1, <1>2, <2>1 DEF AddClamped, MaxInt32
<1>6. /\ Final(w, wish, s) = Least(Least(Asked(w, wish), Grown(w, s)), top)
      /\ Final(w, 0, s) = Least(Least(Asked(w, 0), Grown(w, s)), top)
  BY DEF Final, top
<1> HIDE DEF fit
<1>7. Final(w, wish, s) \in Int /\ Final(w, wish, s) <= replicas[w] + fit
  BY <1>1, <1>2, <1>3, <1>4, <1>5, <1>6 DEF Least
<1>8. world.options.autoReplicas => Final(w, wish, s) <= Final(w, 0, s)
  BY <1>3, <1>4, <1>5, <1>6 DEF Least
<1> QED BY <1>1, <1>2, <1>7, <1>8 DEF fit

\* The plans for a workload: with that number, where it is more than there are.
LEMMA PlanIsFinal ==
  ASSUME NEW w, NEW wish, NEW p \in Plans(w, wish)
  PROVE  \E s \in st.capacity :
           /\ Final(w, wish, s) > replicas[w]
           /\ p = ScalePlan(w, wish, Final(w, wish, s))
<1> DEFINE b == Bundle(w)
           a == Proposal(wish)
           o == world.options
           asked == ScaleTarget(b, IF Replicas \in DOMAIN a.want THEN a.want[Replicas] ELSE 0, o)
           ceiling == Ceiling(b.replicas, o)
           fit(s) == AddClamped(b.replicas, FitAdditional(s, b.podRequests))
           trimmed == {Least(x, fit(s)) : x \in {asked}, s \in b.capacity}
           bounded == {Least(t, ceiling) : t \in {x \in trimmed : o.autoReplicas \/ x <= ceiling}}
           accept(x) == Accept(b, a, [k \in {Replicas} |-> x])
<1>1. p \in ValidateScaleReplicas(b, a, o)
  BY PlansFacts, ScaleValidated DEF Proposal
<1>2. /\ b.replicas = replicas[w] /\ b.capacity = st.capacity /\ b.podRequests = world.request[w]
      /\ a.want = [k \in {Replicas} |-> wish]
  BY DEF Bundle, Proposal
<1>3. p \in {accept(y) : y \in {x \in bounded : x > b.replicas}}
  BY <1>1 DEF ValidateScaleReplicas
<1>4. /\ asked = Asked(w, wish) /\ ceiling = Ceiling(replicas[w], o)
      /\ \A s : fit(s) = Grown(w, s)
  BY <1>2 DEF Asked, Grown
<1>5. \A x : accept(x) = ScalePlan(w, wish, x)
  BY DEF ScalePlan
<1> HIDE DEF asked, ceiling, fit, accept, b, a
<1>6. PICK n \in bounded : p = accept(n) /\ n > b.replicas
  BY <1>3
<1>7. PICK t \in trimmed : n = Least(t, ceiling)
  OBVIOUS
<1>8. PICK s \in b.capacity : t = Least(asked, fit(s))
  OBVIOUS
<1>9. n = Final(w, wish, s)
  BY <1>4, <1>7, <1>8 DEF Final
<1>10. s \in st.capacity /\ Final(w, wish, s) > replicas[w]
  BY <1>2, <1>6, <1>8, <1>9
<1>11. p = ScalePlan(w, wish, Final(w, wish, s))
  BY <1>5, <1>6, <1>9
<1> QED BY <1>10, <1>11

\* What a heal adds fits into the room the sweep saw.
LEMMA AddedFits ==
  ASSUME ScaleIInv, NEW w \in Workload, NEW wish \in Nat, NEW p \in Plans(w, wish)
  PROVE  /\ p.change[Replicas] \in Nat /\ p.change[Replicas] > replicas[w]
         /\ \E s \in st.capacity :
              Placeable(s, world.request[w], p.change[Replicas] - replicas[w])
<1> DEFINE final == p.change[Replicas]
           req == world.request[w]
<1>1. PICK s \in st.capacity : final = Final(w, wish, s) /\ final > replicas[w]
  BY PlanIsFinal DEF ScalePlan, Accept
<1>2. replicas[w] \in Nat /\ Snapshot(s) /\ DOMAIN s.nodes = NodeName
  BY DEF ScaleIInv
<1>3. /\ final \in Int /\ Demand(req)
      /\ FitAdditional(s, req) \in Nat /\ final <= replicas[w] + FitAdditional(s, req)
  BY <1>1, FinalFacts
<1> HIDE DEF final, req
<1>4. final \in Nat /\ final - replicas[w] \in Nat /\ final - replicas[w] <= FitAdditional(s, req)
  BY <1>1, <1>2, <1>3
<1>5. Placeable(s, req, final - replicas[w])
  BY <1>2, <1>3, <1>4, FitsArePlaceable
<1> QED BY <1>1, <1>4, <1>5 DEF final, req

\* What is accepted without a wish.
LEMMA FinalIsPlan ==
  ASSUME NEW w, NEW s \in st.capacity, Final(w, 0, s) > replicas[w],
         world.options.autoReplicas, NEW wish, Plans(w, wish) # {}
  PROVE  ScalePlan(w, 0, Final(w, 0, s)) \in Plans(w, 0)
<1> DEFINE b == Bundle(w)
           a == Proposal(0)
           o == world.options
           asked == ScaleTarget(b, IF Replicas \in DOMAIN a.want THEN a.want[Replicas] ELSE 0, o)
           ceiling == Ceiling(b.replicas, o)
           fit(r) == AddClamped(b.replicas, FitAdditional(r, b.podRequests))
           trimmed == {Least(x, fit(r)) : x \in {asked}, r \in b.capacity}
           bounded == {Least(t, ceiling) : t \in {x \in trimmed : o.autoReplicas \/ x <= ceiling}}
           accept(x) == Accept(b, a, [k \in {Replicas} |-> x])
           final == Final(w, 0, s)
<1>1. /\ b.replicas = replicas[w] /\ b.capacity = st.capacity /\ b.podRequests = world.request[w]
      /\ a.want = [k \in {Replicas} |-> 0] /\ a.kind = "scale_replicas"
  BY DEF Bundle, Proposal
<1>2. Gates(b, 3, a, o) /\ ~b.autoscaled /\ b.replicas > 0
  <2>1. PICK p : p \in Validate(b, 3, Proposal(wish), o)
    BY PlansFacts
  <2>2. Gates(b, 3, Proposal(wish), o) /\ p \in ValidateScaleReplicas(b, Proposal(wish), o)
    BY <2>1, ScaleValidated DEF Proposal
  <2>3. Gates(b, 3, a, o)
    BY <2>2 DEF Gates, Proposal
  <2> HIDE DEF b
  <2> QED BY <2>2, <2>3 DEF ValidateScaleReplicas
<1>3. ValidateScaleReplicas(b, a, o) = {accept(x) : x \in {y \in bounded : y > b.replicas}}
  BY <1>2 DEF ValidateScaleReplicas
<1>4. asked = Asked(w, 0) /\ ceiling = Ceiling(replicas[w], o) /\ fit(s) = Grown(w, s)
  BY <1>1 DEF Asked, Grown
<1>5. Plans(w, 0) = Validate(b, 3, a, o)
  BY PlansFacts
<1> HIDE DEF asked, ceiling, fit, accept, b, a
<1>6. Plans(w, 0) = ValidateScaleReplicas(b, a, o)
  BY <1>1, <1>2, <1>5, ScaleValidated
<1>7. Least(asked, fit(s)) \in trimmed
  BY <1>1
<1>8. final \in bounded
  BY <1>4, <1>7 DEF Final
<1>9. accept(final) \in Plans(w, 0)
  BY <1>1, <1>3, <1>6, <1>8
<1> QED BY <1>9 DEF accept, b, a, ScalePlan

\* With a derived target, no wish ends with more replicas than none.
LEMMA LowersOnly ==
  ASSUME ScaleIInv, world.options.autoReplicas,
         NEW w \in Workload, NEW wish \in Wishes, NEW p \in Plans(w, wish)
  PROVE  \E q \in Plans(w, 0) : p.change[Replicas] <= q.change[Replicas]
<1>1. wish \in Nat /\ 0 \in Nat
  BY ScaleUpAssumption
<1>2. PICK s \in st.capacity :
        p.change[Replicas] = Final(w, wish, s) /\ Final(w, wish, s) > replicas[w]
  BY PlanIsFinal DEF ScalePlan, Accept
<1>3. Final(w, wish, s) \in Int /\ Final(w, 0, s) \in Int /\ Final(w, wish, s) <= Final(w, 0, s)
  BY <1>1, FinalFacts
<1>4. Final(w, 0, s) > replicas[w]
  BY <1>2, <1>3 DEF ScaleIInv
<1> DEFINE q == ScalePlan(w, 0, Final(w, 0, s))
<1>5. q \in Plans(w, 0)
  BY <1>4, FinalIsPlan
<1>6. q.change[Replicas] = Final(w, 0, s)
  BY DEF ScalePlan, Accept
<1> QED BY <1>2, <1>3, <1>5, <1>6

-----------------------------------------------------------------------------
\* At first everything is as the world has it.
LEMMA InitScale == ScaleInit => ScaleIInv
<1> SUFFICES ASSUME ScaleInit PROVE ScaleIInv
  OBVIOUS
<1>1. /\ world \in Worlds /\ nodes = world.nodes /\ replicas = world.replicas /\ running = world.replicas
      /\ phase = "idle" /\ todo = {} /\ cooling = {} /\ faults = 0
      /\ st.capacity = {} /\ st.pods = [w \in Workload |-> 0] /\ st.usage = FALSE
  BY DEF ScaleInit, NoEvidence
<1>2. nodes \in [NodeName -> NodeSet] /\ world.replicas \in [Workload -> Nat]
  BY <1>1, ScaleUpAssumption DEF NodeSet
<1>3. \A n \in NodeName, d \in Dimension : nodes[n].used[d] \in 0 .. nodes[n].alloc[d]
  <2> TAKE n \in NodeName, d \in Dimension
  <2>1. nodes[n].used[d] \in Nat /\ nodes[n].alloc[d] \in Nat
    BY <1>2 DEF NodeSet
  <2>2. nodes[n].used[d] <= nodes[n].alloc[d]
    BY <1>1, ScaleUpAssumption
  <2> QED BY <2>1, <2>2
<1>4. 0 \in 0 .. MaxFaults
  <2>1. MaxFaults \in Nat
    BY ScaleUpAssumption
  <2> QED BY <2>1
<1>5. \A w \in Workload : world.replicas[w] <= running[w] /\ running[w] <= replicas[w]
  BY <1>1, <1>2
<1>6. ScaleTypeOK
  BY <1>1, <1>3, <1>4, <1>5 DEF ScaleTypeOK
<1>7. replicas \in [Workload -> Nat] /\ running \in [Workload -> Nat] /\ world \in Worlds
  BY <1>1, <1>2
<1>8. st.pods \in [Workload -> Nat] /\ st.usage \in BOOLEAN /\ st.capacity = {}
  <2>1. [w \in Workload |-> 0] \in [Workload -> Nat]
    OBVIOUS
  <2>2. FALSE \in BOOLEAN
    OBVIOUS
  <2> QED BY <1>1, <2>1, <2>2
<1> QED BY <1>2, <1>6, <1>7, <1>8 DEF ScaleIInv

\* A sweep reads the nodes as they are.
LEMMA StartScale == ScaleIInv /\ StartSweep => ScaleIInv'
<1> SUFFICES ASSUME ScaleIInv, StartSweep PROVE ScaleIInv'
  OBVIOUS
<1>1. PICK ok \in SUBSET {"capacity", "usage", "hpas"} :
        /\ faults + (3 - Cardinality(ok)) <= MaxFaults /\ faults' = faults + (3 - Cardinality(ok))
        /\ st' = [capacity |-> IF "capacity" \in ok THEN {ClusterCapacity} ELSE {},
                  pods |-> running, usage |-> "usage" \in ok,
                  hpas |-> IF "hpas" \in ok THEN ListAutoscalers ELSE {}]
  BY DEF StartSweep
<1>2. Cardinality(ok) \in 0 .. 3
  <2>1. IsFiniteSet({"hpas"}) /\ Cardinality({"hpas"}) = 1
    BY FS_Singleton
  <2>2. IsFiniteSet({"usage", "hpas"}) /\ Cardinality({"usage", "hpas"}) <= 2
    <3>1. {"usage", "hpas"} = {"hpas"} \cup {"usage"}
      OBVIOUS
    <3> QED BY <2>1, <3>1, FS_AddElement
  <2>3. IsFiniteSet({"capacity", "usage", "hpas"}) /\ Cardinality({"capacity", "usage", "hpas"}) <= 3
    <3>1. {"capacity", "usage", "hpas"} = {"usage", "hpas"} \cup {"capacity"}
      OBVIOUS
    <3>2. Cardinality({"usage", "hpas"}) \in Nat
      BY <2>2, FS_CardinalityType
    <3> QED BY <2>2, <3>1, <3>2, FS_AddElement
  <2>4. IsFiniteSet(ok) /\ Cardinality(ok) <= Cardinality({"capacity", "usage", "hpas"})
    BY <2>3, FS_Subset
  <2>5. Cardinality(ok) \in Nat /\ Cardinality({"capacity", "usage", "hpas"}) \in Nat
    BY <2>3, <2>4, FS_CardinalityType
  <2> QED BY <2>3, <2>4, <2>5
<1>3. faults' \in 0 .. MaxFaults
  <2>1. faults \in 0 .. MaxFaults /\ MaxFaults \in Nat
    BY ScaleUpAssumption DEF ScaleIInv, ScaleTypeOK
  <2> QED BY <1>1, <1>2, <2>1
<1>4. Snapshot(ClusterCapacity) /\ DOMAIN ClusterCapacity.nodes = NodeName
  BY ScaleUpAssumption DEF ScaleIInv, ClusterCapacity, Snapshot
<1>5. /\ phase' = "handle" /\ todo' = Workload
      /\ UNCHANGED <<world, nodes, replicas, running, cooling>>
  BY DEF StartSweep
<1>6. /\ st'.pods \in [Workload -> Nat] /\ st'.usage \in BOOLEAN
      /\ st'.capacity \subseteq {ClusterCapacity}
  BY <1>1 DEF ScaleIInv
<1>7. ScaleTypeOK'
  BY <1>3, <1>5 DEF ScaleIInv, ScaleTypeOK
<1> QED BY <1>4, <1>5, <1>6, <1>7 DEF ScaleIInv

\* What a handler's turn does to the replicas.
LEMMA HandleFacts ==
  ASSUME ScaleIInv, NEW w \in Workload, Handle(w)
  PROVE  \/ replicas' = replicas
         \/ \E wish \in Wishes : \E p \in Plans(w, wish) :
              replicas' = [replicas EXCEPT ![w] = p.change[Replicas]]
BY DEF Handle, ScaleWorkload

\* A turn keeps the invariant.
LEMMA HandleScale ==
  ASSUME ScaleIInv, NEW w \in Workload, Handle(w)
  PROVE  ScaleIInv'
<1>1. /\ todo' \subseteq todo /\ cooling' \subseteq cooling \cup {w}
      /\ UNCHANGED <<world, nodes, running, phase, st, faults>>
  BY DEF Handle
<1>2. replicas' \in [Workload -> Nat] /\ \A v \in Workload : replicas[v] <= replicas'[v]
  <2>1. CASE replicas' = replicas
    BY <2>1 DEF ScaleIInv
  <2>2. ASSUME NEW wish \in Wishes, NEW p \in Plans(w, wish),
               replicas' = [replicas EXCEPT ![w] = p.change[Replicas]]
        PROVE  replicas' \in [Workload -> Nat] /\ \A v \in Workload : replicas[v] <= replicas'[v]
    <3>1. p.change[Replicas] \in Nat /\ p.change[Replicas] > replicas[w]
      BY AddedFits, ScaleUpAssumption
    <3> DEFINE n == p.change[Replicas]
    <3> HIDE DEF n
    <3> QED BY <2>2, <3>1 DEF ScaleIInv, n
  <2> QED BY <2>1, <2>2, HandleFacts
<1>3. ScaleTypeOK'
  <2>1. \A v \in Workload : world'.replicas[v] <= running'[v] /\ running'[v] <= replicas'[v]
    <3> TAKE v \in Workload
    <3>1. running[v] \in Nat /\ replicas[v] \in Nat /\ replicas'[v] \in Nat
      BY <1>2 DEF ScaleIInv
    <3> QED BY <1>1, <1>2, <3>1 DEF ScaleIInv, ScaleTypeOK
  <2> QED BY <1>1, <2>1 DEF ScaleIInv, ScaleTypeOK
<1> QED BY <1>1, <1>2, <1>3 DEF ScaleIInv

\* The scheduler binds a pod where there is room.
LEMMA ScheduleScale ==
  ASSUME ScaleIInv, NEW w \in Workload, Schedule(w)
  PROVE  ScaleIInv'
<1>1. PICK n \in NodeName :
        /\ NodeHasRoom(nodes[n], world.request[w], 1, 0)
        /\ nodes' = [nodes EXCEPT ![n].used = [d \in Dimension |->
             IF d = "pods" THEN @[d] + 1 ELSE @[d] + world.request[w][d]]]
  BY DEF Schedule
<1> DEFINE used(d) == IF d = "pods" THEN nodes[n].used[d] + 1 ELSE nodes[n].used[d] + world.request[w][d]
<1>2. nodes[n] \in NodeSet /\ world.request[w] \in [Resource -> Nat]
  BY ScaleUpAssumption DEF ScaleIInv
<1>3. ASSUME NEW d \in Dimension PROVE used(d) \in Nat /\ used(d) \in 0 .. nodes[n].alloc[d]
  <2>1. nodes[n].used[d] \in 0 .. nodes[n].alloc[d] /\ nodes[n].alloc[d] \in Nat
    BY <1>2 DEF ScaleIInv, ScaleTypeOK, NodeSet
  <2>2. (nodes[n].alloc[d] * 0) \div 100 = 0
    BY <2>1
  <2>3. CASE d = "pods"
    BY <1>1, <2>1, <2>2, <2>3 DEF NodeHasRoom
  <2>4. CASE d # "pods"
    <3>1. d \in Resource /\ world.request[w][d] \in Nat
      BY <1>2, <2>4 DEF Dimension
    <3> DEFINE q == world.request[w][d]
    <3>2. q > 0 => nodes[n].used[d] + 1 * q + (nodes[n].alloc[d] * 0) \div 100 <= nodes[n].alloc[d]
      BY <1>1, <3>1 DEF NodeHasRoom
    <3>3. q > 0 => nodes[n].used[d] + q <= nodes[n].alloc[d]
      <4> HIDE DEF q
      <4>1. q \in Nat
        BY <3>1 DEF q
      <4> QED BY <2>1, <2>2, <3>2, <4>1
    <3> HIDE DEF q
    <3>4. used(d) = nodes[n].used[d] + q /\ q \in Nat
      BY <2>4, <3>1 DEF q
    <3> HIDE DEF used
    <3> QED BY <2>1, <3>3, <3>4
  <2> QED BY <2>3, <2>4
<1>4. nodes' = [nodes EXCEPT ![n] = [nodes[n] EXCEPT !.used = [d \in Dimension |-> used(d)]]]
  BY <1>1, <1>2 DEF ScaleIInv
<1>5. [nodes[n] EXCEPT !.used = [d \in Dimension |-> used(d)]] \in NodeSet
  <2> HIDE DEF used
  <2> QED BY <1>2, <1>3 DEF NodeSet
<1>6. nodes' \in [NodeName -> NodeSet]
  BY <1>4, <1>5 DEF ScaleIInv
<1>7. \A m \in NodeName, d \in Dimension : nodes'[m].used[d] \in 0 .. nodes'[m].alloc[d]
  <2> TAKE m \in NodeName, d \in Dimension
  <2>1. CASE m = n
    <3>1. nodes'[n] = [nodes[n] EXCEPT !.used = [e \in Dimension |-> used(e)]]
      BY <1>4 DEF ScaleIInv
    <3> HIDE DEF used
    <3>2. nodes'[n].used[d] = used(d) /\ nodes'[n].alloc = nodes[n].alloc
      BY <1>2, <3>1 DEF NodeSet
    <3> QED BY <1>3, <2>1, <3>2
  <2>2. CASE m # n
    <3>1. nodes'[m] = nodes[m]
      BY <1>4, <2>2 DEF ScaleIInv
    <3> QED BY <3>1 DEF ScaleIInv, ScaleTypeOK
  <2> QED BY <2>1, <2>2
<1>8. /\ running[w] < replicas[w] /\ running' = [running EXCEPT ![w] = @ + 1]
      /\ UNCHANGED <<world, replicas, phase, todo, cooling, st, faults>>
  BY DEF Schedule
<1>9. /\ running' \in [Workload -> Nat]
      /\ \A v \in Workload : world.replicas[v] <= running'[v] /\ running'[v] <= replicas[v]
  <2>1. ASSUME NEW v \in Workload
        PROVE  /\ running'[v] = IF v = w THEN running[v] + 1 ELSE running[v]
               /\ running[v] \in Nat /\ replicas[v] \in Nat /\ world.replicas[v] \in Nat
               /\ world.replicas[v] <= running[v] /\ running[v] <= replicas[v]
    BY <1>8, ScaleUpAssumption DEF ScaleIInv, ScaleTypeOK
  <2>2. ASSUME NEW v \in Workload
        PROVE  /\ running'[v] \in Nat
               /\ world.replicas[v] <= running'[v] /\ running'[v] <= replicas[v]
    BY <1>8, <2>1
  <2>3. DOMAIN running' = Workload /\ running' = [v \in Workload |-> running'[v]]
    BY <1>8 DEF ScaleIInv
  <2> QED BY <2>2, <2>3
<1>10. ScaleTypeOK'
  BY <1>7, <1>8, <1>9 DEF ScaleIInv, ScaleTypeOK
<1> QED BY <1>6, <1>8, <1>9, <1>10 DEF ScaleIInv

\* A node is cordoned.
LEMMA CordonScale ==
  ASSUME ScaleIInv, NEW n \in NodeName, Cordon(n)
  PROVE  ScaleIInv'
<1>1. /\ faults < MaxFaults /\ faults' = faults + 1
      /\ nodes' = [nodes EXCEPT ![n].schedulable = FALSE]
      /\ UNCHANGED <<world, replicas, running, phase, todo, cooling, st>>
  BY DEF Cordon
<1>2. nodes' \in [NodeName -> NodeSet]
  BY <1>1 DEF ScaleIInv, NodeSet
<1>3. \A m \in NodeName : nodes'[m].used = nodes[m].used /\ nodes'[m].alloc = nodes[m].alloc
  <2> TAKE m \in NodeName
  <2>1. nodes[m] \in NodeSet
    BY DEF ScaleIInv
  <2>2. nodes'[m] = IF m = n THEN [nodes[m] EXCEPT !.schedulable = FALSE] ELSE nodes[m]
    BY <1>1 DEF ScaleIInv
  <2> QED BY <2>1, <2>2 DEF NodeSet
<1>4. faults' \in 0 .. MaxFaults
  <2>1. faults \in 0 .. MaxFaults /\ MaxFaults \in Nat
    BY ScaleUpAssumption DEF ScaleIInv, ScaleTypeOK
  <2> QED BY <1>1, <2>1
<1>5. ScaleTypeOK'
  BY <1>1, <1>3, <1>4 DEF ScaleIInv, ScaleTypeOK
<1> QED BY <1>1, <1>2, <1>5 DEF ScaleIInv

\* Every step keeps the invariant.
LEMMA NextScale == ScaleIInv /\ [ScaleNext]_scaleVars => ScaleIInv'
<1> SUFFICES ASSUME ScaleIInv, [ScaleNext]_scaleVars PROVE ScaleIInv'
  OBVIOUS
<1>1. CASE EndSweep \/ (\E w \in Workload : CooldownEnds(w)) \/ UNCHANGED scaleVars
  <2>1. /\ UNCHANGED <<world, nodes, replicas, running, todo, st, faults>>
        /\ phase' \in {"idle", "handle"} /\ cooling' \subseteq cooling
    BY <1>1 DEF EndSweep, CooldownEnds, scaleVars, ScaleIInv, ScaleTypeOK
  <2>2. ScaleTypeOK'
    BY <2>1 DEF ScaleIInv, ScaleTypeOK
  <2> QED BY <2>1, <2>2 DEF ScaleIInv
<1> QED BY <1>1, StartScale, HandleScale, ScheduleScale, CordonScale DEF ScaleNext

\* The invariant holds in every state.
LEMMA ScaleHolds == ScaleSpec => []ScaleIInv
BY InitScale, NextScale, PTL DEF ScaleSpec

\* Every variable keeps its type: no heal scales a workload down, and no node holds
\* more than it allocates.
THEOREM ScaleTypeCorrect == ScaleSpec => []ScaleTypeOK
<1>1. ScaleIInv => ScaleTypeOK
  BY DEF ScaleIInv
<1> QED BY <1>1, ScaleHolds, PTL

\* With a derived target a diagnosis can only make the scale-up smaller, for any
\* demand, load, cluster and policy (validate.go scaleTarget).
THEOREM DiagnosisNeverRaises == ScaleSpec => []DiagnosisOnlyLowers
<1>1. ScaleIInv => DiagnosisOnlyLowers
  BY LowersOnly DEF ScaleIInv, ScaleTypeOK, DiagnosisOnlyLowers
<1> QED BY <1>1, ScaleHolds, PTL

\* The replicas a heal adds fit, pod by pod and node by node, into the room the sweep
\* saw, with the reserve kept, for any number and size of nodes and pods (capacity.go
\* FitAdditional, validate.go validateScaleReplicas).
THEOREM ScaleUpFits == ScaleSpec => ScaleUpPlaceable
<1> DEFINE A == \A w \in Workload : replicas'[w] # replicas[w] =>
                 \E s \in st.capacity : Placeable(s, world.request[w], replicas'[w] - replicas[w])
<1>1. ScaleIInv /\ [ScaleNext]_scaleVars => [A]_scaleVars
  <2> SUFFICES ASSUME ScaleIInv, ScaleNext, NEW w \in Workload, replicas'[w] # replicas[w]
               PROVE  \E s \in st.capacity : Placeable(s, world.request[w], replicas'[w] - replicas[w])
    BY DEF scaleVars
  <2>1. PICK v \in Workload : Handle(v)
    BY DEF ScaleNext, StartSweep, EndSweep, Schedule, CooldownEnds, Cordon
  <2>2. PICK wish \in Wishes : \E p \in Plans(v, wish) :
          replicas' = [replicas EXCEPT ![v] = p.change[Replicas]]
    BY <2>1, HandleFacts
  <2>3. PICK p \in Plans(v, wish) : replicas' = [replicas EXCEPT ![v] = p.change[Replicas]]
    BY <2>2
  <2>4. w = v /\ replicas'[w] = p.change[Replicas]
    BY <2>3 DEF ScaleIInv
  <2>5. wish \in Nat
    BY ScaleUpAssumption
  <2> QED BY <2>4, <2>5, AddedFits
<1>2. [][A]_scaleVars => ScaleUpPlaceable
  BY DEF ScaleUpPlaceable
<1> HIDE DEF A
<1> QED BY <1>1, <1>2, ScaleHolds, PTL DEF ScaleSpec

-----------------------------------------------------------------------------
\* What a pod reserves.

\* A sum that grows in one place.
LEMMA TotalGrows ==
  ASSUME NEW f, Natural(f), NEW g, Natural(g), DOMAIN f = DOMAIN g,
         NEW c \in DOMAIN f, NEW d \in Nat, f[c] <= g[c] + d,
         \A x \in DOMAIN f \ {c} : f[x] = g[x]
  PROVE  Total(f) <= Total(g) + d
<1> DEFINE more == {c} \X (g[c] + 1 .. g[c] + d)
<1>1. g[c] \in Nat /\ f[c] \in Nat
  BY DEF Natural
<1>2. IsFiniteSet(more) /\ Cardinality(more) = d
  <2>1. IsFiniteSet({c}) /\ Cardinality({c}) = 1
    BY FS_Singleton
  <2>2. IsFiniteSet(g[c] + 1 .. g[c] + d) /\ Cardinality(g[c] + 1 .. g[c] + d) = d
    <3>1. g[c] + 1 \in Int /\ g[c] + d \in Int
      BY <1>1
    <3>2. IF g[c] + 1 > g[c] + d THEN d = 0 ELSE (g[c] + d) - (g[c] + 1) + 1 = d
      BY <1>1
    <3> QED BY <3>1, <3>2, FS_Interval
  <2>3. /\ IsFiniteSet(more)
        /\ Cardinality(more) = Cardinality({c}) * Cardinality(g[c] + 1 .. g[c] + d)
    BY <2>1, <2>2, FS_Product
  <2>4. 1 * d = d
    OBVIOUS
  <2> QED BY <2>1, <2>2, <2>3, <2>4
<1>3. Units(f) \subseteq Units(g) \cup more
  <2> SUFFICES ASSUME NEW u \in Units(f) PROVE u \in Units(g) \cup more
    OBVIOUS
  <2>1. u[1] \in DOMAIN f /\ u[2] \in 1 .. f[u[1]] /\ u = <<u[1], u[2]>>
    BY UnitFacts
  <2>2. CASE u[1] # c \/ u[2] <= g[c]
    <3>1. u[2] \in 1 .. g[u[1]]
      BY <1>1, <2>1, <2>2
    <3>2. u \in {u[1]} \X (1 .. g[u[1]])
      BY <2>1, <3>1
    <3> QED BY <2>1, <3>2 DEF Units
  <2>3. CASE ~(u[1] # c \/ u[2] <= g[c])
    <3>1. u[1] = c /\ u[2] \in g[c] + 1 .. g[c] + d
      BY <1>1, <2>1, <2>3
    <3> QED BY <2>1, <3>1
  <2> QED BY <2>2, <2>3
<1> HIDE DEF more
<1>4. IsFiniteSet(Units(f)) /\ IsFiniteSet(Units(g)) /\ Total(f) \in Nat /\ Total(g) \in Nat
  BY TotalNat
<1>5. /\ IsFiniteSet(Units(g) \cup more)
      /\ Cardinality(Units(g) \cup more) = Total(g) + d - Cardinality(Units(g) \cap more)
  BY <1>2, <1>4, FS_Union DEF Total
<1>6. Cardinality(Units(g) \cap more) \in Nat
  BY <1>4, FS_Intersection, FS_CardinalityType
<1>7. Total(f) <= Cardinality(Units(g) \cup more)
  BY <1>3, <1>5, FS_Subset DEF Total
<1>8. Cardinality(Units(g) \cup more) \in Nat
  BY <1>5, FS_CardinalityType
<1> QED BY <1>4, <1>5, <1>6, <1>7, <1>8

\* A finite set of numbers has a largest one.
LEMMA MaxFacts ==
  ASSUME NEW S \in SUBSET Int, IsFiniteSet(S), S # {}
  PROVE  Max(S) \in S /\ \A y \in S : Max(S) >= y
<1> DEFINE HasMax(T) == \E x \in T : \A y \in T : x >= y
           bad == {T \in FiniteSubsetsOf(S) : T # {} /\ ~HasMax(T)}
<1>1. bad = {}
  <2> SUFFICES ASSUME bad # {} PROVE FALSE
    OBVIOUS
  <2>1. PICK T \in bad : \A U \in bad : ~(<<U, T>> \in StrictSubsetOrdering(S))
    <3>1. bad \subseteq FiniteSubsetsOf(S)
      OBVIOUS
    <3> HIDE DEF bad
    <3> QED BY <3>1, FS_StrictSubsetOrderingWellFounded, WFMin
  <2>2. T \subseteq Int /\ IsFiniteSet(T) /\ T \subseteq S /\ ~HasMax(T)
    BY DEF FiniteSubsetsOf
  <2>3. PICK x \in T : TRUE
    OBVIOUS
  <2> DEFINE U == T \ {x}
  <2>4. U \in FiniteSubsetsOf(S)
    <3>1. IsFiniteSet(U)
      BY <2>2, FS_RemoveElement
    <3> QED BY <2>2, <3>1 DEF FiniteSubsetsOf
  <2>5. <<U, T>> \in StrictSubsetOrdering(S)
    BY <2>2, <2>3 DEF StrictSubsetOrdering
  <2>6. U \notin bad
    BY <2>1, <2>5
  <2>7. CASE U = {}
    <3>1. \A y \in T : x >= y
      BY <2>2, <2>7
    <3> QED BY <2>2, <2>3, <3>1
  <2>8. CASE U # {}
    <3>1. PICK m \in U : \A y \in U : m >= y
      BY <2>4, <2>6, <2>8
    <3>2. \E z \in T : \A y \in T : z >= y
      BY <2>2, <2>3, <3>1
    <3> QED BY <2>2, <3>2
  <2> QED BY <2>7, <2>8
<1>2. S \in FiniteSubsetsOf(S)
  BY DEF FiniteSubsetsOf
<1>3. HasMax(S)
  BY <1>1, <1>2
<1> QED BY <1>3 DEF Max

\* A pod with two containers and any init containers, whose requests are numbers.
Containers(p) ==
  /\ p.init \in Seq([sidecar : BOOLEAN, req : [Resource -> Nat]])
  /\ p.overhead \in [Resource -> Nat]
  /\ DOMAIN p.main = 1 .. 2 /\ \A i \in 1 .. 2 : \A r \in Resource : p.main[i][r] \in Nat

\* The terms that PodRequests takes the maximum of.
LEMMA PartFacts ==
  ASSUME NEW p, Containers(p), NEW r \in Resource
  PROVE  \E base \in Nat, peaks \in SUBSET Nat :
           /\ IsFiniteSet(peaks)
           /\ \A q : Containers(q) /\ q.init = p.init =>
                PodRequests(q, r) =
                  Max({Total([i \in DOMAIN q.main |-> q.main[i][r]]) + base} \cup peaks) + q.overhead[r]
<1> DEFINE S == {i \in DOMAIN p.init : p.init[i].sidecar}
           sum(i) == [j \in {x \in S : x < i} |-> p.init[j].req[r]]
           before(i) == Total(sum(i))
           plain == DOMAIN p.init \ S
           peak == [i \in plain |-> before(i) + p.init[i].req[r]]
           peaks == {before(i) + p.init[i].req[r] : i \in plain}
           base == before(Len(p.init) + 1)
<1>1. Len(p.init) \in Nat /\ DOMAIN p.init = 1 .. Len(p.init)
  BY DEF Containers
<1>2. \A i \in DOMAIN p.init : p.init[i] \in [sidecar : BOOLEAN, req : [Resource -> Nat]]
  <2> DEFINE X == [sidecar : BOOLEAN, req : [Resource -> Nat]]
  <2>1. p.init \in Seq(X)
    BY DEF Containers
  <2> HIDE DEF X
  <2>2. \A i \in DOMAIN p.init : p.init[i] \in X
    BY <2>1
  <2> QED BY <2>2 DEF X
<1>3. \A i \in DOMAIN p.init : p.init[i].req[r] \in Nat
  BY <1>2
<1>4. IsFiniteSet(DOMAIN p.init)
  <2>1. IsFiniteSet(1 .. Len(p.init))
    BY <1>1, FS_Interval
  <2> QED BY <1>1, <2>1
<1>5. ASSUME NEW i PROVE before(i) \in Nat
  <2>1. DOMAIN sum(i) = {x \in S : x < i}
    OBVIOUS
  <2>2. {x \in S : x < i} \in SUBSET DOMAIN p.init
    OBVIOUS
  <2>3. IsFiniteSet(DOMAIN sum(i))
    BY <1>4, <2>1, <2>2, FS_Subset
  <2>4. Natural(sum(i))
    BY <1>3, <2>2, <2>3 DEF Natural
  <2> HIDE DEF sum
  <2> QED BY <2>4, TotalNat
<1> HIDE DEF before
<1>6. \A i \in plain : peak[i] \in Nat
  BY <1>3, <1>5
<1>7. peaks = {peak[i] : i \in plain}
  OBVIOUS
<1>8. peaks \in SUBSET Nat /\ IsFiniteSet(peaks)
  <2>1. IsFiniteSet(plain)
    BY <1>4, FS_Subset
  <2>2. peak \in Surjection(plain, peaks)
    BY <1>7 DEF Surjection
  <2> HIDE DEF plain, peak
  <2> QED BY <1>6, <1>7, <2>1, <2>2, FS_Surjection
<1>9. base \in Nat
  BY <1>5
<1>10. ASSUME NEW q, q.init = p.init
       PROVE  PodRequests(q, r) =
                Max({Total([i \in DOMAIN q.main |-> q.main[i][r]]) + base} \cup peaks) + q.overhead[r]
  BY <1>10 DEF PodRequests, before
<1> HIDE DEF peaks, base
<1> QED BY <1>8, <1>9, <1>10

\* A number more in a finite set of them.
LEMMA WithPeaks ==
  ASSUME NEW n \in Nat, NEW peaks \in SUBSET Nat, IsFiniteSet(peaks)
  PROVE  {n} \cup peaks \in SUBSET Int /\ IsFiniteSet({n} \cup peaks)
<1>1. IsFiniteSet(peaks \cup {n})
  BY FS_AddElement
<1>2. peaks \cup {n} = {n} \cup peaks
  OBVIOUS
<1> QED BY <1>1, <1>2

\* What the main containers ask for can be added up.
LEMMA MainFacts ==
  ASSUME NEW p, Containers(p), NEW r \in Resource
  PROVE  Natural([i \in DOMAIN p.main |-> p.main[i][r]])
<1>1. IsFiniteSet(1 .. 2)
  <2>1. 1 \in Int /\ 2 \in Int
    OBVIOUS
  <2> QED BY <2>1, FS_Interval
<1> QED BY <1>1 DEF Containers, Natural

\* What a pod reserves is a number.
LEMMA PodRequestsNat ==
  ASSUME NEW p, Containers(p), NEW r \in Resource
  PROVE  PodRequests(p, r) \in Nat
<1> DEFINE main == Total([i \in DOMAIN p.main |-> p.main[i][r]])
<1>1. PICK base \in Nat, peaks \in SUBSET Nat :
        IsFiniteSet(peaks) /\ PodRequests(p, r) = Max({main + base} \cup peaks) + p.overhead[r]
  BY PartFacts
<1>2. main \in Nat
  BY MainFacts, TotalNat
<1> HIDE DEF main
<1>3. Max({main + base} \cup peaks) \in {main + base} \cup peaks
  <2>1. main + base \in Nat
    BY <1>2
  <2> QED BY <1>1, <2>1, WithPeaks, MaxFacts
<1>4. p.overhead[r] \in Nat
  BY DEF Containers
<1>5. main + base \in Nat
  BY <1>2
<1>6. Max({main + base} \cup peaks) \in Nat
  BY <1>3, <1>5
<1> DEFINE most == Max({main + base} \cup peaks)
<1> HIDE DEF most
<1> QED BY <1>1, <1>4, <1>6 DEF most

\* If the application container asks for so much more, its pod reserves no more than
\* so much more.
LEMMA PodRequestsGrow ==
  ASSUME NEW p, Containers(p), NEW q, Containers(q), NEW r \in Resource, NEW d \in Nat,
         q.init = p.init, q.overhead = p.overhead, q.main[2] = p.main[2],
         q.main[1][r] <= p.main[1][r] + d
  PROVE  PodRequests(q, r) <= PodRequests(p, r) + d
<1> DEFINE f == [i \in DOMAIN q.main |-> q.main[i][r]]
           g == [i \in DOMAIN p.main |-> p.main[i][r]]
<1>1. PICK base \in Nat, peaks \in SUBSET Nat :
        /\ IsFiniteSet(peaks)
        /\ PodRequests(p, r) = Max({Total(g) + base} \cup peaks) + p.overhead[r]
        /\ PodRequests(q, r) = Max({Total(f) + base} \cup peaks) + q.overhead[r]
  BY PartFacts
<1>2. Natural(f) /\ Natural(g) /\ Total(f) \in Nat /\ Total(g) \in Nat
  BY MainFacts, TotalNat
<1>3. Total(f) <= Total(g) + d
  <2>1. DOMAIN f = 1 .. 2 /\ DOMAIN g = 1 .. 2
    BY DEF Containers
  <2>2. 1 \in DOMAIN f /\ f[1] <= g[1] + d
    BY <2>1
  <2>3. \A x \in DOMAIN f \ {1} : f[x] = g[x]
    BY <2>1
  <2> HIDE DEF f, g
  <2> QED BY <1>2, <2>1, <2>2, <2>3, TotalGrows
<1> HIDE DEF f, g
<1> DEFINE P == {Total(g) + base} \cup peaks
           Q == {Total(f) + base} \cup peaks
<1>4. P \in SUBSET Int /\ Q \in SUBSET Int /\ IsFiniteSet(P) /\ IsFiniteSet(Q)
  <2>1. Total(g) + base \in Nat /\ Total(f) + base \in Nat
    BY <1>2
  <2> QED BY <1>1, <2>1, WithPeaks
<1>5. /\ Max(P) \in P /\ \A y \in P : Max(P) >= y
      /\ Max(Q) \in Q
  BY <1>4, MaxFacts
<1>6. Max(Q) <= Max(P) + d
  <2>1. Max(P) \in Int
    BY <1>4, <1>5
  <2>2. CASE Max(Q) = Total(f) + base
    BY <1>2, <1>3, <1>5, <2>1, <2>2
  <2>3. CASE Max(Q) \in peaks
    <3>1. Max(P) >= Max(Q) /\ Max(Q) \in Nat
      BY <1>5, <2>3
    <3> QED BY <2>1, <3>1
  <2> QED BY <1>5, <2>2, <2>3
<1>7. p.overhead[r] \in Nat /\ Max(P) \in Int /\ Max(Q) \in Int
  BY <1>4, <1>5 DEF Containers
<1> HIDE DEF P, Q
<1>8. PodRequests(p, r) = Max(P) + p.overhead[r] /\ PodRequests(q, r) = Max(Q) + p.overhead[r]
  BY <1>1 DEF P, Q
<1> QED BY <1>6, <1>7, <1>8

-----------------------------------------------------------------------------
\* Heals and rollbacks.

\* The template and the failing pod have the workload's fields.
Shapes ==
  work \in Workloads /\ DOMAIN template = DOMAIN work.template /\ DOMAIN pod = DOMAIN work.template

\* So has every container in evidence, and what is counted as replicas can be set.
Grounded(b, w) ==
  /\ \A c \in DOMAIN b.containers : DOMAIN b.containers[c] = DOMAIN w.template
  /\ b.replicas # 0 => Replicas \in DOMAIN w.template

\* A record holds the former values of what the heal set and can give back.
Faithful(rec, w) ==
  /\ DOMAIN rec.old \subseteq DOMAIN rec.new /\ DOMAIN rec.new \subseteq DOMAIN w.template
  /\ \A k \in DOMAIN rec.new : k \in DOMAIN rec.old <=> IsSet(rec.was, k) \/ k \in ProbeKey
  /\ \A k \in DOMAIN rec.old : rec.old[k] = rec.was[k]

IInv ==
  /\ Shapes
  /\ \A b \in evidence : Grounded(b, work)
  /\ \A rec \in record : Faithful(rec, work)
  /\ \A rec, other \in record : rec = other

-----------------------------------------------------------------------------
\* A patch sets what it names and leaves the rest.
LEMMA PatchedFacts ==
  ASSUME NEW change
  PROVE  /\ DOMAIN Patched(change) = DOMAIN change \cup DOMAIN template
         /\ \A k \in DOMAIN change \cup DOMAIN template :
              Patched(change)[k] = IF k \in DOMAIN change THEN change[k] ELSE template[k]
BY DEF Patched, Merge

\* The groups of keys do not overlap.
LEMMA KeysApart ==
  /\ Replicas \notin ProbeKey /\ Replicas \notin ResourceKey /\ Replicas # Image
  /\ Image \notin ProbeKey
BY DEF Replicas, Image, ProbeKey, ProbeType, ResourceKey

\* What an accepted plan sets: the replicas of a workload that has some; or fields
\* of one kind of a container in evidence, its probe only if it has one.
LEMMA PlanFacts ==
  ASSUME NEW b, NEW a, NEW o, NEW confidence, NEW p \in Validate(b, confidence, a, o),
         DOMAIN p.change # {}
  PROVE  \/ DOMAIN p.change = {Replicas} /\ b.replicas # 0
         \/ /\ p.container \in DOMAIN b.containers
            /\ \/ DOMAIN p.change \subseteq ResourceKey \cup {Image}
               \/ \E t \in ProbeType :
                    /\ DOMAIN p.change \subseteq {t} \X ProbeField
                    /\ \E f \in ProbeField : <<t, f>> \in DOMAIN b.containers[p.container]
<1>1. CASE p \in ValidatePatch(b, a, o)
  <2>1. p.container = Target(b, a) /\ Known(b, a)
    BY <1>1 DEF ValidatePatch, Accept
  <2>2. DOMAIN p.change \subseteq ResourceKey
    BY <1>1 DEF ValidatePatch, Accept, Proposed
  <2> QED BY <2>1, <2>2 DEF Known
<1>2. CASE p \in ValidatePatchImage(b, a)
  <2>1. p.container = Target(b, a) /\ Known(b, a) /\ DOMAIN p.change = {Image}
    BY <1>2 DEF ValidatePatchImage, Accept
  <2> QED BY <2>1 DEF Known
<1>3. CASE p \in ValidatePatchProbe(b, a, o)
  <2> DEFINE cur == b.containers[Target(b, a)]
             asked == Proposed(a, ProbeKey)
  <2>1. p.container = Target(b, a) /\ Known(b, a) /\ DOMAIN p.change \subseteq asked
    BY <1>3 DEF ValidatePatchProbe, Accept
  <2>2. PICK t \in ProbeType : /\ asked \subseteq {t} \X ProbeField
                               /\ \E k \in {t} \X ProbeField : k \in DOMAIN cur
    BY <1>3 DEF ValidatePatchProbe
  <2>3. \E f \in ProbeField : <<t, f>> \in DOMAIN cur
    BY <2>2
  <2> QED BY <2>1, <2>2, <2>3 DEF Known
<1>4. CASE p \in ValidateScaleReplicas(b, a, o)
  <2>1. b.replicas > 0 /\ DOMAIN p.change = {Replicas}
    BY <1>4 DEF ValidateScaleReplicas, Accept
  <2> QED BY <2>1
<1>5. CASE p \in ValidateCreatePVC(b, a, o) \/ p \in ValidateRestart(b, a)
  <2>1. p.change = <<>>
    BY <1>5 DEF ValidateCreatePVC, ValidateRestart, Accept
  <2> QED BY <2>1
<1>6. \/ p \in ValidatePatch(b, a, o) \/ p \in ValidatePatchImage(b, a)
      \/ p \in ValidatePatchProbe(b, a, o) \/ p \in ValidateScaleReplicas(b, a, o)
      \/ p \in ValidateCreatePVC(b, a, o) \/ p \in ValidateRestart(b, a)
  BY DEF Validate
<1> QED BY <1>1, <1>2, <1>3, <1>4, <1>5, <1>6

\* The record of a heal on grounded evidence holds what the heal replaced.
LEMMA RecordFaithful ==
  ASSUME NEW w \in Workloads, NEW b, Grounded(b, w),
         NEW a, NEW o, NEW confidence, NEW p \in Validate(b, confidence, a, o),
         DOMAIN p.change # {}
  PROVE  /\ DOMAIN p.change \subseteq DOMAIN w.template
         /\ Faithful(RecordFromPlan(b, p), w)
<1> DEFINE rec == RecordFromPlan(b, p)
           before == b.containers[p.container]
           counted == [k \in {Replicas} |-> b.replicas]
           had == {k \in DOMAIN p.change : k \in ProbeKey \/ IsSet(before, k)}
<1>1. rec.new = p.change /\ rec.old = Pick(b, p) /\ rec.was = Merge(counted, before)
  BY DEF RecordFromPlan
<1>2. /\ Replicas \in DOMAIN Merge(counted, before) /\ Merge(counted, before)[Replicas] = b.replicas
      /\ \A k \in DOMAIN before \ {Replicas} :
           k \in DOMAIN Merge(counted, before) /\ Merge(counted, before)[k] = before[k]
      /\ \A k \in DOMAIN Merge(counted, before) : k = Replicas \/ k \in DOMAIN before
  BY DEF Merge
<1>3. CASE DOMAIN p.change = {Replicas} /\ b.replicas # 0
  <2>1. Pick(b, p) = [k \in {Replicas} |-> b.replicas]
    BY <1>3 DEF Pick
  <2>2. IsSet(Merge(counted, before), Replicas)
    BY <1>2, <1>3, KeysApart DEF IsSet
  <2>3. Replicas \in DOMAIN w.template
    BY <1>3 DEF Grounded
  <2> QED BY <1>1, <1>2, <1>3, <2>1, <2>2, <2>3 DEF Faithful
<1>4. CASE /\ p.container \in DOMAIN b.containers
           /\ \/ DOMAIN p.change \subseteq ResourceKey \cup {Image}
              \/ \E t \in ProbeType :
                   /\ DOMAIN p.change \subseteq {t} \X ProbeField
                   /\ \E f \in ProbeField : <<t, f>> \in DOMAIN b.containers[p.container]
  <2>1. DOMAIN before = DOMAIN w.template
    BY <1>4 DEF Grounded
  <2>2. Replicas \notin DOMAIN p.change
    BY <1>4, KeysApart DEF ProbeKey
  <2>3. DOMAIN p.change \subseteq DOMAIN w.template
    BY <1>4, <2>1, RemediesAssumption
  <2>4. Pick(b, p) = [k \in had |-> IF k \in DOMAIN before THEN before[k] ELSE 0]
    BY <2>2 DEF Pick
  <2>5. ASSUME NEW k \in DOMAIN p.change
        PROVE  /\ k \in DOMAIN before /\ Merge(counted, before)[k] = before[k]
               /\ IsSet(Merge(counted, before), k) <=> IsSet(before, k)
    BY <1>2, <2>1, <2>2, <2>3 DEF IsSet
  <2>6. ASSUME NEW k \in DOMAIN p.change
        PROVE  k \in DOMAIN rec.old <=> IsSet(rec.was, k) \/ k \in ProbeKey
    BY <1>1, <2>4, <2>5
  <2>7. ASSUME NEW k \in DOMAIN rec.old PROVE rec.old[k] = rec.was[k]
    BY <2>7, <1>1, <2>4, <2>5
  <2>8. DOMAIN rec.old \subseteq DOMAIN rec.new
    BY <1>1, <2>4
  <2> HIDE DEF rec
  <2>9. Faithful(rec, w)
    BY <1>1, <2>3, <2>6, <2>7, <2>8 DEF Faithful
  <2> QED BY <2>3, <2>9 DEF rec
<1> QED BY <1>3, <1>4, PlanFacts

-----------------------------------------------------------------------------
\* The invariant.

\* At the start nothing is in evidence or on record.
LEMMA InitIInv == Init => IInv
BY DEF Init, IInv, Shapes

\* Evidence is collected from the failing pod.
LEMMA CollectIInv == IInv /\ Collect => IInv'
<1> SUFFICES ASSUME IInv, Collect PROVE IInv'
  OBVIOUS
<1>1. UNCHANGED <<work, template, pod, record>>
  BY DEF Collect, fixed
<1>2. PICK kind \in {"OOMKilled", "PVCPending"}, count \in WorkloadReplicas,
           read \in ClaimsRead, snapshot \in {{}, {cluster}} :
        evidence' = {[kind |-> kind, ns |-> "apps", container |-> "app",
                      owned |-> work.ctrl # "none",
                      containers |-> [c \in {"app"} |-> pod],
                      replicas |-> count, autoscaled |-> FALSE, claims |-> read,
                      capacity |-> snapshot, node |-> {},
                      podRequests |-> [r \in Resource |-> PodRequests(Shape(pod), r)],
                      load |-> {}]}
  BY DEF Collect
<1>3. count # 0 => Replicas \in DOMAIN work.template
  BY RemediesAssumption DEF WorkloadReplicas, IInv, Shapes
<1>4. \A b \in evidence' : /\ b.replicas = count
                           /\ b.containers = [c \in {"app"} |-> pod]
  BY <1>2
<1>5. \A b \in evidence' : Grounded(b, work)
  BY <1>3, <1>4 DEF Grounded, IInv, Shapes
<1> QED BY <1>1, <1>5 DEF IInv, Shapes

\* A heal sets what the template has, and records what it replaced.
LEMMA HealIInv == IInv /\ Heal => IInv'
<1> SUFFICES ASSUME IInv, Heal PROVE IInv'
  OBVIOUS
<1>1. evidence' = {} /\ UNCHANGED <<work, pod>>
  BY DEF Heal, fixed
<1>2. PICK b \in evidence, a \in Proposals :
        \E p \in Validate(b, 3, a, setting.options) :
          Patch(b, p) \/ Restart(p) \/ CreatePVC(p)
  BY DEF Heal
<1>3. PICK p \in Validate(b, 3, a, setting.options) :
        Patch(b, p) \/ Restart(p) \/ CreatePVC(p)
  BY <1>2
<1>4. CASE Restart(p) \/ CreatePVC(p)
  <2>1. UNCHANGED <<template, record>>
    BY <1>4 DEF Restart, CreatePVC
  <2> QED BY <1>1, <2>1 DEF IInv, Shapes
<1>5. CASE Patch(b, p)
  <2>1. /\ DOMAIN p.change # {} /\ template' \in {template, Patched(p.change)}
        /\ record' \in {record, {RecordFromPlan(b, p)}}
    BY <1>5 DEF Patch
  <2>2. Grounded(b, work) /\ work \in Workloads
    BY DEF IInv, Shapes
  <2>3. DOMAIN p.change \subseteq DOMAIN work.template /\ Faithful(RecordFromPlan(b, p), work)
    BY <2>1, <2>2, RecordFaithful
  <2>4. DOMAIN template' = DOMAIN work.template
    <3>1. DOMAIN template = DOMAIN work.template
      BY DEF IInv, Shapes
    <3>2. DOMAIN Patched(p.change) = DOMAIN p.change \cup DOMAIN template
      BY PatchedFacts
    <3>3. DOMAIN Patched(p.change) = DOMAIN work.template
      BY <3>1, <3>2, <2>3
    <3> QED BY <3>1, <3>3, <2>1
  <2>5. (\A rec \in record' : Faithful(rec, work)) /\ \A rec, other \in record' : rec = other
    BY <2>1, <2>3 DEF IInv
  <2> QED BY <1>1, <2>4, <2>5 DEF IInv, Shapes
<1> QED BY <1>3, <1>4, <1>5

\* The template gets back what the record holds.
LEMMA RollbackIInv == IInv /\ Rollback => IInv'
<1> SUFFICES ASSUME IInv, Rollback PROVE IInv'
  OBVIOUS
<1>1. PICK rec \in record : template' = Patched(rec.old)
  BY DEF Rollback
<1>2. record' = {} /\ UNCHANGED <<work, pod, evidence>>
  BY DEF Rollback, fixed
<1>3. DOMAIN rec.old \subseteq DOMAIN work.template
  BY DEF IInv, Faithful
<1>4. DOMAIN template' = DOMAIN work.template
  BY <1>1, <1>3, PatchedFacts DEF IInv, Shapes
<1> QED BY <1>2, <1>4 DEF IInv, Shapes

\* Others set fields of the template, and bring the pod up to it.
LEMMA OthersIInv ==
  IInv /\ (Edit \/ Rollout \/ ClaimMoves \/ Decline \/ Verified \/ UNCHANGED vars) => IInv'
<1> SUFFICES ASSUME IInv, Edit \/ Rollout \/ ClaimMoves \/ Decline \/ Verified \/ UNCHANGED vars
             PROVE  IInv'
  OBVIOUS
<1>1. CASE Edit
  <2>1. PICK e \in Edits : DOMAIN e \subseteq DOMAIN template /\ template' = Merge(e, template)
    BY <1>1 DEF Edit
  <2>2. DOMAIN template' = DOMAIN template
    BY <2>1 DEF Merge
  <2> QED BY <1>1, <2>2 DEF Edit, fixed, IInv, Shapes
<1>2. CASE Rollout
  BY <1>2 DEF Rollout, fixed, IInv, Shapes
<1>3. CASE ClaimMoves \/ UNCHANGED vars
  BY <1>3 DEF ClaimMoves, vars, fixed, IInv, Shapes
<1>4. CASE Decline \/ Verified
  BY <1>4 DEF Decline, Verified, fixed, IInv, Shapes
<1> QED BY <1>1, <1>2, <1>3, <1>4

\* So it holds throughout.
LEMMA Invariance == Spec => []IInv
<1>1. IInv /\ [Next]_vars => IInv'
  BY CollectIInv, HealIInv, RollbackIInv, OthersIInv DEF Next
<1> QED BY <1>1, InitIInv, PTL DEF Spec

-----------------------------------------------------------------------------
\* The results.

\* A rollback gives every field the heal changed the value the controller had
\* before it, where the failing pod agreed with it, and touches no other, whatever
\* is proposed, edited and healed in between (RecordFromPlan in
\* internal/heal/record.go, Executor.Rollback).
THEOREM RollbacksRestore == Spec => RollbackRestores
<1> DEFINE Restores ==
      Rollback =>
        \A rec \in record : \A k \in DOMAIN template :
          /\ ~GivenBack(rec, k) => template'[k] = template[k]
          /\ GivenBack(rec, k) /\ rec.was[k] = rec.before[k] => template'[k] = rec.before[k]
<1>1. IInv => Restores
  <2> SUFFICES ASSUME IInv, Rollback, NEW rec \in record, NEW k \in DOMAIN template
               PROVE  /\ ~GivenBack(rec, k) => template'[k] = template[k]
                      /\ GivenBack(rec, k) /\ rec.was[k] = rec.before[k] =>
                           template'[k] = rec.before[k]
    OBVIOUS
  <2>1. template' = Patched(rec.old) /\ Faithful(rec, work)
    BY DEF Rollback, IInv
  <2>2. template'[k] = IF k \in DOMAIN rec.old THEN rec.old[k] ELSE template[k]
    BY <2>1, PatchedFacts
  <2>3. k \in DOMAIN rec.old <=> GivenBack(rec, k)
    BY <2>1 DEF Faithful, GivenBack
  <2>4. k \in DOMAIN rec.old => rec.old[k] = rec.was[k]
    BY <2>1 DEF Faithful
  <2> QED BY <2>2, <2>3, <2>4
<1> HIDE DEF Restores
<1>2. IInv /\ [Next]_vars => [Restores]_vars
  BY <1>1
<1>3. Spec => [][Restores]_vars
  BY <1>2, Invariance, PTL DEF Spec
<1> QED BY <1>3 DEF Restores, RollbackRestores

\* Only a heal that added values where there were none leaves a record that can
\* not be rolled back (the "nothing to roll back" of Executor.Rollback).
THEOREM OnlyAddedIsStuck == Spec => []StuckOnlyAdded
<1>1. IInv => StuckOnlyAdded
  BY DEF IInv, Faithful, StuckOnlyAdded, Restorable
<1> QED BY <1>1, Invariance, PTL

-----------------------------------------------------------------------------
\* Numbers.

\* A bundle is of a container and a pod with numbers in their fields.
Measured(b) ==
  /\ b.container = "app" /\ DOMAIN b.containers = {"app"}
  /\ Numbers(b.containers["app"]) \subseteq Nat
  /\ b.replicas \in Nat /\ b.load = {} /\ b.capacity \in {{}, {cluster}}
  /\ \A r \in Resource : b.podRequests[r] = PodRequests(Shape(b.containers["app"]), r)

\* So are the template, the pod and what is recorded, and there is at most one bundle.
Numbered ==
  /\ setting \in Settings /\ cluster \in Clusters
  /\ Numbers(template) \subseteq Nat /\ Numbers(pod) \subseteq Nat
  /\ DOMAIN claims = DOMAIN work.claims
  /\ \A c \in DOMAIN claims : claims[c] \in {"missing", "Pending", "Bound"}
  /\ \A b \in evidence : Measured(b)
  /\ \A b, other \in evidence : b = other
  /\ evidence # {} => heals < MaxHeals
  /\ \A rec \in record : Numbers(rec.old) \subseteq Nat
  /\ heals \in 0 .. MaxHeals /\ edits \in 0 .. MaxEdits

\* What a field is worth.
LEMMA ValueFacts ==
  ASSUME NEW spec, Numbers(spec) \subseteq Nat, NEW k, k # Image
  PROVE  /\ Value(spec, k) \in Nat
         /\ k \in DOMAIN spec => Value(spec, k) = spec[k]
<1>1. k \in DOMAIN spec => spec[k] \in Nat
  BY DEF Numbers
<1>2. IsSet(spec, k) <=> k \in DOMAIN spec /\ spec[k] # 0
  BY DEF IsSet
<1> QED BY <1>1, <1>2 DEF Value

\* A request is not the image.
LEMMA RequestKeys == \A r : <<"requests", r>> # Image
BY DEF Image

\* The pod around such a container.
LEMMA ShapeFacts ==
  ASSUME work \in Workloads, NEW spec, Numbers(spec) \subseteq Nat
  PROVE  /\ Containers(Shape(spec))
         /\ \A r \in Resource : Shape(spec).main[1][r] = Value(spec, <<"requests", r>>)
         /\ Shape(spec).main[2] = work.side /\ Shape(spec).init = work.init
         /\ Shape(spec).overhead = [r \in Resource |-> 0]
<1> DEFINE own == [r \in Resource |-> Value(spec, <<"requests", r>>)]
<1>1. Shape(spec) = [main |-> <<own, work.side>>, init |-> work.init, overhead |-> [r \in Resource |-> 0]]
  BY DEF Shape
<1>2. \A r \in Resource : own[r] = Value(spec, <<"requests", r>>) /\ own[r] \in Nat
  BY ValueFacts, RequestKeys
<1>3. work.side \in [Resource -> Nat] /\ work.init \in Seq([sidecar : BOOLEAN, req : [Resource -> Nat]])
  BY RemediesAssumption
<1> HIDE DEF own
<1>4. /\ Shape(spec).main = <<own, work.side>> /\ Shape(spec).init = work.init
      /\ Shape(spec).overhead = [r \in Resource |-> 0]
  BY <1>1
<1>5. DOMAIN <<own, work.side>> = 1 .. 2 /\ <<own, work.side>>[1] = own /\ <<own, work.side>>[2] = work.side
  OBVIOUS
<1>6. [r \in Resource |-> 0] \in [Resource -> Nat]
  OBVIOUS
<1>7. \A i \in 1 .. 2 : i = 1 \/ i = 2
  OBVIOUS
<1>8. \A i \in 1 .. 2 : \A r \in Resource : Shape(spec).main[i][r] \in Nat
  BY <1>2, <1>3, <1>4, <1>5, <1>7
<1>9. Containers(Shape(spec))
  BY <1>3, <1>4, <1>5, <1>6, <1>8 DEF Containers
<1> QED BY <1>2, <1>4, <1>5, <1>9

\* A patch of numbers leaves numbers.
LEMMA MergeNumbers ==
  ASSUME NEW patch, Numbers(patch) \subseteq Nat, NEW spec, Numbers(spec) \subseteq Nat
  PROVE  Numbers(Merge(patch, spec)) \subseteq Nat
<1>1. \A k \in DOMAIN patch \ {Image} : patch[k] \in Nat
  BY DEF Numbers
<1>2. \A k \in DOMAIN spec \ {Image} : spec[k] \in Nat
  BY DEF Numbers
<1> QED BY <1>1, <1>2 DEF Numbers, Merge

\* A plan sets numbers: what is proposed for a resource is positive, for a probe or
\* for the replicas no less than there is.
LEMMA PlanNumbers ==
  ASSUME Numbered, work \in Workloads, NEW b \in evidence, NEW a \in Proposals,
         NEW p \in Validate(b, 3, a, setting.options)
  PROVE  Numbers(p.change) \subseteq Nat
<1> DEFINE o == setting.options
           cur == b.containers[Target(b, a)]
<1>1. Measured(b)
  BY DEF Numbered
<1>2. \A k \in DOMAIN a.want \ {Image} : a.want[k] \in Int
  BY RemediesAssumption DEF Numbers
<1>3. CASE p \in ValidatePatch(b, a, o)
  <2> DEFINE keys == Proposed(a, ResourceKey)
  <2>1. p.change = [k \in keys |-> a.want[k]]
    BY <1>3 DEF ValidatePatch, Accept
  <2>2. \A k \in keys : BoundedIncrease(Value(cur, k), a.want[k], o.cap[k[2]], o.multiplier)
    BY <1>3 DEF ValidatePatch
  <2>3. \A k \in keys : k \in DOMAIN a.want \ {Image} /\ a.want[k] > 0
    BY <2>2, KeysApart DEF Proposed, BoundedIncrease, ResourceKey, Image
  <2> HIDE DEF keys
  <2>4. \A k \in DOMAIN p.change : p.change[k] \in Nat
    BY <2>1, <2>3, <1>2
  <2> QED BY <2>4 DEF Numbers
<1>4. CASE p \in ValidatePatchImage(b, a)
  <2>1. DOMAIN p.change = {Image}
    BY <1>4 DEF ValidatePatchImage, Accept
  <2> QED BY <2>1 DEF Numbers
<1>5. CASE p \in ValidatePatchProbe(b, a, o)
  <2> DEFINE raised == {k \in Proposed(a, ProbeKey) : a.want[k] > Value(cur, k)}
  <2>1. p.change = [k \in raised |-> a.want[k]] /\ Known(b, a)
    BY <1>5 DEF ValidatePatchProbe, Accept
  <2>2. Numbers(cur) \subseteq Nat
    BY <1>1, <2>1 DEF Measured, Known
  <2>3. \A k \in raised : k \in DOMAIN a.want \ {Image} /\ a.want[k] > Value(cur, k)
    BY KeysApart DEF Proposed
  <2> HIDE DEF raised, cur
  <2>4. \A k \in raised : a.want[k] \in Nat
    BY <1>2, <2>2, <2>3, ValueFacts
  <2>5. \A k \in DOMAIN p.change : p.change[k] \in Nat
    BY <2>1, <2>4
  <2> QED BY <2>5 DEF Numbers
<1>6. CASE p \in ValidateScaleReplicas(b, a, o)
  <2> DEFINE wish == IF Replicas \in DOMAIN a.want THEN a.want[Replicas] ELSE 0
             asked == ScaleTarget(b, wish, o)
             ceiling == Ceiling(b.replicas, o)
             fit(s) == AddClamped(b.replicas, FitAdditional(s, b.podRequests))
             trimmed == {Least(x, fit(s)) : x \in {asked}, s \in b.capacity}
             bounded == {Least(t, ceiling) : t \in {x \in trimmed : o.autoReplicas \/ x <= ceiling}}
             accept(x) == Accept(b, a, [k \in {Replicas} |-> x])
  <2>1. p \in {accept(y) : y \in {x \in bounded : x > b.replicas}}
    BY <1>6 DEF ValidateScaleReplicas
  <2>2. wish \in Int
    BY <1>2, KeysApart
  <2>3. asked \in Int
    BY <1>1, <2>2 DEF Measured, ScaleTarget, NotComputable
  <2>4. b.replicas \in Nat
    BY <1>1 DEF Measured
  <2>5. ceiling \in Int
    <3>1. o.multiplier \in Int /\ o.maxReplicas \in Int
      BY RemediesAssumption DEF Numbered
    <3>2. b.replicas * o.multiplier \in Int
      BY <2>4, <3>1
    <3>3. (b.replicas * o.multiplier) \div 100 \in Int
      BY <3>2
    <3> QED BY <3>1, <3>3 DEF Ceiling, MaxInt32, Least
  <2>6. ASSUME NEW s \in b.capacity PROVE fit(s) \in Int
    <3>1. s = cluster /\ Snapshot(s)
      BY <1>1, RemediesAssumption DEF Measured, Numbered, Snapshot, NodeSet
    <3>2. Demand(b.podRequests)
      BY <1>1, ShapeFacts, PodRequestsNat DEF Measured, Demand
    <3>3. FitAdditional(s, b.podRequests) \in Nat
      BY <3>1, <3>2, FitAdditionalFacts
    <3> QED BY <2>4, <3>3 DEF AddClamped, MaxInt32
  <2> HIDE DEF asked, ceiling, fit, accept, o
  <2>7. PICK n \in bounded : p = accept(n) /\ n > b.replicas
    BY <2>1
  <2>8. PICK t \in trimmed : n = Least(t, ceiling)
    OBVIOUS
  <2>9. PICK s \in b.capacity : t = Least(asked, fit(s))
    OBVIOUS
  <2>10. n \in Int
    BY <2>3, <2>5, <2>6, <2>8, <2>9 DEF Least
  <2>11. n \in Nat
    BY <2>4, <2>7, <2>10
  <2>12. \A k \in DOMAIN p.change : p.change[k] \in Nat
    <3>1. p = accept(n)
      BY <2>7
    <3>2. p.change = [k \in {Replicas} |-> n]
      BY <3>1 DEF accept, Accept
    <3> QED BY <2>11, <3>2
  <2> QED BY <2>12 DEF Numbers
<1>7. CASE p \in ValidateCreatePVC(b, a, o) \/ p \in ValidateRestart(b, a)
  <2>1. p.change = <<>>
    BY <1>7 DEF ValidateCreatePVC, ValidateRestart, Accept
  <2>2. DOMAIN p.change = {}
    BY <2>1
  <2> QED BY <2>2 DEF Numbers
<1>8. \/ p \in ValidatePatch(b, a, o) \/ p \in ValidatePatchImage(b, a)
      \/ p \in ValidatePatchProbe(b, a, o) \/ p \in ValidateScaleReplicas(b, a, o)
      \/ p \in ValidateCreatePVC(b, a, o) \/ p \in ValidateRestart(b, a)
  BY DEF Validate
<1> QED BY <1>3, <1>4, <1>5, <1>6, <1>7, <1>8

\* The old values of a record are numbers of the evidence.
LEMMA RecordNumbers ==
  ASSUME Numbered, NEW b \in evidence, NEW p, p.container \in DOMAIN b.containers \/ Replicas \in DOMAIN p.change
  PROVE  Numbers(RecordFromPlan(b, p).old) \subseteq Nat
<1>1. Measured(b)
  BY DEF Numbered
<1>2. RecordFromPlan(b, p).old = Pick(b, p)
  BY DEF RecordFromPlan
<1>3. CASE Replicas \in DOMAIN p.change
  <2>1. Pick(b, p) = [k \in {Replicas} |-> b.replicas] /\ b.replicas \in Nat
    BY <1>1, <1>3 DEF Pick, Measured
  <2> QED BY <1>2, <2>1 DEF Numbers
<1>4. CASE Replicas \notin DOMAIN p.change
  <2> DEFINE before == b.containers[p.container]
             had == {k \in DOMAIN p.change : k \in ProbeKey \/ IsSet(before, k)}
  <2>1. Pick(b, p) = [k \in had |-> IF k \in DOMAIN before THEN before[k] ELSE 0]
    BY <1>4 DEF Pick
  <2>2. \A k \in DOMAIN before \ {Image} : before[k] \in Nat
    BY <1>1, <1>4 DEF Measured, Numbers
  <2> HIDE DEF before, had
  <2>3. \A k \in DOMAIN Pick(b, p) \ {Image} : Pick(b, p)[k] \in Nat
    BY <2>1, <2>2
  <2> QED BY <1>2, <2>3 DEF Numbers
<1> QED BY <1>3, <1>4

-----------------------------------------------------------------------------
\* At the start the numbers are the workload's.
LEMMA InitNumbered == Init => Numbered
<1> SUFFICES ASSUME Init PROVE Numbered
  OBVIOUS
<1>1. MaxHeals \in Nat /\ MaxEdits \in Nat
  BY RemediesAssumption
<1>2. 0 \in 0 .. MaxHeals /\ 0 \in 0 .. MaxEdits
  BY <1>1
<1>3. /\ Numbers(template) \subseteq Nat /\ Numbers(pod) \subseteq Nat
      /\ \A c \in DOMAIN claims : claims[c] \in {"missing", "Pending", "Bound"}
  BY RemediesAssumption DEF Init
<1> QED BY <1>2, <1>3 DEF Init, Numbered

\* The evidence is measured on the failing pod.
LEMMA CollectNumbered == IInv /\ Numbered /\ Collect => Numbered'
<1> SUFFICES ASSUME IInv, Numbered, Collect PROVE Numbered'
  OBVIOUS
<1>1. UNCHANGED <<setting, work, cluster, template, pod, claims, record, heals, edits>>
  BY DEF Collect, fixed
<1>2. PICK kind \in {"OOMKilled", "PVCPending"}, count \in WorkloadReplicas,
           read \in ClaimsRead, snapshot \in {{}, {cluster}} :
        evidence' = {[kind |-> kind, ns |-> "apps", container |-> "app",
                      owned |-> work.ctrl # "none",
                      containers |-> [c \in {"app"} |-> pod],
                      replicas |-> count, autoscaled |-> FALSE, claims |-> read,
                      capacity |-> snapshot, node |-> {},
                      podRequests |-> [r \in Resource |-> PodRequests(Shape(pod), r)],
                      load |-> {}]}
  BY DEF Collect
<1>3. heals < MaxHeals
  BY DEF Collect
<1>4. count \in Nat
  <2>1. work \in Workloads /\ DOMAIN template = DOMAIN work.template
    BY DEF IInv, Shapes
  <2>2. CASE count = 0
    BY <2>2
  <2>3. CASE count # 0
    <3>1. count = template[Replicas] /\ Replicas \in DOMAIN template
      BY <2>1, <2>3, RemediesAssumption DEF WorkloadReplicas
    <3> QED BY <3>1, KeysApart DEF Numbered, Numbers
  <2> QED BY <2>2, <2>3
<1>5. \A b \in evidence' :
        /\ b.container = "app" /\ b.containers = [c \in {"app"} |-> pod] /\ b.replicas = count
        /\ b.load = {} /\ b.capacity = snapshot
        /\ b.podRequests = [r \in Resource |-> PodRequests(Shape(pod), r)]
  BY <1>2
<1>6. \A b, other \in evidence' : b = other
  BY <1>2
<1>7. \A b \in evidence' : Measured(b)
  <2> SUFFICES ASSUME NEW b \in evidence' PROVE Measured(b)
    OBVIOUS
  <2>1. DOMAIN b.containers = {"app"} /\ b.containers["app"] = pod
    BY <1>5
  <2>2. \A r \in Resource : b.podRequests[r] = PodRequests(Shape(pod), r)
    BY <1>5
  <2> QED BY <1>4, <1>5, <2>1, <2>2 DEF Measured, Numbered
<1>8. \A b \in evidence' : Measured(b)'
  BY <1>1, <1>7 DEF Measured, Shape
<1> QED BY <1>1, <1>3, <1>6, <1>8 DEF Numbered

\* A heal sets the numbers of its plan and records those of its evidence.
LEMMA HealNumbered == IInv /\ Numbered /\ Heal => Numbered'
<1> SUFFICES ASSUME IInv, Numbered, Heal PROVE Numbered'
  OBVIOUS
<1>1. evidence' = {} /\ heals' = heals + 1 /\ UNCHANGED <<setting, work, cluster, pod, edits>>
  BY DEF Heal, fixed
<1>2. PICK b \in evidence, a \in Proposals :
        \E p \in Validate(b, 3, a, setting.options) :
          Patch(b, p) \/ Restart(p) \/ CreatePVC(p)
  BY DEF Heal
<1>3. PICK p \in Validate(b, 3, a, setting.options) :
        Patch(b, p) \/ Restart(p) \/ CreatePVC(p)
  BY <1>2
<1>4. heals' \in 0 .. MaxHeals
  <2>1. MaxHeals \in Nat /\ heals \in 0 .. MaxHeals /\ heals < MaxHeals
    BY RemediesAssumption DEF Numbered
  <2> QED BY <1>1, <2>1
<1>5. work \in Workloads
  BY DEF IInv, Shapes
<1>6. /\ DOMAIN claims' = DOMAIN work.claims
      /\ \A c \in DOMAIN claims' : claims'[c] \in {"missing", "Pending", "Bound"}
  <2>1. CASE UNCHANGED claims
    BY <2>1 DEF Numbered
  <2>2. CASE CreatePVC(p) /\ ~UNCHANGED claims
    <3>1. claims' = [c \in DOMAIN claims |-> IF c \in p.claim THEN "Pending" ELSE claims[c]]
      BY <2>2 DEF CreatePVC
    <3> QED BY <3>1 DEF Numbered
  <2> QED BY <1>3, <2>1, <2>2 DEF Patch, Restart
<1>7. Numbers(template') \subseteq Nat /\ \A rec \in record' : Numbers(rec.old) \subseteq Nat
  <2>1. CASE Restart(p) \/ CreatePVC(p)
    BY <2>1 DEF Restart, CreatePVC, Numbered
  <2>2. CASE Patch(b, p)
    <3>1. /\ DOMAIN p.change # {} /\ template' \in {template, Patched(p.change)}
          /\ record' \in {record, {RecordFromPlan(b, p)}}
      BY <2>2 DEF Patch
    <3>2. Numbers(Patched(p.change)) \subseteq Nat
      BY <1>5, PlanNumbers, MergeNumbers DEF Patched, Numbered
    <3>3. p.container \in DOMAIN b.containers \/ Replicas \in DOMAIN p.change
      BY <3>1, PlanFacts
    <3>4. Numbers(RecordFromPlan(b, p).old) \subseteq Nat
      BY <3>3, RecordNumbers
    <3> QED BY <3>1, <3>2, <3>4 DEF Numbered
  <2> QED BY <1>3, <2>1, <2>2
<1> QED BY <1>1, <1>4, <1>6, <1>7 DEF Numbered

\* A rollback sets the numbers of the record.
LEMMA RollbackNumbered == Numbered /\ Rollback => Numbered'
<1> SUFFICES ASSUME Numbered, Rollback PROVE Numbered'
  OBVIOUS
<1>1. PICK rec \in record : template' = Patched(rec.old)
  BY DEF Rollback
<1>2. record' = {} /\ UNCHANGED <<setting, work, cluster, pod, claims, evidence, heals, edits>>
  BY DEF Rollback, fixed
<1>3. Numbers(template') \subseteq Nat
  BY <1>1, MergeNumbers DEF Numbered, Patched
<1>4. \A b \in evidence' : Measured(b)'
  BY <1>2 DEF Numbered, Measured, Shape
<1> QED BY <1>2, <1>3, <1>4 DEF Numbered

\* Others edit numbers, too, and the claims that a pod waits for move on.
LEMMA OthersNumbered ==
  Numbered /\ (Edit \/ Rollout \/ ClaimMoves \/ Decline \/ Verified \/ UNCHANGED vars) => Numbered'
<1> SUFFICES ASSUME Numbered, Edit \/ Rollout \/ ClaimMoves \/ Decline \/ Verified \/ UNCHANGED vars
             PROVE  Numbered'
  OBVIOUS
<1>1. /\ UNCHANGED <<setting, work, cluster, heals>>
      /\ evidence' \in {evidence, {}} /\ record' \in {record, {}}
  BY DEF Edit, Rollout, ClaimMoves, Decline, Verified, vars, fixed
<1>2. \A b \in evidence' : Measured(b)'
  BY <1>1 DEF Numbered, Measured, Shape
<1>3. edits' \in 0 .. MaxEdits
  <2>1. edits \in 0 .. MaxEdits /\ MaxEdits \in Nat
    BY RemediesAssumption DEF Numbered
  <2>2. \/ edits' = edits
        \/ edits < MaxEdits /\ edits' = edits + 1
    BY DEF Edit, Rollout, ClaimMoves, Decline, Verified, vars
  <2> QED BY <2>1, <2>2
<1>4. Numbers(template') \subseteq Nat /\ Numbers(pod') \subseteq Nat
  <2>1. CASE Edit
    <3>1. PICK e \in Edits : template' = Merge(e, template)
      BY <2>1 DEF Edit
    <3>2. Numbers(e) \subseteq Nat
      BY RemediesAssumption
    <3> QED BY <2>1, <3>1, <3>2, MergeNumbers DEF Edit, Numbered
  <2>2. CASE ~Edit
    BY <2>2 DEF Rollout, ClaimMoves, Decline, Verified, vars, Numbered
  <2> QED BY <2>1, <2>2
<1>5. /\ DOMAIN claims' = DOMAIN work.claims
      /\ \A c \in DOMAIN claims' : claims'[c] \in {"missing", "Pending", "Bound"}
  <2>1. CASE ClaimMoves
    <3>1. PICK c \in DOMAIN claims : \/ claims' = [claims EXCEPT ![c] = "Pending"]
                                     \/ claims' = [claims EXCEPT ![c] = "Bound"]
      BY <2>1 DEF ClaimMoves
    <3> QED BY <3>1 DEF Numbered
  <2>2. CASE ~ClaimMoves
    <3>1. UNCHANGED claims
      BY <2>2 DEF Edit, Rollout, Decline, Verified, vars
    <3> QED BY <3>1 DEF Numbered
  <2> QED BY <2>1, <2>2
<1> QED BY <1>1, <1>2, <1>3, <1>4, <1>5 DEF Numbered

\* So they are numbers throughout.
LEMMA NumberedHolds == Spec => []Numbered
<1>1. IInv /\ Numbered /\ [Next]_vars => Numbered'
  BY CollectNumbered, HealNumbered, RollbackNumbered, OthersNumbered DEF Next
<1> QED BY <1>1, InitNumbered, Invariance, PTL DEF Spec

\* A set with at most one member has at most that many.
LEMMA AtMostOne ==
  ASSUME NEW S, \A x, y \in S : x = y
  PROVE  Cardinality(S) <= 1
<1>1. CASE S = {}
  BY <1>1, FS_EmptySet
<1>2. CASE S # {}
  <2>1. PICK x \in S : TRUE
    BY <1>2
  <2>2. S = {x}
    BY <2>1
  <2>3. Cardinality({x}) = 1
    BY FS_Singleton
  <2> QED BY <2>2, <2>3
<1> QED BY <1>1, <1>2

\* Every variable keeps its type: whatever is proposed, patches set fields the template
\* has, and to whole numbers (validate.go).
THEOREM RemediesTypeCorrect == Spec => []TypeOK
<1>1. IInv /\ Numbered => TypeOK
  BY AtMostOne DEF IInv, Shapes, Numbered, TypeOK
<1> QED BY <1>1, Invariance, NumberedHolds, PTL

-----------------------------------------------------------------------------
\* Room for what a heal raises.

\* Where one more pod fits, a node has room for it and for anything smaller.
LEMMA FitsHasRoom ==
  ASSUME NEW s, Snapshot(s), NEW req, Demand(req), NEW less, Demand(less),
         \A r \in Resource : less[r] <= req[r],
         Fits(s, req)
  PROVE  HasRoom(s, less)
<1> DEFINE f == [n \in Schedulable(s) |-> FitOn(s, n, req)]
<1>1. Natural(f) /\ Total(f) > 0
  BY FitAdditionalFacts DEF Fits
<1>2. PICK n \in DOMAIN f : f[n] >= 1
  <2> HIDE DEF f
  <2> QED BY <1>1, SomePositive
<1>3. n \in DOMAIN s.nodes /\ s.nodes[n].schedulable /\ FitOn(s, n, req) >= 1
  BY <1>2 DEF Schedulable
<1>4. Reserve(s) = Least(s.reserve, 90)
  BY DEF Snapshot, Reserve, Least
<1> DEFINE kept(d) == (s.nodes[n].alloc[d] * Least(s.reserve, 90)) \div 100
<1>5. /\ s.nodes[n].used["pods"] + 1 + kept("pods") <= s.nodes[n].alloc["pods"]
      /\ \A r \in Resource : req[r] > 0 =>
           s.nodes[n].used[r] + 1 * req[r] + kept(r) <= s.nodes[n].alloc[r]
  <2>1. 1 \in Nat /\ 1 >= 1
    OBVIOUS
  <2> QED BY <1>3, <1>4, <2>1, FitOnFacts
<1>6. ASSUME NEW r \in Resource, less[r] > 0
      PROVE  s.nodes[n].used[r] + less[r] + kept(r) <= s.nodes[n].alloc[r]
  <2>1. /\ s.nodes[n].used[r] \in Nat /\ s.nodes[n].alloc[r] \in Nat /\ kept(r) \in Nat
    BY <1>3, <1>4, HeadroomFacts DEF Dimension
  <2>2. less[r] \in Nat /\ req[r] \in Nat /\ less[r] <= req[r]
    BY DEF Demand
  <2> HIDE DEF kept
  <2>3. s.nodes[n].used[r] + 1 * req[r] + kept(r) <= s.nodes[n].alloc[r]
    BY <1>5, <1>6, <2>2
  <2> QED BY <2>1, <2>2, <2>3
<1> QED BY <1>3, <1>5, <1>6 DEF HasRoom

\* A heal that changes a request was accepted as a change of resources.
LEMMA RequestsByPatch ==
  ASSUME NEW b, NEW a, NEW o, NEW p \in Validate(b, 3, a, o),
         NEW k \in DOMAIN p.change, k[1] = "requests"
  PROVE  p \in ValidatePatch(b, a, o)
<1>1. k # Image /\ k # Replicas /\ k \notin ProbeKey
  BY DEF Image, Replicas, ProbeKey, ProbeType
<1>2. p \notin ValidatePatchImage(b, a)
  <2> SUFFICES ASSUME p \in ValidatePatchImage(b, a) PROVE FALSE
    OBVIOUS
  <2>1. DOMAIN p.change = {Image}
    BY DEF ValidatePatchImage, Accept
  <2> QED BY <1>1, <2>1
<1>3. p \notin ValidatePatchProbe(b, a, o)
  <2> SUFFICES ASSUME p \in ValidatePatchProbe(b, a, o) PROVE FALSE
    OBVIOUS
  <2>1. DOMAIN p.change \subseteq ProbeKey
    BY DEF ValidatePatchProbe, Accept, Proposed
  <2> QED BY <1>1, <2>1
<1>4. p \notin ValidateScaleReplicas(b, a, o)
  <2> SUFFICES ASSUME p \in ValidateScaleReplicas(b, a, o) PROVE FALSE
    OBVIOUS
  <2>1. DOMAIN p.change = {Replicas}
    BY DEF ValidateScaleReplicas, Accept
  <2> QED BY <1>1, <2>1
<1>5. p \notin ValidateCreatePVC(b, a, o) /\ p \notin ValidateRestart(b, a)
  <2> SUFFICES ASSUME p \in ValidateCreatePVC(b, a, o) \/ p \in ValidateRestart(b, a) PROVE FALSE
    OBVIOUS
  <2>1. p.change = <<>>
    BY DEF ValidateCreatePVC, ValidateRestart, Accept
  <2>2. DOMAIN p.change = {}
    BY <2>1
  <2> QED BY <2>2
<1>6. \/ p \in ValidatePatch(b, a, o) \/ p \in ValidatePatchImage(b, a)
      \/ p \in ValidatePatchProbe(b, a, o) \/ p \in ValidateScaleReplicas(b, a, o)
      \/ p \in ValidateCreatePVC(b, a, o) \/ p \in ValidateRestart(b, a)
  BY DEF Validate
<1> QED BY <1>2, <1>3, <1>4, <1>5, <1>6

\* The pod of the patched template reserves no more than the validator projected.
LEMMA ProjectedCovers ==
  ASSUME IInv, Numbered, NEW b \in evidence, b.containers["app"] = template,
         NEW a \in Proposals, NEW p \in Validate(b, 3, a, setting.options),
         p \in ValidatePatch(b, a, setting.options), NEW r \in Resource
  PROVE  LET keys == {k \in Proposed(a, ResourceKey) : k[1] = "requests"}
             more == ProjectedPodRequests(b, b.containers[Target(b, a)], a, keys)
             patched == Patched(p.change)
         IN /\ PodRequests(Shape(patched), r) \in Nat /\ more[r] \in Nat
            /\ PodRequests(Shape(patched), r) <= more[r]
<1> DEFINE keys == {k \in Proposed(a, ResourceKey) : k[1] = "requests"}
           cur == b.containers[Target(b, a)]
           more == ProjectedPodRequests(b, cur, a, keys)
           patched == Patched(p.change)
           key == <<"requests", r>>
           d == IF key \in keys THEN a.want[key] - Value(cur, key) ELSE 0
           o == setting.options
<1>1. Measured(b) /\ work \in Workloads /\ DOMAIN template = DOMAIN work.template
  BY DEF Numbered, IInv, Shapes
<1>2. /\ Known(b, a) /\ p.change = [k \in Proposed(a, ResourceKey) |-> a.want[k]]
      /\ \A k \in Proposed(a, ResourceKey) :
           BoundedIncrease(Value(cur, k), a.want[k], o.cap[k[2]], o.multiplier)
  BY DEF ValidatePatch, Accept
<1>3. cur = template
  BY <1>1, <1>2 DEF Measured, Known
<1>4. Numbers(template) \subseteq Nat /\ Numbers(patched) \subseteq Nat
  BY <1>1, PlanNumbers, MergeNumbers DEF Numbered, Patched
<1>5. key # Image /\ key \in DOMAIN template /\ Value(template, key) \in Nat
  <2>1. key \in ResourceKey
    BY DEF ResourceKey
  <2>2. key \in DOMAIN template
    BY <1>1, <2>1, RemediesAssumption
  <2> QED BY <1>4, <2>2, RequestKeys, ValueFacts
<1>6. key \in keys <=> key \in DOMAIN p.change
  BY <1>2
<1>7. key \in keys =>
        /\ a.want[key] \in Nat /\ a.want[key] >= Value(template, key)
        /\ patched[key] = a.want[key]
  <2> HAVE key \in keys
  <2>1. a.want[key] \in Int /\ a.want[key] > 0 /\ a.want[key] >= Value(template, key)
    <3>1. BoundedIncrease(Value(template, key), a.want[key], o.cap[key[2]], o.multiplier)
      BY <1>2, <1>3
    <3>2. key \in DOMAIN a.want \ {Image}
      BY <1>5 DEF Proposed
    <3>3. a.want[key] \in Int
      BY <3>2, RemediesAssumption DEF Numbers
    <3>4. a.want[key] > 0 /\ (Value(template, key) > 0 => a.want[key] >= Value(template, key))
      BY <3>1 DEF BoundedIncrease
    <3> HIDE DEF key
    <3> QED BY <1>5, <3>3, <3>4
  <2>2. patched[key] = a.want[key]
    <3>1. key \in DOMAIN p.change /\ p.change[key] = a.want[key]
      BY <1>2
    <3> QED BY <3>1, PatchedFacts
  <2> QED BY <2>1, <2>2
<1>8. key \notin keys => patched[key] = template[key]
  BY <1>5, <1>6, PatchedFacts
<1>9. key \in DOMAIN patched /\ Value(patched, key) \in Nat /\ Value(patched, key) = patched[key]
      /\ Value(template, key) = template[key]
  <2>1. key \in DOMAIN patched
    <3>1. DOMAIN patched = DOMAIN p.change \cup DOMAIN template
      BY PatchedFacts
    <3> HIDE DEF key, patched
    <3> QED BY <1>5, <3>1
  <2> HIDE DEF key, patched
  <2>2. /\ Value(patched, key) \in Nat
        /\ key \in DOMAIN patched => Value(patched, key) = patched[key]
    BY <1>4, <1>5, ValueFacts
  <2>3. key \in DOMAIN template => Value(template, key) = template[key]
    BY <1>4, <1>5, ValueFacts
  <2> QED BY <1>5, <2>1, <2>2, <2>3
<1> HIDE DEF keys, cur, patched, key
<1>10. d \in Nat /\ Value(patched, key) <= Value(template, key) + d
  BY <1>3, <1>5, <1>7, <1>8, <1>9
<1>11. /\ Containers(Shape(template)) /\ Containers(Shape(patched))
       /\ Shape(template).main[1][r] = Value(template, key) /\ Shape(patched).main[1][r] = Value(patched, key)
       /\ Shape(patched).main[2] = Shape(template).main[2] /\ Shape(patched).init = Shape(template).init
       /\ Shape(patched).overhead = Shape(template).overhead
  BY <1>1, <1>4, ShapeFacts DEF key
<1>12. more[r] = PodRequests(Shape(template), r) + d
  <2>1. more[r] = b.podRequests[r] + d
    BY DEF ProjectedPodRequests, key
  <2> QED BY <1>1, <2>1 DEF Measured
<1> HIDE DEF d, more
<1>13. /\ PodRequests(Shape(patched), r) <= PodRequests(Shape(template), r) + d
       /\ PodRequests(Shape(patched), r) \in Nat /\ PodRequests(Shape(template), r) \in Nat
  BY <1>10, <1>11, PodRequestsGrow, PodRequestsNat
<1> QED BY <1>10, <1>12, <1>13 DEF more, keys, cur, patched

\* When a heal raises requests and the nodes were readable, a node has room for the
\* whole pod that the new template makes, for any sidecars, init containers, nodes,
\* reserve and proposals (validate.go schedulable, projectedPodRequests).
THEOREM RaisesFit == Spec => RaisedPodFits
<1> DEFINE A == \A b \in evidence :
      /\ b.containers["app"] = template /\ b.capacity # {}
      /\ \E k \in DOMAIN template : k[1] = "requests" /\ template'[k] # template[k]
      /\ heals' # heals
      => HasRoom(cluster, [r \in Resource |-> PodRequests(Shape(template'), r)])
<1>1. IInv /\ Numbered /\ [Next]_vars => [A]_vars
  <2> SUFFICES ASSUME IInv, Numbered, Next, NEW b \in evidence,
                      b.containers["app"] = template, b.capacity # {},
                      NEW k \in DOMAIN template, k[1] = "requests", template'[k] # template[k],
                      heals' # heals
               PROVE  HasRoom(cluster, [r \in Resource |-> PodRequests(Shape(template'), r)])
    BY DEF vars
  <2> DEFINE o == setting.options
  <2>1. Heal
    BY DEF Next, Edit, Rollout, ClaimMoves, Collect, Decline, Verified, Rollback
  <2>2. PICK c \in evidence, a \in Proposals :
          \E p \in Validate(c, 3, a, setting.options) :
            Patch(c, p) \/ Restart(p) \/ CreatePVC(p)
    BY <2>1 DEF Heal
  <2>3. c = b
    BY DEF Numbered
  <2>4. PICK p \in Validate(b, 3, a, o) : Patch(b, p) \/ Restart(p) \/ CreatePVC(p)
    BY <2>2, <2>3
  <2>5. template' = Patched(p.change)
    BY <2>4 DEF Patch, Restart, CreatePVC
  <2>6. k \in DOMAIN p.change
    <3>1. k \notin DOMAIN p.change => Patched(p.change)[k] = template[k]
      BY PatchedFacts
    <3> QED BY <2>5, <3>1
  <2>7. p \in ValidatePatch(b, a, o)
    BY <2>6, RequestsByPatch
  <2> DEFINE keys == {x \in Proposed(a, ResourceKey) : x[1] = "requests"}
             cur == b.containers[Target(b, a)]
             more == ProjectedPodRequests(b, cur, a, keys)
             less == [r \in Resource |-> PodRequests(Shape(template'), r)]
  <2>8. k \in keys /\ RoomFor(b, cur, a, keys)
    BY <2>6, <2>7 DEF ValidatePatch, Accept
  <2>9. b.capacity = {cluster} /\ Snapshot(cluster)
    BY RemediesAssumption DEF Numbered, Measured, Snapshot, NodeSet
  <2>10. Fits(cluster, more)
    BY <2>8, <2>9 DEF RoomFor
  <2>11. ASSUME NEW r \in Resource
         PROVE  PodRequests(Shape(template'), r) \in Nat /\ more[r] \in Nat
                /\ PodRequests(Shape(template'), r) <= more[r]
    <3> HIDE DEF more
    <3>1. /\ PodRequests(Shape(Patched(p.change)), r) \in Nat /\ more[r] \in Nat
          /\ PodRequests(Shape(Patched(p.change)), r) <= more[r]
      BY <2>7, ProjectedCovers DEF more
    <3> QED BY <2>5, <3>1
  <2>12. Demand(more) /\ Demand(less) /\ \A r \in Resource : less[r] <= more[r]
    <3> HIDE DEF more
    <3> QED BY <2>11 DEF Demand
  <2> HIDE DEF more, less
  <2>13. HasRoom(cluster, less)
    BY <2>9, <2>10, <2>12, FitsHasRoom
  <2> QED BY <2>13 DEF less
<1> HIDE DEF A
<1>2. Spec => [][A]_vars
  BY <1>1, Invariance, NumberedHolds, PTL DEF Spec
<1> QED BY <1>2 DEF A, RaisedPodFits
=============================================================================
