---------------------------- MODULE BreakerProofs ----------------------------
(***************************************************************************)
(* What the circuit breaker promises for every workload set, handler pool, *)
(* window, limit and horizon.  The inductive invariant is IInv: its        *)
(* StragglersFit says that while a breaker is open, the heals that landed  *)
(* on it and the ones still in flight for it never add up to the whole     *)
(* handler pool, because the handler that tripped it is in neither set and *)
(* nobody joins either set from outside.                                   *)
(*                                                                         *)
(* The rate of heals needs Paced as well, which says for every window that *)
(* ends now or later how many heals it holds beyond those that the breaker *)
(* remembers: while it is closed, at most the stragglers of the last trip. *)
(***************************************************************************)
EXTENDS Breaker, FiniteSetTheorems, TLAPS

Inflight(k) == {h \in Handler : inflight[h] = k}

StragglersFit ==
  \A k \in Key :
    /\ late[k] < Cardinality(Handler)
    /\ IsOpen(st[k], now) =>
         late[k] + Cardinality(Inflight(k)) < Cardinality(Handler)

IInv == TypeOK /\ TripIffLimit /\ StragglersFit

-----------------------------------------------------------------------------
\* Facts about the operators.

\* Recording an event at an instant of the model keeps a count per instant.
LEMMA OccursType ==
  ASSUME NEW ts \in EventCount, NEW t \in Instants
  PROVE  Occurs(ts, t) \in EventCount
BY DEF Occurs, EventCount, Instants

\* Pruning keeps a count per instant.
LEMMA AfterType ==
  ASSUME NEW ts \in EventCount, NEW cutoff \in Int
  PROVE  After(ts, cutoff) \in EventCount
BY DEF After, EventCount, Instants

\* A fresh breaker is a breaker state.
LEMMA FreshType == Fresh \in BreakerState
BY DEF Fresh, NoEvents, BreakerState, EventCount, Instants

\* Record keeps a breaker state a breaker state.
LEMMA RecordType ==
  ASSUME NEW s \in BreakerState, NEW t \in Instants, NEW rollback \in BOOLEAN
  PROVE  Record(s, t, rollback) \in BreakerState
<1> DEFINE seen   == Past(s)
           rbs    == IF rollback THEN Occurs(seen.rollbacks, t) ELSE seen.rollbacks
           heals  == IF rollback THEN seen.heals ELSE Occurs(seen.heals, t)
           pruned == [heals     |-> After(heals, t - Window),
                      rollbacks |-> After(rbs, t - Window),
                      openUntil |-> 0]
<1>1. seen \in BreakerState
  BY FreshType DEF Past
<1>2. seen.heals \in EventCount /\ seen.rollbacks \in EventCount
  BY <1>1 DEF BreakerState
<1>3. rbs \in EventCount /\ heals \in EventCount
  BY <1>2, OccursType
<1>4. t - Window \in Int /\ t + OpenFor \in Nat
  BY BreakerAssumption DEF Instants
<1>5. pruned \in BreakerState
  <2> HIDE DEF rbs, heals
  <2> QED BY <1>3, <1>4, AfterType DEF BreakerState
<1>6. [pruned EXCEPT !.openUntil = t + OpenFor] \in BreakerState
  BY <1>4, <1>5 DEF BreakerState
<1> QED BY <1>5, <1>6 DEF Record

\* An event recorded on a breaker that is not open leaves it open for OpenFor
\* exactly when what it now holds reached a limit.
LEMMA RecordTrips ==
  ASSUME NEW s \in BreakerState, NEW t \in Instants, NEW rollback \in BOOLEAN,
         ~IsOpen(s, t)
  PROVE  LET r == Record(s, t, rollback)
         IN  /\ r.openUntil = IF Tripped(r) THEN t + OpenFor ELSE 0
             /\ t + OpenFor # 0
<1>1. t + OpenFor # 0
  BY BreakerAssumption DEF Instants
<1> QED BY <1>1 DEF Record, Tripped

\* A history without events has size zero.
LEMMA NoEventsSize == Size(NoEvents) = 0
<1>1. Events(NoEvents) = {}
  BY DEF Events, NoEvents
<1> QED BY <1>1, FS_EmptySet DEF Size

\* Pruning a history without events leaves it without events.
LEMMA AfterNoEvents ==
  ASSUME NEW cutoff \in Int
  PROVE  After(NoEvents, cutoff) = NoEvents
BY DEF After, NoEvents

\* One event recorded on an empty history and pruned is at most one event.
LEMMA OneEventSize ==
  ASSUME NEW t \in Instants, NEW cutoff \in Int
  PROVE  Size(After(Occurs(NoEvents, t), cutoff)) \in 0 .. 1
<1> DEFINE ts == After(Occurs(NoEvents, t), cutoff)
<1>1. ASSUME NEW u \in Instants
      PROVE  ts[u] = IF u = t /\ u > cutoff THEN 1 ELSE 0
  BY DEF After, Occurs, NoEvents
<1> HIDE DEF ts
<1>2. Events(ts) \in SUBSET {<<t, 1>>}
  <2> SUFFICES ASSUME NEW u \in Instants, NEW i \in 1 .. ts[u]
               PROVE  <<u, i>> = <<t, 1>>
    BY DEF Events
  <2> QED BY <1>1
<1>3. Cardinality({<<t, 1>>}) = 1 /\ IsFiniteSet({<<t, 1>>})
  BY FS_Singleton
<1>4. IsFiniteSet(Events(ts)) /\ Cardinality(Events(ts)) <= 1
  BY <1>2, <1>3, FS_Subset
<1> QED BY <1>4, FS_CardinalityType DEF Size, ts

-----------------------------------------------------------------------------
\* The invariant.

\* The handler pool has a positive size, and so has no larger part.
LEMMA PoolSize ==
  /\ Cardinality(Handler) \in Nat \ {0}
  /\ \A k : /\ IsFiniteSet(Inflight(k))
            /\ Cardinality(Inflight(k)) \in Nat
            /\ Cardinality(Inflight(k)) <= Cardinality(Handler)
<1>1. IsFiniteSet(Handler) /\ Handler # {}
  BY BreakerAssumption
<1>2. Cardinality(Handler) \in Nat \ {0}
  BY <1>1, FS_EmptySet, FS_CardinalityType
<1>3. ASSUME NEW k
      PROVE  /\ IsFiniteSet(Inflight(k))
             /\ Cardinality(Inflight(k)) \in Nat
             /\ Cardinality(Inflight(k)) <= Cardinality(Handler)
  BY <1>1, FS_Subset, FS_CardinalityType DEF Inflight
<1> QED BY <1>2, <1>3

\* The inductive invariant holds at the start.
LEMMA InitIInv == Init => IInv
<1> SUFFICES ASSUME Init PROVE IInv
  OBVIOUS
<1>1. 1 \in Instants
  BY BreakerAssumption DEF Instants
<1>2. TypeOK
  BY <1>1, FreshType DEF Init, TypeOK, NoEvents, EventCount, Instants
<1>3. TripIffLimit
  BY NoEventsSize, BreakerAssumption DEF Init, TripIffLimit, Reached, Fresh
<1>4. StragglersFit
  BY PoolSize DEF Init, StragglersFit, IsOpen, Fresh
<1> QED BY <1>2, <1>3, <1>4 DEF IInv

\* No step changes a type.
LEMMA NextTypeOK == TypeOK /\ [Next]_vars => TypeOK'
<1> SUFFICES ASSUME TypeOK, [Next]_vars PROVE TypeOK'
  OBVIOUS
<1> USE DEF TypeOK
<1>1. ASSUME NEW h \in Handler, NEW k \in Key, Admit(h, k) PROVE TypeOK'
  BY <1>1, FreshType DEF Admit
<1>2. ASSUME NEW h \in Handler, Abandon(h) PROVE TypeOK'
  BY <1>2 DEF Abandon
<1>3. ASSUME NEW h \in Handler, OnHeal(h) PROVE TypeOK'
  <2> DEFINE k == inflight[h]
  <2>1. k \in Key
    BY <1>3 DEF OnHeal
  <2>2. Record(st[k], now, FALSE) \in BreakerState
    BY <2>1, RecordType
  <2>3. Occurs(landed[k], now) \in EventCount
    BY <2>1, OccursType
  <2>4. /\ now' = now
        /\ st' = [st EXCEPT ![k] = Record(st[k], now, FALSE)]
        /\ landed' = [landed EXCEPT ![k] = Occurs(landed[k], now)]
        /\ late' = [late EXCEPT ![k] = IF IsOpen(st[k], now) THEN late[k] + 1 ELSE 0]
        /\ inflight' = [inflight EXCEPT ![h] = NoKey]
    BY <1>3 DEF OnHeal
  <2> HIDE DEF k
  <2>5. (IF IsOpen(st[k], now) THEN late[k] + 1 ELSE 0) \in Nat
    BY <2>1
  <2>6. st' \in [Key -> BreakerState] /\ landed' \in [Key -> EventCount]
    BY <2>2, <2>3, <2>4
  <2>7. late' \in [Key -> Nat]
    BY <2>4, <2>5
  <2> QED BY <2>4, <2>6, <2>7
<1>4. ASSUME NEW k \in Key, OnRollback(k) PROVE TypeOK'
  <2>1. Record(st[k], now, TRUE) \in BreakerState
    BY RecordType
  <2> QED BY <1>4, <2>1 DEF OnRollback
<1>5. ASSUME Tick PROVE TypeOK'
  BY <1>5, BreakerAssumption DEF Tick, Instants
<1>6. ASSUME UNCHANGED vars PROVE TypeOK'
  BY <1>6 DEF vars
<1> QED BY <1>1, <1>2, <1>3, <1>4, <1>5, <1>6 DEF Next

\* TripIffLimit holds of a breaker state that Record has just written.
LEMMA RecordTripIffLimit ==
  ASSUME NEW s \in BreakerState, NEW t \in Instants, NEW rollback \in BOOLEAN,
         ~IsOpen(s, t)
  PROVE  LET r == Record(s, t, rollback)
         IN  r.openUntil # 0 <=> \/ Reached(Size(r.heals), MaxHeals)
                                 \/ Reached(Size(r.rollbacks), MaxRollbacks)
BY RecordTrips DEF Tripped, Reached

\* A fresh breaker has reached no limit.
LEMMA FreshBelowLimits ==
  /\ Fresh.openUntil = 0
  /\ ~Reached(Size(Fresh.heals), MaxHeals)
  /\ ~Reached(Size(Fresh.rollbacks), MaxRollbacks)
BY NoEventsSize, BreakerAssumption DEF Fresh, Reached

\* No step opens a breaker below its limits, or leaves one closed at them.
LEMMA NextTripIffLimit ==
  TypeOK /\ TripIffLimit /\ [Next]_vars => TripIffLimit'
<1> DEFINE Agrees(s) == s.openUntil # 0 <=> \/ Reached(Size(s.heals), MaxHeals)
                                            \/ Reached(Size(s.rollbacks), MaxRollbacks)
<1> SUFFICES ASSUME TypeOK, TripIffLimit, [Next]_vars, NEW k \in Key
             PROVE  Agrees(st'[k])
  BY DEF TripIffLimit
<1>1. Agrees(st[k]) /\ Agrees(Fresh)
  BY FreshBelowLimits DEF TripIffLimit
<1>2. ASSUME NEW rollback \in BOOLEAN
      PROVE  Agrees(Record(st[k], now, rollback))
  <2>1. st[k] \in BreakerState /\ now \in Instants
    BY DEF TypeOK
  <2>2. CASE IsOpen(st[k], now)
    BY <1>1, <2>2 DEF Record
  <2>3. CASE ~IsOpen(st[k], now)
    BY <2>1, <2>3, RecordTripIffLimit
  <2> QED BY <2>2, <2>3
<1> HIDE DEF Agrees
<1>3. ASSUME NEW h \in Handler, NEW j \in Key, Admit(h, j) PROVE Agrees(st'[k])
  BY <1>1, <1>3 DEF Admit, TypeOK
<1>4. ASSUME NEW h \in Handler, OnHeal(h) PROVE Agrees(st'[k])
  BY <1>1, <1>2, <1>4 DEF OnHeal, TypeOK
<1>5. ASSUME NEW j \in Key, OnRollback(j) PROVE Agrees(st'[k])
  BY <1>1, <1>2, <1>5 DEF OnRollback, TypeOK
<1>6. CASE UNCHANGED st
  BY <1>1, <1>6
<1> QED BY <1>3, <1>4, <1>5, <1>6 DEF Next, Abandon, Tick, vars

\* A handler that lets go of its heal leaves its workload's set and no other.
LEMMA ReleaseShrinks ==
  ASSUME TypeOK, NEW h \in Handler, inflight[h] # NoKey,
         inflight' = [inflight EXCEPT ![h] = NoKey], NEW k \in Key
  PROVE  /\ k = inflight[h] =>
              Cardinality(Inflight(k)') = Cardinality(Inflight(k)) - 1
         /\ k # inflight[h] => Inflight(k)' = Inflight(k)
<1>1. CASE k = inflight[h]
  <2>1. Inflight(k)' = Inflight(k) \ {h} /\ h \in Inflight(k)
    BY <1>1, BreakerAssumption DEF Inflight, TypeOK
  <2> QED BY <1>1, <2>1, PoolSize, FS_RemoveElement
<1>2. CASE k # inflight[h]
  BY <1>2, BreakerAssumption DEF Inflight, TypeOK
<1> QED BY <1>1, <1>2

\* No step makes more stragglers than there were handlers between asking and telling.
LEMMA NextStragglersFit ==
  TypeOK /\ StragglersFit /\ [Next]_vars => StragglersFit'
<1> DEFINE H == Cardinality(Handler)
           Fit(n, r, open) == n < H /\ (open => n + r < H)
<1> SUFFICES ASSUME TypeOK, StragglersFit, [Next]_vars, NEW k \in Key
             PROVE  Fit(late'[k], Cardinality(Inflight(k)'), IsOpen(st'[k], now'))
  BY DEF StragglersFit, IsOpen
<1> DEFINE c == Cardinality(Inflight(k))
           d == Cardinality(Inflight(k)')
<1>0. Fit(late[k], c, IsOpen(st[k], now))
  BY DEF StragglersFit
<1>1. /\ H \in Nat /\ H > 0 /\ c \in Nat /\ c <= H
      /\ late[k] \in Nat /\ now \in Nat /\ st[k].openUntil \in Nat
  BY PoolSize DEF TypeOK, BreakerState, Instants
<1>2. ASSUME NEW h \in Handler, NEW j \in Key, Admit(h, j)
      PROVE  Fit(late'[k], d, IsOpen(st'[k], now'))
  <2>1. CASE k = j
    BY <1>0, <1>1, <1>2, <2>1 DEF Admit, IsOpen, Fresh, TypeOK
  <2>2. CASE k # j
    <3>1. Inflight(k)' = Inflight(k)
      BY <1>2, <2>2, BreakerAssumption DEF Admit, Inflight, TypeOK
    <3> QED BY <1>0, <1>2, <2>2, <3>1 DEF Admit, IsOpen, TypeOK
  <2> QED BY <2>1, <2>2
<1>3. ASSUME NEW h \in Handler, Abandon(h)
      PROVE  Fit(late'[k], d, IsOpen(st'[k], now'))
  <2>1. d = c \/ d = c - 1
    BY <1>3, ReleaseShrinks DEF Abandon
  <2>2. late' = late /\ st' = st /\ now' = now
    BY <1>3 DEF Abandon
  <2> QED BY <1>0, <1>1, <2>1, <2>2
<1>4. ASSUME NEW h \in Handler, OnHeal(h)
      PROVE  Fit(late'[k], d, IsOpen(st'[k], now'))
  <2>1. CASE k = inflight[h]
    <3>1. d = c - 1
      BY <1>4, <2>1, ReleaseShrinks DEF OnHeal
    <3>2. late'[k] = IF IsOpen(st[k], now) THEN late[k] + 1 ELSE 0
      BY <1>4, <2>1 DEF OnHeal, TypeOK
    <3>3. IsOpen(st[k], now) => st'[k] = st[k]
      BY <1>4, <2>1 DEF OnHeal, TypeOK, Record
    <3>4. now' = now
      BY <1>4 DEF OnHeal
    <3>5. c > 0
      <4>1. h \in Inflight(k)
        BY <2>1 DEF Inflight
      <4> QED BY <4>1, PoolSize, FS_EmptySet
    <3>6. CASE IsOpen(st[k], now)
      BY <1>0, <1>1, <3>1, <3>2, <3>5, <3>6
    <3>7. CASE ~IsOpen(st[k], now)
      BY <1>1, <3>1, <3>2, <3>5, <3>7
    <3> QED BY <3>6, <3>7
  <2>2. CASE k # inflight[h]
    <3>1. Inflight(k)' = Inflight(k)
      BY <1>4, <2>2, ReleaseShrinks DEF OnHeal
    <3>2. late'[k] = late[k] /\ st'[k] = st[k] /\ now' = now
      BY <1>4, <2>2 DEF OnHeal, TypeOK
    <3> QED BY <1>0, <3>1, <3>2
  <2> QED BY <2>1, <2>2
<1>5. ASSUME NEW j \in Key, OnRollback(j)
      PROVE  Fit(late'[k], d, IsOpen(st'[k], now'))
  <2>1. Inflight(k) = {} /\ Inflight(k)' = {}
    BY <1>5, BreakerAssumption DEF OnRollback, Inflight
  <2>2. c = 0 /\ d = 0
    BY <2>1, FS_EmptySet
  <2>3. late'[k] \in {0, late[k]}
    BY <1>5 DEF OnRollback, TypeOK
  <2> QED BY <1>0, <1>1, <2>2, <2>3
<1>6. ASSUME Tick
      PROVE  Fit(late'[k], d, IsOpen(st'[k], now'))
  <2>1. late' = late /\ st' = st /\ now' = now + 1 /\ d = c
    BY <1>6 DEF Tick, Inflight
  <2>2. IsOpen(st'[k], now') => IsOpen(st[k], now)
    BY <1>1, <2>1 DEF IsOpen
  <2> QED BY <1>0, <2>1, <2>2
<1>7. CASE UNCHANGED vars
  BY <1>0, <1>7 DEF vars, Inflight
<1> QED BY <1>2, <1>3, <1>4, <1>5, <1>6, <1>7 DEF Next

\* Every step keeps the inductive invariant.
LEMMA NextIInv == IInv /\ [Next]_vars => IInv'
BY NextTypeOK, NextTripIffLimit, NextStragglersFit DEF IInv

\* The inductive invariant holds in every behaviour.
LEMMA Invariance == Spec => []IInv
<1>1. Init => IInv
  BY InitIInv
<1>2. IInv /\ [Next]_vars => IInv'
  BY NextIInv
<1> QED BY <1>1, <1>2, PTL DEF Spec

-----------------------------------------------------------------------------
\* The results.

\* The breaker's variables keep their types: pruning, resetting and tripping
\* never leave a malformed history or deadline (breaker.go, record and prune).
THEOREM TypeCorrect == Spec => []TypeOK
<1>1. IInv => TypeOK
  BY DEF IInv
<1> QED BY <1>1, Invariance, PTL

\* A breaker is open exactly when the history it holds reached a limit, for any
\* interleaving of heals, rollbacks and resets (breaker.go, record).
THEOREM OpenIffLimitReached == Spec => []TripIffLimit
<1>1. IInv => TripIffLimit
  BY DEF IInv
<1> QED BY <1>1, Invariance, PTL

\* Fewer heals land on an open breaker than there are handlers: asking Allowed
\* first and reporting OnHeal last, in separate critical sections, costs at
\* most the rest of the handler pool (agent.go, maybeHeal).
THEOREM FewStragglers == Spec => []StragglersBounded
<1>1. IInv => StragglersBounded
  BY DEF IInv, StragglersFit, StragglersBounded
<1> QED BY <1>1, Invariance, PTL

\* A fresh breaker, and a fresh one that recorded one event, hold one event at
\* most.
LEMMA CleanSlate ==
  ASSUME NEW s \in BreakerState, NEW t \in Instants, NEW rollback \in BOOLEAN,
         s.openUntil # 0, ~IsOpen(s, t)
  PROVE  LET r == Record(s, t, rollback)
         IN  Size(r.heals) + Size(r.rollbacks) <= 1
<1> DEFINE cut == t - Window
           one == After(Occurs(NoEvents, t), cut)
           r == Record(s, t, rollback)
<1>1. cut \in Int
  BY BreakerAssumption DEF Instants
<1>2. /\ r.heals = IF rollback THEN After(NoEvents, cut) ELSE one
      /\ r.rollbacks = IF rollback THEN one ELSE After(NoEvents, cut)
  BY DEF Record, Past, Fresh
<1>3. Size(After(NoEvents, cut)) = 0
  BY <1>1, AfterNoEvents, NoEventsSize
<1>4. Size(one) \in 0 .. 1
  BY <1>1, OneEventSize
<1> QED
  <2> HIDE DEF one, cut, r
  <2>1. Size(r.heals) + Size(r.rollbacks) <= 1
    BY <1>2, <1>3, <1>4
  <2> QED BY <2>1 DEF r

\* A tripped breaker is untouched until its deadline and starts clean after it:
\* neither a straggler's OnHeal nor a rollback can shorten or extend the
\* suspension (breaker.go, Allowed and record).
THEOREM SuspensionHolds == Spec => OpenUntilDeadline
<1> DEFINE Holds(k) ==
      st[k].openUntil # 0 /\ st'[k] # st[k] =>
        /\ now >= st[k].openUntil
        /\ Size(st'[k].heals) + Size(st'[k].rollbacks) <= 1
<1>1. ASSUME TypeOK, [Next]_vars, NEW k \in Key
      PROVE  Holds(k)
  <2> SUFFICES ASSUME st[k].openUntil # 0, st'[k] # st[k]
               PROVE  /\ now >= st[k].openUntil
                      /\ Size(st'[k].heals) + Size(st'[k].rollbacks) <= 1
    OBVIOUS
  <2>0. st[k] \in BreakerState /\ now \in Instants
    BY <1>1 DEF TypeOK
  <2>1. ~IsOpen(st[k], now) => now >= st[k].openUntil
    BY <2>0 DEF IsOpen, BreakerState, Instants
  <2>2. ASSUME NEW rollback \in BOOLEAN, st'[k] = Record(st[k], now, rollback)
        PROVE  ~IsOpen(st[k], now)
    BY <2>2 DEF Record
  <2>3. ASSUME NEW h \in Handler, NEW j \in Key, Admit(h, j)
        PROVE  ~IsOpen(st[k], now) /\ st'[k] = Fresh
    BY <1>1, <2>3 DEF Admit, TypeOK
  <2>4. ASSUME NEW h \in Handler, OnHeal(h)
        PROVE  st'[k] = Record(st[k], now, FALSE)
    BY <1>1, <2>4 DEF OnHeal, TypeOK
  <2>5. ASSUME NEW j \in Key, OnRollback(j)
        PROVE  st'[k] = Record(st[k], now, TRUE)
    BY <1>1, <2>5 DEF OnRollback, TypeOK
  <2>6. CASE \E h \in Handler, j \in Key : Admit(h, j)
    <3>1. Size(Fresh.heals) + Size(Fresh.rollbacks) = 0
      BY NoEventsSize DEF Fresh
    <3> QED BY <2>1, <2>3, <2>6, <3>1
  <2>7. CASE \E rollback \in BOOLEAN : st'[k] = Record(st[k], now, rollback)
    BY <2>0, <2>1, <2>2, <2>7, CleanSlate
  <2> QED BY <1>1, <2>4, <2>5, <2>6, <2>7 DEF Next, Abandon, Tick, vars
<1>2. TypeOK /\ [Next]_vars => [\A k \in Key : Holds(k)]_vars
  BY <1>1
<1> QED BY <1>2, TypeCorrect, PTL DEF Spec, OpenUntilDeadline

-----------------------------------------------------------------------------
\* The rate of heals.

\* A history is finite, and one that holds no more at any instant is no larger.
LEMMA SizeFacts ==
  ASSUME NEW ts \in EventCount
  PROVE  /\ IsFiniteSet(Events(ts)) /\ Size(ts) \in Nat
         /\ \A fewer \in EventCount :
              (\A u \in Instants : fewer[u] <= ts[u]) => Size(fewer) <= Size(ts)
<1> DEFINE Of == [u \in Instants |-> {u} \X (1 .. ts[u])]
           All == {Of[u] : u \in Instants}
<1>1. IsFiniteSet(Instants)
  BY BreakerAssumption, FS_Interval DEF Instants
<1>2. IsFiniteSet(All)
  <2>1. DOMAIN Of = Instants /\ Of = [u \in Instants |-> Of[u]]
    OBVIOUS
  <2> HIDE DEF Of
  <2>2. Of \in [Instants -> All]
    BY <2>1
  <2>3. Of \in Surjection(Instants, All)
    BY <2>2 DEF Surjection
  <2> QED BY <1>1, <2>3, FS_Surjection
<1>3. ASSUME NEW u \in Instants PROVE IsFiniteSet(Of[u])
  <2>1. 1 \in Int /\ ts[u] \in Int
    BY DEF EventCount
  <2>2. IsFiniteSet(1 .. ts[u])
    BY <2>1, FS_Interval
  <2>3. IsFiniteSet({u})
    BY FS_Singleton
  <2>4. Of[u] = {u} \X (1 .. ts[u])
    OBVIOUS
  <2>5. IsFiniteSet({u} \X (1 .. ts[u]))
    BY <2>2, <2>3, FS_Product
  <2> HIDE DEF Of
  <2> QED BY <2>4, <2>5
<1>4. IsFiniteSet(UNION All)
  BY <1>2, <1>3, FS_UNION
<1>5. UNION All = Events(ts)
  BY DEF Events
<1>6. IsFiniteSet(Events(ts)) /\ Size(ts) \in Nat
  BY <1>4, <1>5, FS_CardinalityType DEF Size
<1>7. ASSUME NEW fewer \in EventCount, \A u \in Instants : fewer[u] <= ts[u]
      PROVE  Size(fewer) <= Size(ts)
  <2>1. \A u \in Instants : 1 .. fewer[u] \subseteq 1 .. ts[u]
    BY <1>7 DEF EventCount
  <2>2. Events(fewer) \subseteq Events(ts)
    BY <2>1 DEF Events
  <2> QED BY <1>6, <2>2, FS_Subset DEF Size
<1> QED BY <1>6, <1>7

\* Another event makes a history larger by one.
LEMMA OccursSize ==
  ASSUME NEW ts \in EventCount, NEW t \in Instants
  PROVE  Size(Occurs(ts, t)) = Size(ts) + 1
<1> DEFINE e == <<t, ts[t] + 1>>
           more == Occurs(ts, t)
<1>1. /\ ts[t] \in Nat /\ more[t] = ts[t] + 1
      /\ \A u \in Instants : u # t => more[u] = ts[u]
  BY DEF Occurs, EventCount
<1>2. 1 .. more[t] = (1 .. ts[t]) \cup {ts[t] + 1}
  BY <1>1
<1> HIDE DEF more
<1>3. Events(more) = Events(ts) \cup {e}
  <2>1. ASSUME NEW x \in Events(more) PROVE x \in Events(ts) \cup {e}
    BY <2>1, <1>1, <1>2 DEF Events
  <2>2. ASSUME NEW x \in Events(ts) \cup {e} PROVE x \in Events(more)
    BY <2>2, <1>1, <1>2 DEF Events
  <2> QED BY <2>1, <2>2
<1>4. e \notin Events(ts)
  BY <1>1 DEF Events
<1> QED BY <1>3, <1>4, SizeFacts, FS_AddElement DEF Size, more

\* The events of a window that ends at t, and the handlers but one.
During(ld, t) == [u \in Instants |-> IF t - Window < u /\ u <= t THEN ld[u] ELSE 0]
Seen(ld, t) == Size(During(ld, t))
Others == Cardinality(Handler) - 1

\* At most Others of the heals in a window that ends now or later are not among
\* those remembered.
Covered(hs, ld, now0) ==
  \A t \in Instants : t >= now0 => Seen(ld, t) <= Size(After(hs, t - Window)) + Others

\* An open breaker was opened by MaxHeals heals at most, and by its deadline only
\* the stragglers are recent.
Suspended(s, ld, n, now0) ==
  \A t \in Instants : t >= now0 =>
    /\ Seen(ld, t) <= MaxHeals + Others + n
    /\ t >= s.openUntil => Seen(ld, t) <= n

\* Nothing has landed in the future.
Landed(ld, now0) == \A u \in Instants : u > now0 => ld[u] = 0

Paced(k) ==
  /\ Landed(landed[k], now)
  /\ st[k].openUntil = 0 => Covered(st[k].heals, landed[k], now)
  /\ st[k].openUntil # 0 => Suspended(st[k], landed[k], late[k], now)
  /\ \A t \in Instants : Seen(landed[k], t) <= MaxHeals + 2 * Others

Bounding == MaxHeals > 0 /\ OpenFor >= Window

\* Sizes are numbers.
LEMMA SeenType ==
  ASSUME NEW ld \in EventCount, NEW t \in Instants
  PROVE  /\ During(ld, t) \in EventCount /\ Seen(ld, t) \in Nat
         /\ After(ld, t - Window) \in EventCount /\ Size(After(ld, t - Window)) \in Nat
         /\ Size(After(ld, t - Window)) <= Size(ld)
<1>1. t - Window \in Int
  BY BreakerAssumption DEF Instants
<1>2. During(ld, t) \in EventCount
  BY DEF During, EventCount
<1>3. After(ld, t - Window) \in EventCount
  BY <1>1, AfterType
<1>4. \A u \in Instants : After(ld, t - Window)[u] <= ld[u]
  BY DEF After, EventCount
<1> QED BY <1>2, <1>3, <1>4, SizeFacts DEF Seen

\* A heal that lands now is in every window that ends now or later and began
\* before, and in no other.
LEMMA SeenOccurs ==
  ASSUME NEW ld \in EventCount, NEW n \in Instants, NEW t \in Instants
  PROVE  Seen(Occurs(ld, n), t) =
           IF t - Window < n /\ n <= t THEN Seen(ld, t) + 1 ELSE Seen(ld, t)
<1>1. /\ Occurs(ld, n) \in EventCount
      /\ \A u \in Instants : Occurs(ld, n)[u] = IF u = n THEN ld[u] + 1 ELSE ld[u]
  BY OccursType DEF Occurs, EventCount
<1>2. CASE t - Window < n /\ n <= t
  <2>1. During(Occurs(ld, n), t) = Occurs(During(ld, t), n)
    BY <1>1, <1>2 DEF During, Occurs
  <2> QED BY <1>2, <2>1, SeenType, OccursSize DEF Seen
<1>3. CASE ~(t - Window < n /\ n <= t)
  <2>1. During(Occurs(ld, n), t) = During(ld, t)
    BY <1>1, <1>3 DEF During
  <2> QED BY <1>3, <2>1 DEF Seen
<1> QED BY <1>2, <1>3

\* And it is remembered after every cutoff it is later than; pruning to the
\* present window forgets nothing of those that end later.
LEMMA RememberedOccurs ==
  ASSUME NEW hs \in EventCount, NEW n \in Instants, NEW t \in Instants, t >= n
  PROVE  /\ After(After(hs, n - Window), t - Window) = After(hs, t - Window)
         /\ Size(After(After(Occurs(hs, n), n - Window), t - Window)) =
              IF t - Window < n THEN Size(After(hs, t - Window)) + 1
                                ELSE Size(After(hs, t - Window))
<1>1. /\ n \in Int /\ t \in Int /\ Window \in Nat
      /\ \A u \in Instants : u \in Int
  BY BreakerAssumption DEF Instants
<1>2. ASSUME NEW g \in EventCount
      PROVE  After(After(g, n - Window), t - Window) = After(g, t - Window)
  BY <1>1 DEF After
<1>3. Occurs(hs, n) \in EventCount
  BY OccursType
<1>4. \A u \in Instants : Occurs(hs, n)[u] = IF u = n THEN hs[u] + 1 ELSE hs[u]
  BY DEF Occurs, EventCount
<1>5. CASE t - Window < n
  <2>1. After(Occurs(hs, n), t - Window) = Occurs(After(hs, t - Window), n)
    BY <1>1, <1>4, <1>5 DEF After, Occurs
  <2> QED BY <1>2, <1>3, <1>5, <2>1, SeenType, OccursSize
<1>6. CASE ~(t - Window < n)
  <2>1. After(Occurs(hs, n), t - Window) = After(hs, t - Window)
    BY <1>1, <1>4, <1>6 DEF After
  <2> QED BY <1>2, <1>3, <1>6, <2>1
<1> QED BY <1>2, <1>5, <1>6

\* Nothing that landed until now is in a window that begins now or later.
LEMMA LaterUnseen ==
  ASSUME NEW ld \in EventCount, NEW n \in Instants, Landed(ld, n),
         NEW t \in Instants, t >= n + Window
  PROVE  Seen(ld, t) = 0
<1>1. n \in Nat /\ t \in Nat /\ Window \in Nat /\ \A u \in Instants : u \in Nat
  BY BreakerAssumption DEF Instants
<1>2. During(ld, t) = NoEvents
  <2>1. \A u \in Instants : t - Window < u => u > n
    BY <1>1
  <2> QED BY <2>1 DEF During, NoEvents, Landed
<1> QED BY <1>2, NoEventsSize DEF Seen

\* A breaker that remembers at most MaxHeals heals, and all but the stragglers
\* of the last trip, keeps the pace whether it trips or not.
LEMMA RecordPaced ==
  ASSUME Bounding, NEW n \in Instants, NEW ld \in EventCount, Landed(ld, n),
         NEW r \in BreakerState, r.openUntil \in {0, n + OpenFor},
         Covered(r.heals, ld, n), Size(r.heals) <= MaxHeals
  PROVE  /\ r.openUntil # 0 => Suspended(r, ld, 0, n)
         /\ \A t \in Instants : t >= n => Seen(ld, t) <= MaxHeals + 2 * Others
<1>1. /\ n \in Nat /\ Window \in Nat /\ OpenFor \in Nat /\ MaxHeals \in Nat /\ Others \in Nat
      /\ \A u \in Instants : u \in Nat
  BY BreakerAssumption, PoolSize DEF Instants, Others
<1>2. r.heals \in EventCount
  BY DEF BreakerState
<1>3. ASSUME NEW t \in Instants, t >= n PROVE Seen(ld, t) <= MaxHeals + Others
  <2>1. Seen(ld, t) <= Size(After(r.heals, t - Window)) + Others
    BY <1>3 DEF Covered
  <2>2. /\ Size(After(r.heals, t - Window)) <= Size(r.heals)
        /\ Size(After(r.heals, t - Window)) \in Nat /\ Size(r.heals) \in Nat
        /\ Seen(ld, t) \in Nat
    BY <1>2, SeenType, SizeFacts
  <2> QED BY <2>1, <2>2, <1>1
<1>4. ASSUME r.openUntil # 0, NEW t \in Instants, t >= r.openUntil PROVE Seen(ld, t) = 0
  <2>1. t >= n + Window
    BY <1>1, <1>4 DEF Bounding
  <2> QED BY <2>1, LaterUnseen
<1>5. r.openUntil # 0 => Suspended(r, ld, 0, n)
  BY <1>1, <1>3, <1>4 DEF Suspended
<1>6. ASSUME NEW t \in Instants, t >= n PROVE Seen(ld, t) <= MaxHeals + 2 * Others
  <2>1. Seen(ld, t) \in Nat
    BY SeenType
  <2> QED BY <2>1, <1>1, <1>3, <1>6
<1> QED BY <1>5, <1>6

\* What a breaker that is not open remembers before it records: fewer than
\* MaxHeals heals, and all that are recent but the stragglers.
LEMMA PastPaced ==
  ASSUME Bounding, IInv, NEW k \in Key, Paced(k), ~IsOpen(st[k], now)
  PROVE  /\ Past(st[k]) \in BreakerState /\ Covered(Past(st[k]).heals, landed[k], now)
         /\ Size(Past(st[k]).heals) < MaxHeals
<1>1. /\ st[k] \in BreakerState /\ now \in Instants /\ landed[k] \in EventCount
      /\ late[k] \in Nat /\ late[k] <= Others /\ Others \in Nat
  BY PoolSize DEF IInv, TypeOK, StragglersFit, Others
<1>2. CASE st[k].openUntil = 0
  <2>1. Past(st[k]) = st[k]
    BY <1>2 DEF Past
  <2>2. ~Reached(Size(st[k].heals), MaxHeals)
    BY <1>2 DEF IInv, TripIffLimit
  <2>3. Size(st[k].heals) \in Nat
    BY <1>1, SizeFacts DEF BreakerState
  <2>4. Size(st[k].heals) < MaxHeals
    BY <2>2, <2>3, BreakerAssumption DEF Reached, Bounding
  <2> QED BY <1>1, <1>2, <2>1, <2>4 DEF Paced
<1>3. CASE st[k].openUntil # 0
  <2>1. Past(st[k]) = Fresh /\ Fresh.heals = NoEvents
    BY <1>3 DEF Past, Fresh
  <2>2. NoEvents \in EventCount /\ Fresh \in BreakerState
    BY FreshType DEF NoEvents, EventCount
  <2>3. now >= st[k].openUntil /\ st[k].openUntil \in Nat /\ now \in Nat
    BY <1>1, <1>3 DEF IsOpen, BreakerState, Instants
  <2>4. ASSUME NEW t \in Instants, t >= now
        PROVE  Seen(landed[k], t) <= Size(After(NoEvents, t - Window)) + Others
    <3>1. t \in Nat
      BY DEF Instants
    <3>2. Seen(landed[k], t) <= late[k]
      BY <1>3, <2>3, <2>4, <3>1 DEF Paced, Suspended
    <3>3. Size(After(NoEvents, t - Window)) \in Nat /\ Seen(landed[k], t) \in Nat
      BY <1>1, <2>2, SeenType
    <3> QED BY <1>1, <3>2, <3>3
  <2>5. Size(NoEvents) < MaxHeals
    BY NoEventsSize, BreakerAssumption DEF Bounding
  <2> QED BY <2>1, <2>2, <2>4, <2>5 DEF Covered
<1> QED BY <1>2, <1>3

\* What Record writes to a breaker that is not open.
LEMMA RecordWrites ==
  ASSUME NEW s \in BreakerState, NEW n \in Instants, NEW rollback \in BOOLEAN, ~IsOpen(s, n)
  PROVE  LET r == Record(s, n, rollback)
         IN  /\ r \in BreakerState /\ r.openUntil \in {0, n + OpenFor}
             /\ r.heals = After(IF rollback THEN Past(s).heals ELSE Occurs(Past(s).heals, n), n - Window)
<1>1. Record(s, n, rollback) \in BreakerState
  BY RecordType
<1> QED BY <1>1 DEF Record

\* A handler's report keeps the pace.
LEMMA OnHealPaced ==
  ASSUME Bounding, IInv, NEW k \in Key, Paced(k),
         st'[k] = Record(st[k], now, FALSE), landed'[k] = Occurs(landed[k], now),
         late'[k] = (IF IsOpen(st[k], now) THEN late[k] + 1 ELSE 0), now' = now,
         late'[k] <= Others
  PROVE  Paced(k)'
<1> DEFINE ld == Occurs(landed[k], now)
<1>1. /\ st[k] \in BreakerState /\ now \in Instants /\ landed[k] \in EventCount
      /\ late[k] \in Nat /\ Others \in Nat /\ MaxHeals \in Nat /\ Window \in Nat
      /\ \A u \in Instants : u \in Nat
  BY PoolSize, BreakerAssumption DEF IInv, TypeOK, Others, Instants
<1>2. ld \in EventCount
  BY <1>1, OccursType
<1>3. Landed(ld, now)
  BY <1>1 DEF Landed, Occurs, EventCount, Paced
<1>4. ASSUME NEW t \in Instants
      PROVE  /\ Seen(ld, t) = IF t - Window < now /\ now <= t THEN Seen(landed[k], t) + 1
                                                             ELSE Seen(landed[k], t)
             /\ Seen(landed[k], t) \in Nat /\ Seen(ld, t) \in Nat
  BY <1>1, <1>2, SeenOccurs, SeenType
<1>5. \A t \in Instants : t < now => Seen(ld, t) <= MaxHeals + 2 * Others
  BY <1>1, <1>4 DEF Paced
<1> HIDE DEF ld
<1>6. CASE IsOpen(st[k], now)
  <2>1. st'[k] = st[k] /\ st[k].openUntil # 0 /\ late'[k] = late[k] + 1
    BY <1>6 DEF Record, IsOpen
  <2>2. ASSUME NEW t \in Instants, t >= now
        PROVE  /\ Seen(ld, t) <= MaxHeals + Others + (late[k] + 1)
               /\ t >= st[k].openUntil => Seen(ld, t) <= late[k] + 1
               /\ Seen(ld, t) <= MaxHeals + 2 * Others
    <3>1. /\ Seen(landed[k], t) <= MaxHeals + Others + late[k]
          /\ t >= st[k].openUntil => Seen(landed[k], t) <= late[k]
      BY <2>1, <2>2 DEF Paced, Suspended
    <3>2. Seen(ld, t) <= Seen(landed[k], t) + 1
      BY <1>4
    <3>3. late[k] + 1 <= Others
      BY <2>1
    <3> QED BY <3>1, <3>2, <3>3, <1>1, <1>4
  <2>3. Suspended(st[k], ld, late[k] + 1, now)
    BY <2>2 DEF Suspended
  <2>4. \A t \in Instants : Seen(ld, t) <= MaxHeals + 2 * Others
    BY <2>2, <1>1, <1>5
  <2>5. landed'[k] = ld
    BY DEF ld
  <2> QED BY <1>3, <2>1, <2>3, <2>4, <2>5 DEF Paced
<1>7. CASE ~IsOpen(st[k], now)
  <2> DEFINE r == Record(st[k], now, FALSE)
             hs == Past(st[k]).heals
  <2>1. /\ r \in BreakerState /\ r.openUntil \in {0, now + OpenFor}
        /\ r.heals = After(Occurs(hs, now), now - Window)
    BY <1>1, <1>7, RecordWrites
  <2>2. hs \in EventCount /\ Covered(hs, landed[k], now) /\ Size(hs) < MaxHeals
    BY <1>7, PastPaced DEF BreakerState
  <2> HIDE DEF r, hs
  <2>3. Covered(r.heals, ld, now)
    <3> SUFFICES ASSUME NEW t \in Instants, t >= now
                 PROVE  Seen(ld, t) <= Size(After(r.heals, t - Window)) + Others
      BY DEF Covered
    <3>1. Seen(landed[k], t) <= Size(After(hs, t - Window)) + Others
      BY <2>2 DEF Covered
    <3>2. Size(After(r.heals, t - Window)) =
            IF t - Window < now THEN Size(After(hs, t - Window)) + 1
                                ELSE Size(After(hs, t - Window))
      BY <1>1, <2>1, <2>2, RememberedOccurs
    <3>3. Size(After(hs, t - Window)) \in Nat
      BY <2>2, SeenType
    <3> QED BY <3>1, <3>2, <3>3, <1>1, <1>4
  <2>4. Size(r.heals) <= MaxHeals
    <3>1. Occurs(hs, now) \in EventCount /\ Size(Occurs(hs, now)) = Size(hs) + 1
      BY <1>1, <2>2, OccursType, OccursSize
    <3>2. Size(r.heals) <= Size(Occurs(hs, now)) /\ Size(r.heals) \in Nat /\ Size(hs) \in Nat
      BY <1>1, <2>1, <2>2, <3>1, SeenType, SizeFacts
    <3> QED BY <3>1, <3>2, <2>2, <1>1
  <2>5. /\ r.openUntil # 0 => Suspended(r, ld, 0, now)
        /\ \A t \in Instants : t >= now => Seen(ld, t) <= MaxHeals + 2 * Others
    BY <1>1, <1>2, <1>3, <2>1, <2>3, <2>4, RecordPaced
  <2>6. \A t \in Instants : Seen(ld, t) <= MaxHeals + 2 * Others
    BY <2>5, <1>1, <1>5
  <2>7. st'[k] = r /\ landed'[k] = ld /\ late'[k] = 0
    BY <1>7 DEF r, ld
  <2> QED BY <1>3, <2>3, <2>5, <2>6, <2>7 DEF Paced
<1> QED BY <1>6, <1>7

\* A reported rollback does.
LEMMA OnRollbackPaced ==
  ASSUME Bounding, IInv, NEW k \in Key, Paced(k),
         st'[k] = Record(st[k], now, TRUE), UNCHANGED <<landed, now>>,
         late'[k] = (IF IsOpen(st[k], now) THEN late[k] ELSE 0)
  PROVE  Paced(k)'
<1>1. /\ st[k] \in BreakerState /\ now \in Instants /\ landed[k] \in EventCount
      /\ Landed(landed[k], now)
  BY DEF IInv, TypeOK, Paced
<1>2. CASE IsOpen(st[k], now)
  BY <1>2 DEF Record, Paced
<1>3. CASE ~IsOpen(st[k], now)
  <2> DEFINE r == Record(st[k], now, TRUE)
             hs == Past(st[k]).heals
  <2>1. /\ r \in BreakerState /\ r.openUntil \in {0, now + OpenFor}
        /\ r.heals = After(hs, now - Window)
    BY <1>1, <1>3, RecordWrites
  <2>2. hs \in EventCount /\ Covered(hs, landed[k], now) /\ Size(hs) < MaxHeals
    BY <1>3, PastPaced DEF BreakerState
  <2> HIDE DEF r, hs
  <2>3. Covered(r.heals, landed[k], now)
    BY <1>1, <2>1, <2>2, RememberedOccurs DEF Covered
  <2>4. Size(r.heals) <= MaxHeals
    <3>1. Size(r.heals) <= Size(hs) /\ Size(r.heals) \in Nat /\ Size(hs) \in Nat
      BY <1>1, <2>1, <2>2, SeenType, SizeFacts
    <3> QED BY <3>1, <2>2, BreakerAssumption
  <2>5. r.openUntil # 0 => Suspended(r, landed[k], 0, now)
    BY <1>1, <2>1, <2>3, <2>4, RecordPaced
  <2>6. st'[k] = r /\ late'[k] = 0
    BY <1>3 DEF r
  <2> QED BY <2>3, <2>5, <2>6 DEF Paced
<1> QED BY <1>2, <1>3

\* Allowed's forgetting of an elapsed breaker does.
LEMMA ResetPaced ==
  ASSUME Bounding, IInv, NEW k \in Key, Paced(k), ~IsOpen(st[k], now),
         st'[k] = Past(st[k]), UNCHANGED <<landed, now>>
  PROVE  Paced(k)'
<1>1. Covered(Past(st[k]).heals, landed[k], now)
  BY PastPaced
<1>2. Past(st[k]).openUntil = 0
  BY DEF Past, Fresh
<1> QED BY <1>1, <1>2 DEF Paced

\* Time does.
LEMMA TickPaced ==
  ASSUME IInv, NEW k \in Key, Paced(k), Tick
  PROVE  Paced(k)'
<1>1. /\ now' = now + 1 /\ UNCHANGED <<st, landed, late>> /\ now \in Nat
      /\ \A u \in Instants : u \in Nat
  BY DEF Tick, IInv, TypeOK, Instants
<1>2. \A u \in Instants : /\ u > now' => u > now
                          /\ u >= now' => u >= now
  BY <1>1
<1>3. Landed(landed[k], now')
  BY <1>2 DEF Paced, Landed
<1>4. st[k].openUntil = 0 => Covered(st[k].heals, landed[k], now')
  BY <1>2 DEF Paced, Covered
<1>5. st[k].openUntil # 0 => Suspended(st[k], landed[k], late[k], now')
  BY <1>2 DEF Paced, Suspended
<1> QED BY <1>1, <1>3, <1>4, <1>5 DEF Paced

\* At the start nothing has landed.
LEMMA InitPaced ==
  ASSUME Bounding, Init, NEW k \in Key
  PROVE  Paced(k)
<1>1. /\ st[k] = Fresh /\ Fresh.openUntil = 0 /\ Fresh.heals = NoEvents
      /\ landed[k] = NoEvents /\ now = 1
  BY DEF Init, Fresh
<1>2. NoEvents \in EventCount /\ Landed(NoEvents, 1) /\ Others \in Nat /\ MaxHeals \in Nat
  BY PoolSize, BreakerAssumption DEF NoEvents, EventCount, Landed, Others
<1>3. ASSUME NEW t \in Instants
      PROVE  Seen(NoEvents, t) = 0 /\ Size(After(NoEvents, t - Window)) \in Nat
  <2>1. During(NoEvents, t) = NoEvents
    BY DEF During, NoEvents
  <2> QED BY <2>1, <1>2, NoEventsSize, SeenType DEF Seen
<1>4. Covered(NoEvents, NoEvents, 1)
  BY <1>2, <1>3 DEF Covered
<1>5. \A t \in Instants : Seen(NoEvents, t) <= MaxHeals + 2 * Others
  BY <1>2, <1>3
<1> QED BY <1>1, <1>2, <1>4, <1>5 DEF Paced

\* Every step keeps the pace.
LEMMA NextPaced ==
  ASSUME Bounding, IInv, IInv', [Next]_vars, NEW k \in Key, Paced(k)
  PROVE  Paced(k)'
<1>1. CASE st'[k] = st[k] /\ landed'[k] = landed[k] /\ late'[k] = late[k] /\ now' = now
  BY <1>1 DEF Paced
<1>2. ASSUME NEW h \in Handler, NEW j \in Key, Admit(h, j) PROVE Paced(k)'
  <2>1. UNCHANGED <<landed, now, late>> /\ ~IsOpen(st[j], now)
        /\ st'[j] = Past(st[j]) /\ \A i \in Key : i # j => st'[i] = st[i]
    BY <1>2 DEF Admit, IInv, TypeOK, Past
  <2> QED BY <2>1, <1>1, ResetPaced
<1>3. ASSUME NEW h \in Handler, OnHeal(h) PROVE Paced(k)'
  <2>1. CASE k = inflight[h]
    <3>1. /\ st'[k] = Record(st[k], now, FALSE) /\ now' = now
          /\ landed'[k] = Occurs(landed[k], now)
          /\ late'[k] = (IF IsOpen(st[k], now) THEN late[k] + 1 ELSE 0)
      BY <1>3, <2>1 DEF OnHeal, IInv, TypeOK
    <3>2. late'[k] <= Others
      BY PoolSize DEF IInv, TypeOK, StragglersFit, Others
    <3> QED BY <3>1, <3>2, OnHealPaced
  <2>2. CASE k # inflight[h]
    BY <1>1, <1>3, <2>2 DEF OnHeal, IInv, TypeOK
  <2> QED BY <2>1, <2>2
<1>4. ASSUME NEW j \in Key, OnRollback(j) PROVE Paced(k)'
  <2>1. CASE k = j
    <3>1. /\ st'[k] = Record(st[k], now, TRUE) /\ UNCHANGED <<landed, now>>
          /\ late'[k] = (IF IsOpen(st[k], now) THEN late[k] ELSE 0)
      BY <1>4, <2>1 DEF OnRollback, IInv, TypeOK
    <3> QED BY <3>1, OnRollbackPaced
  <2>2. CASE k # j
    BY <1>1, <1>4, <2>2 DEF OnRollback, IInv, TypeOK
  <2> QED BY <2>1, <2>2
<1>5. CASE Tick
  BY <1>5, TickPaced
<1>6. ASSUME NEW h \in Handler, Abandon(h) PROVE Paced(k)'
  BY <1>1, <1>6 DEF Abandon
<1>7. CASE UNCHANGED vars
  BY <1>1, <1>7 DEF vars
<1> QED BY <1>2, <1>3, <1>4, <1>5, <1>6, <1>7 DEF Next

\* No window of the breaker's length ever holds more heals of a workload than
\* MaxHeals and the stragglers of two trips, for any number of handlers (record
\* and Allowed in breaker.go, and the order in which maybeHeal calls them).
THEOREM HealsAreRare == Spec => []HealRateBounded
<1> DEFINE Pace == Bounding => \A k \in Key : Paced(k)
<1>1. Init => Pace
  BY InitPaced
<1>2. IInv /\ IInv' /\ Pace /\ [Next]_vars => Pace'
  BY NextPaced DEF Bounding
<1>3. Pace => HealRateBounded
  BY DEF Bounding, Paced, HealRateBounded, LandedIn, Seen, During, Others
<1> QED BY <1>1, <1>2, <1>3, Invariance, PTL DEF Spec
=============================================================================
