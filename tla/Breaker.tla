------------------------------- MODULE Breaker -------------------------------
(***************************************************************************)
(* The per-workload heal circuit breaker (internal/breaker/breaker.go) and *)
(* the protocol its callers follow in the agent: a handler asks Allowed,   *)
(* patches the cluster, and only then reports OnHeal, so other handlers    *)
(* and the clock move between the question and the report.  Rollbacks are  *)
(* reported by verifyHeals, on the sweep's own goroutine, where no handler *)
(* is running.                                                             *)
(*                                                                         *)
(* A heal whose controller cannot be resolved is neither asked about nor   *)
(* reported (maybeHeal leaves ctrlKey empty): it is not a heal of this     *)
(* module.                                                                 *)
(*                                                                         *)
(* One process lifetime is modelled: the breaker is in memory, and a       *)
(* restart is Init again.                                                  *)
(***************************************************************************)
EXTENDS Integers, FiniteSets

CONSTANTS
  Key,           \* controller keys, "namespace/Kind/Name"
  Handler,       \* handler goroutines of one sweep: PODSMEDIC_CONCURRENCY of them
  NoKey,         \* a handler that has no heal in flight
  Window,        \* Options.Window, in ticks
  OpenFor,       \* Options.OpenFor, in ticks
  MaxHeals,      \* Options.MaxHeals; 0 disables the signal
  MaxRollbacks,  \* Options.MaxRollbacks; 0 disables the signal
  Horizon        \* the last instant of the clock: bounds the model

ASSUME BreakerAssumption ==
  /\ IsFiniteSet(Handler) /\ Handler # {}
  /\ NoKey \notin Key
  /\ Window \in Nat /\ OpenFor \in Nat \ {0}
  /\ MaxHeals \in Nat /\ MaxRollbacks \in Nat
  /\ Horizon \in Nat \ {0}

VARIABLES
  now,       \* the clock
  st,        \* Breaker.st; a missing map entry is Fresh
  inflight,  \* the workload each handler was admitted for and has not reported on
  landed,    \* history: the heals that handlers reported, per workload and instant
  late       \* history: heals that landed on an open breaker since it was last closed

vars == <<now, st, inflight, landed, late>>

Instants == 1 .. Horizon

\* A []time.Time of which only the length and what a cutoff keeps matter: how
\* many events were recorded at each instant.
NoEvents == [t \in Instants |-> 0]
Events(ts) == UNION {{t} \X (1 .. ts[t]) : t \in Instants}
Size(ts) == Cardinality(Events(ts))

Fresh == [heals |-> NoEvents, rollbacks |-> NoEvents, openUntil |-> 0]

\* Mutant: an open breaker is reset one tick early.
IsOpenBriefly(s, t) == s.openUntil # 0 /\ t < s.openUntil - 1

IsOpen(s, t) == s.openUntil # 0 /\ t < s.openUntil

\* Mutant: everything recorded before this instant is dropped.
AfterNothing(ts, cutoff) ==
  [t \in Instants |-> IF t > cutoff /\ t >= now THEN ts[t] ELSE 0]

\* after: the events later than the cutoff.
After(ts, cutoff) == [t \in Instants |-> IF t > cutoff THEN ts[t] ELSE 0]

Occurs(ts, t) == [ts EXCEPT ![t] = @ + 1]

\* Mutant: the limits are exceeded rather than reached.
TrippedAbove(s) ==
  \/ MaxRollbacks > 0 /\ Size(s.rollbacks) > MaxRollbacks
  \/ MaxHeals > 0 /\ Size(s.heals) > MaxHeals

Tripped(s) ==
  \/ MaxRollbacks > 0 /\ Size(s.rollbacks) >= MaxRollbacks
  \/ MaxHeals > 0 /\ Size(s.heals) >= MaxHeals

\* What record remembers of the past before it adds an event: nothing once an
\* open window has elapsed.
Past(s) == IF s.openUntil = 0 THEN s ELSE Fresh

\* record: an open breaker records nothing; otherwise the event is added, both
\* histories are pruned to the window, and the limits are compared.
Record(s, t, rollback) ==
  LET seen   == Past(s)
      rbs    == IF rollback THEN Occurs(seen.rollbacks, t) ELSE seen.rollbacks
      heals  == IF rollback THEN seen.heals ELSE Occurs(seen.heals, t)
      pruned == [heals     |-> After(heals, t - Window),
                 rollbacks |-> After(rbs, t - Window),
                 openUntil |-> 0]
  IN IF IsOpen(s, t) THEN s
     ELSE IF Tripped(pruned) THEN [pruned EXCEPT !.openUntil = t + OpenFor]
     ELSE pruned

-----------------------------------------------------------------------------

Init ==
  /\ now = 1
  /\ st = [k \in Key |-> Fresh]
  /\ inflight = [h \in Handler |-> NoKey]
  /\ landed = [k \in Key |-> NoEvents]
  /\ late = [k \in Key |-> 0]

\* maybeHeal asks Allowed and goes on to the patch.  Allowed deletes the entry
\* of a breaker whose open window has elapsed.
Admit(h, k) ==
  /\ inflight[h] = NoKey
  /\ ~IsOpen(st[k], now)
  /\ inflight' = [inflight EXCEPT ![h] = k]
  /\ st' = IF st[k].openUntil # 0 THEN [st EXCEPT ![k] = Fresh] ELSE st
  /\ UNCHANGED <<now, landed, late>>

\* The admitted heal went no further: cooldown, GitOps guard, API error, dry run.
Abandon(h) ==
  /\ inflight[h] # NoKey
  /\ inflight' = [inflight EXCEPT ![h] = NoKey]
  /\ UNCHANGED <<now, st, landed, late>>

\* The patch was applied, and the handler reports it with OnHeal.
OnHeal(h) ==
  LET k == inflight[h]
  IN /\ k # NoKey
     /\ st' = [st EXCEPT ![k] = Record(st[k], now, FALSE)]
     /\ landed' = [landed EXCEPT ![k] = Occurs(@, now)]
     /\ late' = [late EXCEPT ![k] = IF IsOpen(st[k], now) THEN @ + 1 ELSE 0]
     /\ inflight' = [inflight EXCEPT ![h] = NoKey]
     /\ UNCHANGED now

\* verifyHeals rolls a heal back and reports it; the sweep joins its handlers
\* before the next one verifies.
OnRollback(k) ==
  /\ \A h \in Handler : inflight[h] = NoKey
  /\ st' = [st EXCEPT ![k] = Record(st[k], now, TRUE)]
  /\ late' = [late EXCEPT ![k] = IF IsOpen(st[k], now) THEN @ ELSE 0]
  /\ UNCHANGED <<now, inflight, landed>>

Tick ==
  /\ now < Horizon
  /\ now' = now + 1
  /\ UNCHANGED <<st, inflight, landed, late>>

Next ==
  \/ \E h \in Handler, k \in Key : Admit(h, k)
  \/ \E h \in Handler : Abandon(h)
  \/ \E h \in Handler : OnHeal(h)
  \/ \E k \in Key : OnRollback(k)
  \/ Tick

Spec == Init /\ [][Next]_vars

-----------------------------------------------------------------------------

EventCount == [Instants -> Nat]
BreakerState == [heals : EventCount, rollbacks : EventCount, openUntil : Nat]

\* Every variable keeps its type.
TypeOK ==
  /\ now \in Instants
  /\ st \in [Key -> BreakerState]
  /\ inflight \in [Handler -> Key \cup {NoKey}]
  /\ landed \in [Key -> EventCount]
  /\ late \in [Key -> Nat]

\* A limit of 0 is off; otherwise a count reaches it at the limit itself.
Reached(n, limit) == limit > 0 /\ n >= limit

\* A breaker is open exactly when the history it still holds reached one of the
\* limits: it never trips early, and no sequence of heals, rollbacks, resets and
\* prunes leaves a closed breaker sitting on a history that should have opened it.
TripIffLimit ==
  \A k \in Key :
    st[k].openUntil # 0 <=>
      \/ Reached(Size(st[k].heals), MaxHeals)
      \/ Reached(Size(st[k].rollbacks), MaxRollbacks)

\* Handlers admitted before a trip may still patch after it, and only those:
\* fewer heals land on an open breaker than there are handlers.
StragglersBounded ==
  \A k \in Key : late[k] < Cardinality(Handler)

\* The heals of the last `span` ticks up to t that reached the workload.
LandedIn(k, t, span) ==
  Size([u \in Instants |-> IF t - span < u /\ u <= t THEN landed[k][u] ELSE 0])

\* What the breaker is for: a workload is not churned.  When healing stays
\* suspended for at least a window, no window holds more heals than MaxHeals and
\* the stragglers of the trips at its two ends.
HealRateBounded ==
  MaxHeals > 0 /\ OpenFor >= Window =>
    \A k \in Key, t \in Instants :
      LandedIn(k, t, Window) <= MaxHeals + 2 * (Cardinality(Handler) - 1)

\* A tripped breaker is left untouched until its deadline, and whoever finds it
\* elapsed starts from a clean slate: at most the event of that very step is
\* remembered.
OpenUntilDeadline ==
  [][\A k \in Key :
       st[k].openUntil # 0 /\ st'[k] # st[k] =>
         /\ now >= st[k].openUntil
         /\ Size(st'[k].heals) + Size(st'[k].rollbacks) <= 1]_vars
=============================================================================
