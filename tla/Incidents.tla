------------------------------ MODULE Incidents ------------------------------
(***************************************************************************)
(* The incident store (internal/incident/incident.go) and its life across  *)
(* sweeps and restarts (sweep, handle, maybeRetryHeal, rememberHeal,       *)
(* loadIncidents and persistIncidents in internal/agent/agent.go).         *)
(*                                                                         *)
(* A sweep observes every problem, reaps what has gone quiet, saves the    *)
(* open incidents to a ConfigMap if they changed, and only then diagnoses  *)
(* and alerts the new ones.  What the handlers learn is therefore saved by *)
(* the next sweep.                                                         *)
(*                                                                         *)
(* A timestamp is an age in poll intervals.  Whether a heal attempt        *)
(* applies is open here: SweepGate and Breaker model what decides it.      *)
(***************************************************************************)
EXTENDS Integers, FiniteSets, Functions

CONSTANTS
  Key,           \* namespace/pod/container
  Kind,          \* symptom kinds
  Problem,       \* bound: the symptoms <<key, kind>> that can be detected
  ResolveAfter,  \* PODSMEDIC_COOLDOWN, in poll intervals
  MaxAlerts,     \* MaxAlertsPerCycle; 0 is unlimited
  MaxFaults      \* bound: crashes, failed saves and failed loads

ASSUME IncidentsAssumption ==
  /\ IsFiniteSet(Key) /\ IsFiniteSet(Kind) /\ Problem \subseteq Key \X Kind
  /\ ResolveAfter \in Nat /\ MaxAlerts \in Nat /\ MaxFaults \in Nat

Age == 0 .. ResolveAfter + 1   \* the oldest age stands for all older ones

Incident ==
  [trigger : Kind, kinds : SUBSET Kind, quiet : Age,
   proposal : BOOLEAN,  \* HealActionJSON is set
   healed : BOOLEAN]

Store == UNION {[S -> Incident] : S \in SUBSET Key}

VARIABLES
  phase,      \* "down", "idle", "observe", "persist" or "handle"
  todo,       \* the problems of this sweep not yet observed
  open,       \* Store.open
  dirty,      \* Store.dirty
  fresh,      \* incidents opened this sweep and not yet handled
  notifying,  \* incidents whose alert is about to be sent
  saved,      \* incidents.json in the ConfigMap
  faults,     \* history: faults so far
  slipped,    \* history: keys a failed save or load has made the ConfigMap wrong about,
              \* until their incident is resolved and the ConfigMap is saved again
  alerts,     \* history: alerts for a key since it was last resolved
  told,       \* history: the kinds announced of a key's latest incident
  patches     \* history: patches for a key's incident, as far as the process can know

env == <<faults, slipped>>
history == <<alerts, told, patches>>
vars == <<phase, todo, open, dirty, fresh, notifying, saved, env, history>>

Nothing == Restrict([k \in Key |-> 0], {})

\* Aging by n intervals.
Aged(store, n) ==
  [k \in DOMAIN store |->
     [store[k] EXCEPT !.quiet =
        IF @ + n > ResolveAfter THEN ResolveAfter + 1 ELSE @ + n]]

With(store, k, inc) ==
  [j \in DOMAIN store \cup {k} |-> IF j = k THEN inc ELSE store[j]]

Init ==
  /\ phase = "down"
  /\ todo = {} /\ open = Nothing /\ dirty = FALSE
  /\ fresh = {} /\ notifying = {}
  /\ saved = Nothing
  /\ faults = 0 /\ slipped = {}
  /\ alerts = [k \in Key |-> 0] /\ told = [k \in Key |-> {}]
  /\ patches = [k \in Key |-> 0]

-----------------------------------------------------------------------------
\* The process.

\* loadIncidents after any downtime.  Restore leaves the store clean.
Load ==
  /\ phase = "down"
  /\ phase' = "idle"
  /\ \E downtime \in Age :
       /\ saved' = Aged(saved, downtime)
       /\ open' = saved'
  /\ dirty' = FALSE
  /\ UNCHANGED <<todo, fresh, notifying, faults, slipped, history>>

\* The ConfigMap cannot be read: start with no open incidents.
LoadFails ==
  /\ phase = "down" /\ faults < MaxFaults
  /\ phase' = "idle"
  /\ open' = Nothing
  /\ dirty' = FALSE
  /\ faults' = faults + 1
  /\ slipped' = slipped \cup DOMAIN saved
  /\ patches' = [k \in Key |-> 0]
  /\ UNCHANGED <<todo, fresh, notifying, saved, alerts, told>>

\* The process dies.  Patches the ConfigMap does not know of are forgotten.
Crash ==
  /\ phase # "down" /\ faults < MaxFaults
  /\ phase' = "down"
  /\ todo' = {} /\ open' = Nothing /\ dirty' = FALSE /\ fresh' = {} /\ notifying' = {}
  /\ faults' = faults + 1
  /\ patches' = [k \in Key |-> IF k \in DOMAIN saved /\ saved[k].healed
                               THEN patches[k] ELSE 0]
  /\ UNCHANGED <<saved, slipped, alerts, told>>

-----------------------------------------------------------------------------
\* A sweep.

StartSweep ==
  /\ phase = "idle"
  /\ phase' = "observe"
  /\ todo' \in SUBSET Problem
  /\ open' = Aged(open, 1) /\ saved' = Aged(saved, 1)
  /\ UNCHANGED <<dirty, fresh, notifying, env, history>>

\* Mutant: a later kind is folded as long as no heal has landed.
FoldedUnhealed(k) == ~open[k].healed

\* A new kind belongs to the alert of the incident if the incident opened in
\* this sweep (FirstSeen.Equal(now)).
Folded(k) == k \in fresh

Opened(kind) ==
  [trigger |-> kind, kinds |-> {kind}, quiet |-> 0, proposal |-> FALSE, healed |-> FALSE]

\* Observe's first sighting.
ObserveNew ==
  /\ phase = "observe"
  /\ \E p \in todo :
       LET k == p[1]
       IN /\ k \notin DOMAIN open
          /\ todo' = todo \ {p}
          /\ open' = With(open, k, Opened(p[2]))
          /\ fresh' = fresh \cup {k}
          /\ told' = [told EXCEPT ![k] = {}]
  /\ dirty' = TRUE
  /\ UNCHANGED <<phase, notifying, saved, env, alerts, patches>>

SeenAgain(inc, kind, lands) ==
  [inc EXCEPT !.quiet = 0, !.kinds = @ \cup {kind}, !.healed = @ \/ lands]

\* Observe's other outcomes: a new kind in a later sweep is announced, and the
\* remembered heal, if any, is retried; the retry may apply.
ObserveKnown ==
  /\ phase = "observe"
  /\ \E p \in todo :
       LET k == p[1]
           inc == open[k]
       IN /\ k \in DOMAIN open
          /\ todo' = todo \ {p}
          /\ \E lands \in IF inc.proposal /\ ~inc.healed THEN BOOLEAN ELSE {FALSE} :
               /\ open' = [open EXCEPT ![k] = SeenAgain(@, p[2], lands)]
               /\ patches' = [patches EXCEPT ![k] = IF lands THEN @ + 1 ELSE @]
          /\ told' = [told EXCEPT ![k] = IF p[2] \in inc.kinds \/ Folded(k)
                                         THEN @ ELSE @ \cup {p[2]}]
  /\ dirty' = TRUE
  /\ UNCHANGED <<phase, fresh, notifying, saved, env, alerts>>

\* Mutant: an incident with no landed heal is never considered resolved.
QuietAndHealed(inc) == inc.quiet > ResolveAfter /\ inc.healed

Quiet(inc) == inc.quiet > ResolveAfter

\* Mutant: the handlers run before the save, which waits for the next sweep.
ReapUnsaved ==
  /\ phase = "observe" /\ todo = {}
  /\ phase' = "handle"
  /\ LET gone == {k \in DOMAIN open : Quiet(open[k])}
     IN /\ open' = Restrict(open, DOMAIN open \ gone)
        /\ dirty' = (dirty \/ gone # {})
        /\ alerts' = [k \in Key |-> IF k \in gone THEN 0 ELSE alerts[k]]
        /\ patches' = [k \in Key |-> IF k \in gone THEN 0 ELSE patches[k]]
  /\ UNCHANGED <<todo, fresh, notifying, saved, env, told>>

\* Reap the incidents that have gone quiet.
Reap ==
  /\ phase = "observe" /\ todo = {}
  /\ phase' = "persist"
  /\ LET gone == {k \in DOMAIN open : Quiet(open[k])}
     IN /\ open' = Restrict(open, DOMAIN open \ gone)
        /\ dirty' = (dirty \/ gone # {})
        /\ alerts' = [k \in Key |-> IF k \in gone THEN 0 ELSE alerts[k]]
        /\ patches' = [k \in Key |-> IF k \in gone THEN 0 ELSE patches[k]]
  /\ UNCHANGED <<todo, fresh, notifying, saved, env, told>>

\* The new incidents are cut to MaxAlerts; which ones depends on listing order.
Capped(new) ==
  IF MaxAlerts = 0 \/ Cardinality(fresh) <= MaxAlerts THEN new = fresh
  ELSE new \subseteq fresh /\ Cardinality(new) = MaxAlerts

ToHandlers ==
  /\ phase' = "handle"
  /\ fresh' \in {new \in SUBSET fresh : Capped(new)}
  /\ UNCHANGED <<todo, open, notifying, history>>

\* persistIncidents has nothing to write.
Unchanged ==
  /\ phase = "persist" /\ ~dirty
  /\ ToHandlers
  /\ UNCHANGED <<dirty, saved, env>>

Persist ==
  /\ phase = "persist" /\ dirty
  /\ ToHandlers
  /\ saved' = open /\ dirty' = FALSE
  /\ slipped' = {k \in slipped : k \in DOMAIN open \/ alerts[k] > 0}
  /\ UNCHANGED faults

\* The write fails, or is made and not acknowledged.
PersistFails ==
  /\ phase = "persist" /\ dirty /\ faults < MaxFaults
  /\ ToHandlers
  /\ saved' \in {saved, open}
  /\ faults' = faults + 1
  /\ slipped' = slipped \cup DOMAIN open \cup DOMAIN saved
  /\ UNCHANGED dirty

-----------------------------------------------------------------------------
\* The handlers of the new incidents.

\* The evidence or the diagnosis cannot be had.
GiveUp ==
  /\ phase = "handle"
  /\ \E k \in fresh : fresh' = fresh \ {k}
  /\ UNCHANGED <<phase, todo, open, dirty, notifying, saved, env, history>>

\* Mutant: a heal that lands is not marked on the incident.
Forgotten(inc, lands) == [inc EXCEPT !.proposal = TRUE]

\* rememberHeal.
Remembered(inc, lands) == [inc EXCEPT !.proposal = TRUE, !.healed = @ \/ lands]

\* Diagnose (or replay a remedy), try the heal and remember it.
Handle ==
  /\ phase = "handle"
  /\ \E k \in fresh, lands \in BOOLEAN :
       /\ fresh' = fresh \ {k}
       /\ open' = [open EXCEPT ![k] = Remembered(@, lands)]
       /\ patches' = [patches EXCEPT ![k] = IF lands THEN @ + 1 ELSE @]
       /\ notifying' = notifying \cup {k}
  /\ dirty' = TRUE
  /\ UNCHANGED <<phase, todo, saved, env, alerts, told>>

\* The alert lists every kind of the incident.
Notify ==
  /\ phase = "handle"
  /\ \E k \in notifying :
       /\ notifying' = notifying \ {k}
       /\ alerts' = [alerts EXCEPT ![k] = @ + 1]
       /\ told' = [told EXCEPT ![k] = @ \cup open[k].kinds]
  /\ UNCHANGED <<phase, todo, open, dirty, fresh, saved, env, patches>>

NotifyFails ==
  /\ phase = "handle"
  /\ \E k \in notifying : notifying' = notifying \ {k}
  /\ UNCHANGED <<phase, todo, open, dirty, fresh, saved, env, history>>

EndSweep ==
  /\ phase = "handle" /\ fresh = {} /\ notifying = {}
  /\ phase' = "idle"
  /\ UNCHANGED <<todo, open, dirty, fresh, notifying, saved, env, history>>

Next ==
  \/ Load
  \/ LoadFails
  \/ Crash
  \/ StartSweep
  \/ ObserveNew
  \/ ObserveKnown
  \/ Reap
  \/ Unchanged
  \/ Persist
  \/ PersistFails
  \/ GiveUp
  \/ Handle
  \/ Notify
  \/ NotifyFails
  \/ EndSweep

\* The poll loop keeps sweeping, and a process that died is started again.
Spec == Init /\ [][Next]_vars /\ WF_vars(Next)

-----------------------------------------------------------------------------

\* Every variable keeps its type; only open incidents are handled.
TypeOK ==
  /\ phase \in {"down", "idle", "observe", "persist", "handle"}
  /\ todo \in SUBSET Problem
  /\ open \in Store /\ saved \in Store
  /\ \A k \in DOMAIN open : open[k].trigger \in open[k].kinds
  /\ dirty \in BOOLEAN
  /\ fresh \in SUBSET DOMAIN open /\ notifying \in SUBSET DOMAIN open
  /\ faults \in 0 .. MaxFaults /\ slipped \in SUBSET Key
  /\ alerts \in [Key -> Nat] /\ patches \in [Key -> Nat]
  /\ told \in [Key -> SUBSET Kind]

\* An incident is alerted once, however often the process restarts, unless a save
\* or a load failed (agent.go:473, "so a restart does not re-alert open incidents").
AlertedOnce == \A k \in Key \ slipped : alerts[k] <= 1

\* An incident is patched once; only a crash before the next save, or a failed
\* load, can forget it (incident.go:170, MarkHealed "stopping further retries").
PatchedOnce == \A k \in Key : patches[k] <= 1

\* Once an incident is alerted, every symptom of it is announced: in its alert, or
\* in a notice of its own.
NothingUntold ==
  \A k \in DOMAIN open \ slipped :
    open[k].trigger \in told[k] => open[k].kinds \subseteq told[k]

\* A container that stops failing for good has its incident resolved for good.
QuietResolves ==
  \A k \in Key :
    <>[](\A kind \in Kind : <<k, kind>> \notin todo) => <>[](k \notin DOMAIN open)

=============================================================================
