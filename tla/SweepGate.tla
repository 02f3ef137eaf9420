------------------------------ MODULE SweepGate ------------------------------
(***************************************************************************)
(* The cluster-wide brakes on healing: the per-sweep allowance and the     *)
(* surge detector (internal/breaker/cluster.go), as one sweep after        *)
(* another consults them (sweep, handleAll, handle, tryPlaybook,           *)
(* maybeHeal, maybeRetryHeal and rememberHeal in internal/agent/agent.go,  *)
(* announceSurge in surge.go).                                             *)
(*                                                                         *)
(* The sweep goroutine observes the problems in the order the pods are     *)
(* listed and retries remembered heals on the spot; it then looks for a    *)
(* surge, and hands the new incidents to handlers.  Budget.Take is a plain *)
(* read and a plain write of a shared counter, so handlers interleave      *)
(* between the two.                                                        *)
(*                                                                         *)
(* The gates behind these two (validator, breaker, cooldown, GitOps guard, *)
(* API, dry run) are one outcome here, and any heal may meet any of them:  *)
(* it executes or it does not.                                             *)
(***************************************************************************)
EXTENDS Integers, FiniteSets

CONSTANTS
  NumIncidents,  \* failing containers, one per workload, in listing order
  Handler,       \* handler goroutines: PODSMEDIC_CONCURRENCY of them
  MaxPerSweep,   \* Budget.max; 0 is unlimited
  MaxAlerts,     \* MaxAlertsPerCycle; 0 is unlimited
  Workloads,     \* workloads in the cluster, failing or not
  SurgePercent,  \* ClusterOptions.SurgeRatio, in percent; 0 disables
  SurgeMin       \* ClusterOptions.SurgeMinWorkloads

ASSUME SweepGateAssumption ==
  /\ NumIncidents \in Nat \ {0} /\ IsFiniteSet(Handler) /\ Handler # {}
  /\ MaxPerSweep \in Nat /\ MaxAlerts \in Nat
  /\ Workloads \in Nat /\ NumIncidents <= Workloads
  /\ SurgePercent \in 0 .. 100 /\ SurgeMin \in Nat

Incident == 1 .. NumIncidents

VARIABLES
  phase,      \* "idle", "observe" or "handle"
  problems,   \* the containers this sweep found failing
  todo,       \* the problems not yet observed
  fresh,      \* the incidents opened this sweep and not yet handled
  open,       \* open incidents
  waiting,    \* open incidents with a remembered heal that has not landed
  used,       \* Budget.used of this sweep
  suspended,  \* sweepState.suspended
  announced,  \* Agent.surgeAnnounced
  job,        \* what each handler is doing
  executed,   \* history: heals that executed this sweep
  deferred,   \* history: open incidents the allowance had no room for
  undiagnosed \* history: those whose replay was refused and diagnosis then failed

gates == <<used, suspended, announced>>
vars == <<phase, problems, todo, fresh, open, waiting, gates, job,
          executed, deferred, undiagnosed>>

Idle == [stage |-> "idle"]
Busy == {h \in Handler : job[h] # Idle}

\* A heal attempt is a retry, a playbook replay or a fresh diagnosis.
Attempt == {"retry", "replay", "diagnosed"}
Ask(i, how) == [stage |-> "asked", inc |-> i, how |-> how]

Init ==
  /\ phase = "idle"
  /\ problems = {} /\ todo = {} /\ fresh = {} /\ open = {} /\ waiting = {}
  /\ used = 0 /\ suspended = FALSE /\ announced = FALSE
  /\ job = [h \in Handler |-> Idle]
  /\ executed = 0 /\ deferred = {} /\ undiagnosed = {}

-----------------------------------------------------------------------------
\* The sweep goroutine.

\* Mutant: the allowance is built once, not once per sweep.
StartSweepSpent ==
  /\ phase = "idle"
  /\ phase' = "observe"
  /\ problems' \in SUBSET Incident
  /\ todo' = problems'
  /\ suspended' = FALSE /\ executed' = 0
  /\ UNCHANGED <<fresh, open, waiting, used, announced, job, deferred, undiagnosed>>

\* newSweepState: a new allowance, and no suspension.
StartSweep ==
  /\ phase = "idle"
  /\ phase' = "observe"
  /\ problems' \in SUBSET Incident
  /\ todo' = problems'
  /\ used' = 0 /\ suspended' = FALSE /\ executed' = 0
  /\ UNCHANGED <<fresh, open, waiting, announced, job, deferred, undiagnosed>>

\* The next problem is observed: it opens an incident or is seen again.
Observed(i) ==
  /\ phase = "observe" /\ Busy = {} /\ \A j \in todo : i <= j
  /\ todo' = todo \ {i}
  /\ open' = open \cup {i}
  /\ fresh' = IF i \in open THEN fresh ELSE fresh \cup {i}
  /\ UNCHANGED <<phase, problems, waiting, gates, executed, deferred, undiagnosed>>

\* Its incident's remembered heal, if there is one, is retried on this goroutine.
Observe(h) == \E i \in todo :
  /\ Observed(i)
  /\ job' = IF i \in waiting THEN [job EXCEPT ![h] = Ask(i, "retry")] ELSE job

\* ... unless the evidence for it cannot be collected.
ObserveUnread == \E i \in todo \cap waiting :
  /\ Observed(i)
  /\ UNCHANGED job

\* Surge, over the distinct workloads that fail.
Surge ==
  /\ SurgePercent > 0 /\ Workloads > 0 /\ Workloads >= SurgeMin
  /\ Cardinality(problems) * 100 >= SurgePercent * Workloads

\* The first MaxAlerts incidents, in the order they were observed.
Capped(new) ==
  IF MaxAlerts = 0 THEN new
  ELSE {i \in new : Cardinality({j \in new : j < i}) < MaxAlerts}

\* A proposal is stored on its incident and goes with it.
Proposals(S, quiet) == S \ quiet

\* All problems are observed: suspend healing if they look like a surge, reap the
\* incidents that have gone quiet, and hand over the new ones.
Correlated ==
  /\ phase = "observe" /\ todo = {} /\ Busy = {}
  /\ phase' = "handle"
  /\ suspended' = Surge /\ announced' = Surge
  /\ \E quiet \in SUBSET (open \ problems) :
       /\ open' = open \ quiet
       /\ waiting' = Proposals(waiting, quiet)
       /\ deferred' = Proposals(deferred, quiet)
       /\ undiagnosed' = Proposals(undiagnosed, quiet)
  /\ fresh' = Capped(fresh)
  /\ UNCHANGED <<problems, todo, used, job, executed>>

\* handleAll has joined its handlers.
EndSweep ==
  /\ phase = "handle" /\ fresh = {} /\ Busy = {}
  /\ phase' = "idle"
  /\ UNCHANGED <<problems, todo, fresh, open, waiting, gates, job,
                 executed, deferred, undiagnosed>>

-----------------------------------------------------------------------------
\* A handler.

\* handle takes an incident: it has a remedy to replay or a fresh diagnosis, or
\* gives up because the evidence or the diagnosis cannot be had.
Handle(h) ==
  /\ phase = "handle" /\ job[h] = Idle
  /\ \E i \in fresh :
       /\ fresh' = fresh \ {i}
       /\ \/ \E how \in {"replay", "diagnosed"} : job' = [job EXCEPT ![h] = Ask(i, how)]
          \/ UNCHANGED job
  /\ UNCHANGED <<phase, problems, todo, open, waiting, gates,
                 executed, deferred, undiagnosed>>

\* Mutant: a diagnosed heal that did not run is not remembered.
ForgetProposal(h) ==
  /\ UNCHANGED waiting
  /\ \/ /\ job[h].how = "replay"
        /\ job' = [job EXCEPT ![h] = Ask(@.inc, "diagnosed")]
        /\ UNCHANGED undiagnosed
     \/ /\ job' = [job EXCEPT ![h] = Idle]
        /\ undiagnosed' = IF job[h].how = "replay" THEN undiagnosed \cup {job[h].inc}
                          ELSE undiagnosed

\* The attempt did not execute.  After a replay the model is asked: its proposal is
\* the next attempt, or the diagnosis fails and nothing is remembered.  A diagnosed
\* heal is remembered for the next sweeps, and one that was retried still is.
Unhealed(h) ==
  \/ /\ job[h].how = "replay"
     /\ job' = [job EXCEPT ![h] = Ask(@.inc, "diagnosed")]
     /\ UNCHANGED <<waiting, undiagnosed>>
  \/ /\ job[h].how = "replay"
     /\ job' = [job EXCEPT ![h] = Idle]
     /\ undiagnosed' = undiagnosed \cup {job[h].inc}
     /\ UNCHANGED waiting
  \/ /\ job[h].how # "replay"
     /\ job' = [job EXCEPT ![h] = Idle]
     /\ waiting' = IF job[h].how = "diagnosed" THEN waiting \cup {job[h].inc} ELSE waiting
     /\ UNCHANGED undiagnosed

\* maybeHeal finds healing suspended.
Suspended(h) ==
  /\ job[h].stage = "asked" /\ suspended
  /\ Unhealed(h)
  /\ UNCHANGED <<phase, problems, todo, fresh, open, gates,
                 executed, deferred>>

\* Take finds the allowance spent.
BudgetSpent(h) ==
  /\ job[h].stage = "asked" /\ ~suspended
  /\ MaxPerSweep > 0 /\ used >= MaxPerSweep
  /\ Unhealed(h)
  /\ deferred' = deferred \cup {job[h].inc}
  /\ UNCHANGED <<phase, problems, todo, fresh, open, gates, executed>>

\* Take compares the counter with the limit.
TakeRead(h) ==
  /\ job[h].stage = "asked" /\ ~suspended
  /\ MaxPerSweep = 0 \/ used < MaxPerSweep
  /\ job' = [job EXCEPT ![h] = [stage |-> "taking", inc |-> @.inc, how |-> @.how,
                                seen |-> used]]
  /\ UNCHANGED <<phase, problems, todo, fresh, open, waiting, gates,
                 executed, deferred, undiagnosed>>

\* Mutant: the allowance is checked but not consumed.
Unspent(seen) == seen

\* The count after one more heal; an unlimited allowance is not counted.
Spent(seen) == IF MaxPerSweep = 0 THEN seen ELSE seen + 1

\* ... and increments it.
TakeWrite(h) ==
  /\ job[h].stage = "taking"
  /\ used' = Spent(job[h].seen)
  /\ job' = [job EXCEPT ![h] = [stage |-> "taken", inc |-> @.inc, how |-> @.how]]
  /\ UNCHANGED <<phase, problems, todo, fresh, open, waiting, suspended, announced,
                 executed, deferred, undiagnosed>>

\* The other gates let the heal through and it executes.
Execute(h) ==
  /\ job[h].stage = "taken"
  /\ executed' = executed + 1
  /\ waiting' = waiting \ {job[h].inc} /\ deferred' = deferred \ {job[h].inc}
  /\ job' = [job EXCEPT ![h] = Idle]
  /\ UNCHANGED <<phase, problems, todo, fresh, open, gates, undiagnosed>>

\* They do not; the allowance it took is gone.
Decline(h) ==
  /\ job[h].stage = "taken"
  /\ Unhealed(h)
  /\ UNCHANGED <<phase, problems, todo, fresh, open, gates, executed, deferred>>

HandlerStep(h) ==
  \/ Observe(h)
  \/ Handle(h)
  \/ Suspended(h)
  \/ BudgetSpent(h)
  \/ TakeRead(h)
  \/ TakeWrite(h)
  \/ Execute(h)
  \/ Decline(h)

Next ==
  \/ StartSweep
  \/ ObserveUnread
  \/ Correlated
  \/ EndSweep
  \/ \E h \in Handler : HandlerStep(h)

\* The poll loop keeps sweeping and no handler blocks for ever.
Spec == Init /\ [][Next]_vars /\ WF_vars(Next)

-----------------------------------------------------------------------------

Job ==
  {Idle}
  \cup [stage : {"asked", "taken"}, inc : Incident, how : Attempt]
  \cup [stage : {"taking"}, inc : Incident, how : Attempt, seen : Nat]

\* Every variable keeps its type; only open incidents are handled or waiting.
TypeOK ==
  /\ phase \in {"idle", "observe", "handle"}
  /\ problems \in SUBSET Incident
  /\ open \in SUBSET Incident /\ todo \in SUBSET problems
  /\ fresh \in SUBSET open /\ waiting \in SUBSET open
  /\ deferred \in SUBSET open /\ undiagnosed \in SUBSET open
  /\ used \in Nat /\ suspended \in BOOLEAN /\ announced \in BOOLEAN
  /\ job \in [Handler -> Job]
  /\ executed \in Nat

\* No more heals execute in a sweep than its allowance, counting retries,
\* replays and diagnosed heals together (cluster.go:23).
BudgetRespected == MaxPerSweep > 0 => executed <= MaxPerSweep

\* A heal the allowance had no room for is not dropped: once its handler is done with
\* it, it waits for a later sweep as long as its incident is open.  The exception is a
\* replay after which the diagnosis failed: handle returns before it remembers anything.
DeferredNotDropped ==
  \A i \in deferred : i \in waiting \/ i \in undiagnosed \/ \E h \in Busy : job[h].inc = i

\* Once the other gates let through what the allowance admits and evidence can be had,
\* a waiting heal whose workload keeps failing is eventually executed, however many
\* others compete for the allowance and in whatever order they are listed.
Stuck(i) == i \in waiting /\ i \in problems /\ ~Surge
GatesOpen == <>[][~ObserveUnread /\ \A h \in Handler : ~Decline(h)]_vars
DeferredRuns == GatesOpen => \A i \in Incident : []<>~Stuck(i)

=============================================================================
