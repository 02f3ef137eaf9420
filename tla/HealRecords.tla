----------------------------- MODULE HealRecords -----------------------------
(***************************************************************************)
(* The life of an applied heal: the handler patches the controller, then   *)
(* records the patch in a ConfigMap by loading and rewriting the whole     *)
(* record set; a later sweep judges the records that are due, keeps or     *)
(* rolls back the change, and deletes the record (internal/heal/store.go,  *)
(* record.go, executor.go; maybeHeal, verifyHeals and rollback in          *)
(* internal/agent/agent.go).                                               *)
(*                                                                         *)
(* A sweep runs through three phases: it observes problems and retries     *)
(* heals on its own goroutine, verifies on the same goroutine, and then    *)
(* hands new incidents to concurrent handlers, which it joins.  The        *)
(* process can crash between any two steps; calls can fail.                *)
(*                                                                         *)
(* Heals are numbered, and the number of a heal names the value it wrote;  *)
(* 0 is a workload's original value.                                       *)
(***************************************************************************)
EXTENDS Integers, Sequences, FiniteSets

CONSTANTS
  Workload,  \* controllers
  Pod,       \* pod slots; a rollout fills a slot with a pod of another name
  Owner,     \* the controller of each pod
  Handler,   \* goroutines that can heal at once: PODSMEDIC_CONCURRENCY of them
  NoRecord,  \* a controller key absent from the record set
  MaxHeals,  \* heals that land: bounds the model
  MaxFaults  \* crashes and failed calls: bounds the model

ASSUME HealRecordsAssumption ==
  /\ Owner \in [Pod -> Workload]
  /\ NoRecord \notin [id : Nat, old : Nat]
  /\ MaxHeals \in Nat /\ MaxFaults \in Nat

VARIABLES
  phase,      \* "observe", "verify" or "handle"
  tried,      \* pods whose heal was attempted this sweep
  unhealthy,  \* unhealthyControllers of this sweep
  due,        \* the records verifyHeals has listed and not judged yet
  settling,   \* the workload whose record it is about to delete, if any
  job,        \* what each handler is doing
  cooled,     \* healSeen: pods within their heal cooldown
  target,     \* the workload of each heal that landed
  origin,     \* history: what each of them replaced, and whether its evidence was stale
  spec,       \* the value in each controller's pod template
  running,    \* the value the pod in each slot was created with
  cm,         \* the ConfigMap: the record of each controller key
  ripe,       \* the first `ripe` heals are past their VerifyAfter
  book,       \* the heal the playbook would replay for a workload, or 0
  undone,     \* history: heals that were rolled back
  faults      \* faults so far

memory == <<phase, tried, unhealthy, due, settling, job, cooled>>
vars == <<memory, target, origin, spec, running, cm, ripe, book, undone, faults>>

NoRecords == [w \in Workload |-> NoRecord]
Idle == [stage |-> "idle"]
Busy == {h \in Handler : job[h] # Idle}
Heals == Len(target)

Fault == faults < MaxFaults /\ faults' = faults + 1

Init ==
  /\ phase = "observe" /\ tried = {} /\ unhealthy \in SUBSET Workload
  /\ due = NoRecords /\ settling = {}
  /\ job = [h \in Handler |-> Idle] /\ cooled = {}
  /\ target = <<>> /\ origin = <<>> /\ ripe = 0
  /\ spec = [w \in Workload |-> 0] /\ running = [p \in Pod |-> 0]
  /\ cm = NoRecords
  /\ book = [w \in Workload |-> 0] /\ undone = {}
  /\ faults = 0

-----------------------------------------------------------------------------
\* A handler, or the sweep itself retrying a remembered heal.

\* History: the values pod and controller have when the evidence is collected, and
\* whether a heal replaces the only one: no rollout or other heal came between.
Seen(p) == {running[p], spec[Owner[p]]}
Origin(w, seen) == [before |-> spec[w], stale |-> seen # {spec[w]}]

\* Mutant: a handler of the last sweep may still start while records are judged.
CollectAnytime(h, p) ==
  /\ p \notin tried /\ job[h] = Idle
  /\ tried' = tried \cup {p}
  /\ job' = [job EXCEPT ![h] = [stage |-> "collected", pod |-> p, old |-> running[p],
                                seen |-> Seen(p)]]
  /\ UNCHANGED <<phase, unhealthy, due, settling, cooled,
                 target, origin, spec, running, cm, ripe, book, undone, faults>>

\* Collect the evidence: the values of the failing pod, not of its controller.
\* Retries run one at a time.
Collect(h, p) ==
  /\ phase # "verify" /\ p \notin tried
  /\ phase = "observe" => Busy = {}
  /\ job[h] = Idle
  /\ tried' = tried \cup {p}
  /\ job' = [job EXCEPT ![h] = [stage |-> "collected", pod |-> p, old |-> running[p],
                                seen |-> Seen(p)]]
  /\ UNCHANGED <<phase, unhealthy, due, settling, cooled,
                 target, origin, spec, running, cm, ripe, book, undone, faults>>

\* Mutant: the values to restore are those the controller has after the patch.
ExecuteBlind(h) ==
  /\ job[h].stage = "collected" /\ job[h].pod \notin cooled /\ Heals < MaxHeals
  /\ target' = Append(target, Owner[job[h].pod])
  /\ origin' = Append(origin, Origin(Owner[job[h].pod], job[h].seen))
  /\ spec' = [spec EXCEPT ![Owner[job[h].pod]] = Heals + 1]
  /\ cooled' = cooled \cup {job[h].pod}
  /\ job' = [job EXCEPT ![h] = [stage |-> "applied", old |-> Heals + 1, id |-> Heals + 1]]
  /\ UNCHANGED <<phase, tried, unhealthy, due, settling,
                 running, cm, ripe, book, undone, faults>>

\* maybeHeal passes the cooldown, which is kept per pod and container, and the
\* executor patches the controller.
Execute(h) ==
  LET p == job[h].pod
      i == Heals + 1
  IN /\ job[h].stage = "collected" /\ p \notin cooled /\ Heals < MaxHeals
     /\ cooled' = cooled \cup {p}
     /\ target' = Append(target, Owner[p])
     /\ origin' = Append(origin, Origin(Owner[p], job[h].seen))
     /\ spec' = [spec EXCEPT ![Owner[p]] = i]
     /\ job' = [job EXCEPT ![h] = [stage |-> "applied", old |-> job[h].old, id |-> i]]
     /\ UNCHANGED <<phase, tried, unhealthy, due, settling,
                    running, cm, ripe, book, undone, faults>>

\* The heal is declined, or the patch is refused after the cooldown has begun.
Decline(h) ==
  /\ job[h].stage = "collected"
  /\ cooled' \in {cooled, cooled \cup {job[h].pod}}
  /\ job' = [job EXCEPT ![h] = Idle]
  /\ UNCHANGED <<phase, tried, unhealthy, due, settling,
                 target, origin, spec, running, cm, ripe, book, undone, faults>>

\* Save reads the record set.
Load(h) ==
  /\ job[h].stage = "applied"
  /\ job' = [job EXCEPT ![h] = [stage |-> "loaded", old |-> job[h].old,
                                id |-> job[h].id, recs |-> cm]]
  /\ UNCHANGED <<phase, tried, unhealthy, due, settling, cooled,
                 target, origin, spec, running, cm, ripe, book, undone, faults>>

\* Mutant: the set is rewritten with the new record only.
UpsertOnly(recs, i, old) == [NoRecords EXCEPT ![target[i]] = [id |-> i, old |-> old]]

\* upsert: one record per controller key.
Upsert(recs, i, old) == [recs EXCEPT ![target[i]] = [id |-> i, old |-> old]]

\* ... and writes it back with the new record.
Put(h) ==
  /\ job[h].stage = "loaded"
  /\ cm' = Upsert(job[h].recs, job[h].id, job[h].old)
  /\ job' = [job EXCEPT ![h] = Idle]
  /\ UNCHANGED <<phase, tried, unhealthy, due, settling, cooled,
                 target, origin, spec, running, ripe, book, undone, faults>>

\* Save fails, in its read or its write: the patch stays, without a record.
SaveFails(h) ==
  /\ job[h].stage \in {"applied", "loaded"}
  /\ Fault
  /\ job' = [job EXCEPT ![h] = Idle]
  /\ UNCHANGED <<phase, tried, unhealthy, due, settling, cooled,
                 target, origin, spec, running, cm, ripe, book, undone>>

-----------------------------------------------------------------------------
\* verifyHeals.

\* The records whose window has elapsed.
Listed == [w \in Workload |->
             IF cm[w] # NoRecord /\ cm[w].id <= ripe THEN cm[w] ELSE NoRecord]

\* List the due records; when the list cannot be read nothing is judged.
List ==
  /\ phase = "observe" /\ Busy = {}
  /\ phase' = "verify"
  /\ \/ due' = Listed /\ UNCHANGED faults
     \/ due' = NoRecords /\ Fault
  /\ UNCHANGED <<tried, unhealthy, settling, job, cooled,
                 target, origin, spec, running, cm, ripe, book, undone>>

Judging(w) == phase = "verify" /\ settling = {} /\ due[w] # NoRecord

\* VerdictHealthy: the remedy is learned, and its record is to go.
Verified(w) ==
  /\ Judging(w) /\ w \notin unhealthy
  /\ book' = [book EXCEPT ![w] = due[w].id]
  /\ settling' = {w}
  /\ due' = [due EXCEPT ![w] = NoRecord]
  /\ UNCHANGED <<phase, tried, unhealthy, job, cooled,
                 target, origin, spec, running, cm, ripe, undone, faults>>

\* VerdictRollback: the remedy is forgotten and the recorded values are patched
\* back; only then is the record to go.
Rollback(w) ==
  /\ Judging(w) /\ w \in unhealthy
  /\ book' = [book EXCEPT ![w] = 0]
  /\ due' = [due EXCEPT ![w] = NoRecord]
  /\ \/ /\ spec' = [spec EXCEPT ![w] = due[w].old]
        /\ undone' = undone \cup {due[w].id}
        /\ settling' = {w}
        /\ UNCHANGED faults
     \/ Fault /\ UNCHANGED <<spec, undone, settling>>
  /\ UNCHANGED <<phase, tried, unhealthy, job, cooled, target, origin, running, cm, ripe>>

\* Mutant: the record set is written back as it was read.
RemoveNothing(w) == cm

\* remove: the record set without the workload's record.
Remove(w) == [cm EXCEPT ![w] = NoRecord]

\* Delete, which can fail and leave the record to the next sweep.
Delete(w) ==
  /\ settling = {w}
  /\ settling' = {}
  /\ \/ cm' = Remove(w) /\ UNCHANGED faults
     \/ Fault /\ UNCHANGED cm
  /\ UNCHANGED <<phase, tried, unhealthy, due, job, cooled,
                 target, origin, spec, running, ripe, book, undone>>

\* The handlers may start.
EndVerify ==
  /\ phase = "verify" /\ settling = {} /\ due = NoRecords
  /\ phase' = "handle"
  /\ UNCHANGED <<tried, unhealthy, due, settling, job, cooled,
                 target, origin, spec, running, cm, ripe, book, undone, faults>>

\* handleAll has joined its handlers, and the next sweep finds its own problems.
NextSweep ==
  /\ phase = "handle" /\ Busy = {}
  /\ phase' = "observe" /\ tried' = {}
  /\ unhealthy' \in SUBSET Workload
  /\ UNCHANGED <<due, settling, job, cooled,
                 target, origin, spec, running, cm, ripe, book, undone, faults>>

-----------------------------------------------------------------------------
\* The cluster, the clock and the machine.

\* The rollout replaces a pod by one of another name, unknown to the cooldown.
Rollout(p) ==
  /\ running[p] # spec[Owner[p]]
  /\ running' = [running EXCEPT ![p] = spec[Owner[p]]]
  /\ cooled' = cooled \ {p}
  /\ UNCHANGED <<phase, tried, unhealthy, due, settling, job,
                 target, origin, spec, cm, ripe, book, undone, faults>>

CooldownEnds(p) ==
  /\ p \in cooled
  /\ cooled' = cooled \ {p}
  /\ UNCHANGED <<phase, tried, unhealthy, due, settling, job,
                 target, origin, spec, running, cm, ripe, book, undone, faults>>

\* Another heal is past its VerifyAfter.
Ripen ==
  /\ ripe < Heals
  /\ ripe' = ripe + 1
  /\ UNCHANGED <<memory, target, origin, spec, running, cm, book, undone, faults>>

\* The process dies and another starts with a sweep.
Crash ==
  /\ Fault
  /\ phase' = "observe" /\ tried' = {} /\ unhealthy' \in SUBSET Workload
  /\ due' = NoRecords /\ settling' = {}
  /\ job' = [h \in Handler |-> Idle] /\ cooled' = {}
  /\ UNCHANGED <<target, origin, spec, running, cm, ripe, book, undone>>

HandlerStep(h) == Execute(h) \/ Decline(h) \/ Load(h) \/ Put(h) \/ SaveFails(h)

SweepStep ==
  \/ List
  \/ \E w \in Workload : Verified(w) \/ Rollback(w) \/ Delete(w)
  \/ EndVerify
  \/ NextSweep

Next ==
  \/ \E h \in Handler, p \in Pod : Collect(h, p)
  \/ \E h \in Handler : HandlerStep(h)
  \/ SweepStep
  \/ \E p \in Pod : Rollout(p) \/ CooldownEnds(p)
  \/ Ripen
  \/ Crash

Spec == Init /\ [][Next]_vars

\* The poll loop keeps sweeping, handlers return, and time passes.
FairSpec ==
  /\ Spec
  /\ WF_vars(SweepStep)
  /\ \A h \in Handler : WF_vars(HandlerStep(h))
  /\ WF_vars(Ripen)

-----------------------------------------------------------------------------

HealId == 0 .. MaxHeals
Record == [id : 1 .. MaxHeals, old : HealId]
RecordSet == [Workload -> Record \cup {NoRecord}]

Job ==
  {Idle}
  \cup [stage : {"collected"}, pod : Pod, old : HealId, seen : SUBSET HealId]
  \cup [stage : {"applied"}, old : HealId, id : 1 .. MaxHeals]
  \cup [stage : {"loaded"}, old : HealId, id : 1 .. MaxHeals, recs : RecordSet]

\* Every variable keeps its type.
TypeOK ==
  /\ phase \in {"observe", "verify", "handle"}
  /\ tried \in SUBSET Pod /\ cooled \in SUBSET Pod
  /\ unhealthy \in SUBSET Workload /\ settling \in SUBSET Workload
  /\ due \in RecordSet /\ cm \in RecordSet
  /\ job \in [Handler -> Job]
  /\ target \in Seq(Workload) /\ Heals <= MaxHeals
  /\ origin \in Seq([before : HealId, stale : BOOLEAN]) /\ Len(origin) = Heals
  /\ spec \in [Workload -> HealId] /\ running \in [Pod -> HealId]
  /\ ripe \in HealId /\ book \in [Workload -> HealId]
  /\ undone \in SUBSET (1 .. MaxHeals)
  /\ faults \in 0 .. MaxFaults

Own(w, i) == i = 0 \/ (i \in DOMAIN target /\ target[i] = w)

\* No heal of the workload was decided on a pod that its controller had moved on from.
Current(w) == \A i \in DOMAIN target : target[i] = w => ~origin[i].stale

\* A record is about a heal of its own workload.  Unless that heal was decided on a pod
\* of an older template, what it would restore is exactly what the heal replaced
\* (record.go:10-12); and unless an earlier one was, that is no value which had itself
\* been rolled back, whichever handler wrote last and whatever crashed or failed.
RecordsFaithful ==
  \A w \in Workload :
    cm[w] # NoRecord =>
      /\ cm[w].id # 0 /\ Own(w, cm[w].id)
      /\ ~origin[cm[w].id].stale => cm[w].old = origin[cm[w].id].before
      /\ Current(w) => cm[w].old \notin undone

\* What verifyHeals is judging is what the ConfigMap holds: no handler runs
\* meanwhile, so no verdict is applied to a record that was superseded.
VerdictsCurrent ==
  \A w \in Workload : due[w] # NoRecord => due[w] = cm[w]

Contract == INSTANCE HealContract WITH record <- cm
\* The records implement the contract: a recorded heal is not forgotten, by a
\* crash at any point or by any failed call.
ImplementsContract == Contract!Spec

\* A recorded heal is eventually verified or rolled back, and its record goes.
RecordsSettle ==
  \A w \in Workload : cm[w] # NoRecord ~> cm[w] = NoRecord

\* No heal lands on a workload whose last recorded heal is still within its
\* verification window (README.md:309, "nor re-heal a workload that is still
\* settling").
SettlingNotRehealed ==
  [][Heals < Len(target') =>
       LET w == target'[Len(target')]
       IN cm[w] # NoRecord => cm[w].id <= ripe]_vars

\* Unless a crash or a failed call lets a record outlive its rollback, no remedy
\* that was rolled back is ever offered for replay.
RolledBackNotReplayed ==
  faults = 0 => \A w \in Workload : book[w] \notin undone
=============================================================================
