# PodsMedic in TLA+

PodsMedic polls a Kubernetes cluster, groups what is failing into incidents, asks a language model for a diagnosis,
and may patch the failing workload's controller. What can go wrong is seldom in a single function but in what
surrounds the patch: evidence that is older than the cluster, a validator that must hold whatever the model
proposes, several brakes consulted by concurrent handlers, heals judged minutes after they were made, remedies
replayed later, a leader that is replaced, and state that has to survive a restart in ConfigMaps that can fail to
be read or written. These modules model those parts, check them with TLC, and prove with TLAPS the safety
properties (one of them under a premise) and the refinement that the runs check: of the circuit breaker, the playbook, the cluster-wide brakes, the
heal records, the validator with the capacity behind it and the rollback of what it lets through, the incident
store, the leader election with digest and audit trail, detection and the live view, and the sizing report.
Liveness stays with TLC.

Paths below are relative to the repository root; `agent.go` is `internal/agent/agent.go`.

## The system

| Component (source) | State it keeps | Operations | What makes it correct |
|---|---|---|---|
| Sweep (`agent.go`: sweep, handleAll, handle, maybeHeal, maybeRetryHeal) | the sweep's own `sweepState`; the components below | one poll: observe and retry, look for a surge, verify, reap, retire, save, digest, then handle new incidents concurrently | the order of those steps; brakes are consulted before each change |
| Detection (`internal/detect`), prediction (`internal/predict`) | a streak per container (prediction) | Pods; Observe | what is broken is found; a forecast needs a streak and never outranks a failure |
| Incident store (`internal/incident`) | open incidents, dirty flag; ConfigMap `incidents.json` | Observe, Reap, SetHealProposal, MarkHealed, Snapshot, Restore | one alert and one heal per incident, every symptom told, resolved when quiet, restart-proof |
| Heal validation (`internal/heal/validate.go`) | none | Validate, per kind of action | whatever is proposed, an accepted plan is within its bounds and fits the cluster |
| Capacity (`internal/capacity`, `k8s/capacity.go`) | none; one snapshot per sweep | FitAdditional, Fits, PodRequests, TargetReplicas | room is counted node by node, with a reserve |
| Executor (`internal/heal/executor.go`, `internal/k8s/heal.go`) | none; the cluster | Execute, Rollback | patches the resolved controller, or nothing; a rollback restores what was there |
| Cluster-wide brakes (`internal/breaker/cluster.go`, `agent/surge.go`) | allowance of the sweep, suspension, "announced" | Budget.Take, Surge | no sweep heals more than its allowance; what is held back runs later |
| Circuit breaker (`internal/breaker/breaker.go`) | per workload: heals, rollbacks, open-until | Allowed, OnHeal, OnRollback | trips at the limits, stays open long enough, bounds churn |
| Heal cooldown (`internal/dedupe`) | last heal per pod and container | ShouldAlert | a settling workload is not healed again |
| Heal records (`internal/heal/store.go`, `record.go`) | ConfigMap `records.json`: one record per controller | Save, List, Delete (each reads and rewrites the whole set) | a recorded heal is verified or rolled back, to a value the workload had |
| Playbook (`internal/playbook`) | verified remedies, scars with quarantines; ConfigMap | Record, Fail, Retire, Lookup, MarkHit, Evict, Restore | no failed, quarantined or expired remedy is replayed; bounded |
| Leader election (`internal/lease`, `cmd/podsmedic`) | the Lease object | Run, active | only one replica leads |
| Digest (`internal/digest`, `agent/digest.go`) | cursor, tally | Due, Take | one summary a day, across restarts and leaders |
| Audit trail (`internal/audit`) | ConfigMap list, bounded | Append, List | applied changes are on record |
| Live stream (`internal/live`, `k8s/watch.go`) | the informer's copies, a ring, subscriber queues | Transitions, Publish, Subscribe | what it says last of a pod is true; slow readers never block the agent |
| Rightsizing (`internal/rightsize`, `agent/rightsizing.go`) | usage history per container; ConfigMap | Observe, Findings, Forget, Restore | bounded; its advice is sufficient and final |
| Chat (`internal/chat`), UI (`internal/ui`), nodes, reports, notify, llm, config, metrics | rate windows, sessions, cooldowns | report-only, I/O | never change the cluster |

**Interactions.** A replica that becomes leader runs `Agent.Run`, one goroutine: it loads the ConfigMaps, then
sweeps on a ticker. Only the last step of a sweep is concurrent: `handleAll` starts a goroutine per new incident
(at most `Concurrency` at a time) and joins them. Handlers share the sweep's allowance (no lock), its snapshot of
the nodes, the breaker, the cooldown, the playbook and the incident store (each with its mutex), and the two
ConfigMaps of records and audit events (no lock around the read-modify-write). Verification, reaping, retirement
and saving run on the sweep goroutine, before the handlers. The watch runs beside all this and only feeds the live
view.

**Hard behaviours.** Handlers that pass a gate together; a gate passed before the breaker trips; a plan sized on a
snapshot or a pod that is out of date; verdicts applied later than the evidence they are based on; a crash between
patch and record, between rollback and deletion of the record, between what handlers learn and the next save,
between a stamp and its save; a request of an old leader that lands late; ConfigMap calls that fail, or succeed
without saying so; states the watch never shows; timers at the edge of a window; deferred work that must not
starve. `PROJECT.json` lists these hazards at their lines, with the properties aimed at each.

## Modules

| Module | Models | Run |
|---|---|---|
| `Breaker`, `BreakerProofs` | the circuit breaker between the handlers that ask it and the verdicts that trip it | `breaker` |
| `Playbook`, `PlaybookProofs` | the playbook, the verdicts it learns from, replay, retirement, save, crash | `playbook` |
| `HealContract` | abstract: a recorded heal is not forgotten | refined by `HealRecords` |
| `HealRecords`, `HealRecordsProofs` | patch, record, verify, roll back, delete; rollouts, cooldown, crashes | `heal_records`, `reheal_settling` |
| `SweepGate`, `SweepGateProofs` | allowance and surge across retries, replays and handlers | `sweep_gate`, `budget_race` |
| `Incidents`, `IncidentsProofs` | the incident store through sweeps, saves, loads and crashes | `incidents` |
| `Capacity` | operators: headroom, fit, pod requests, target replicas | used by the next three |
| `Validator` | operators: the gates and every kind of action | used by the next two |
| `Remedies` | evidence, validation, patch, record and rollback of one workload that people and rollouts change too | `remedies` |
| `ScaleUp` | a sweep's shared evidence, scale-ups, the scheduler and the nodes | `scale_up` |
| `ValidatorProofs` | the proofs of `Remedies` and `ScaleUp`, over one set of lemmas about capacity | |
| `Detection` | operators: what is wrong with a pod, forecasts, transitions | used by `Watch` |
| `Watch` | a pod, its kubelet and the clock, seen by sweeps and by the informer | `watch` |
| `Leadership`, `LeadershipProofs` | replicas, the lease, the digest's cursor, the audit trail | `leadership` |
| `Rightsize` | the usage history, its findings, save, restart, edited manifests | `rightsize` |
| `AdviceProofs` | the proofs of `Watch` and `Rightsize`, which only tell people | |

`MC*.tla` instantiate them; each `.cfg` is one run. The definitions whose comment begins with "Mutant" are
plausible bugs that no action uses; each property is refuted when one of them replaces the definition it stands
next to.

**Breaker.** `st[k]` is the map entry of a workload, a missing entry being the fresh one. A slice of timestamps is
a count per instant, since only its length and what a cutoff keeps matter. `Admit` is `Allowed` followed by
maybeHeal going on; between it and `OnHeal` (or `Abandon`) other handlers run. `OnRollback` needs no handler in
flight, because verification and handlers are in different phases of a sweep.

**Playbook.** A tick is a sweep. An entry is the time of its last verification and the remedy itself is opaque. In
a sweep each pair gets at most one verdict (there is one record per controller); then `Retire`, `Persist` or
`PersistFails`, as often as it likes, and the handlers' `Replay` and `Evict`. `Crash` restarts from the saved book,
or from an empty one when it cannot be read. The histories are what the cluster saw and no restart takes back:
`verdict` is the last one on each pair, whichever process gave it, `unsaved` the failures since the last save that
succeeded, and `lost` those of them whose process died before it could save.

**HealRecords.** Heals are numbered and the number of a heal is the value it wrote into the controller's template.
`running` is what the pod in a slot was created with, which is what the evidence shows; `spec` is the controller.
`Load` and `Put` are the two halves of `Save`. `origin` is history: the value each heal replaced, and whether its
evidence was stale, that is, whether pod and controller had any other value between the collection of the evidence
and the patch. A retry on the sweep goroutine is a handler that runs alone in phase
"observe". Which workloads a sweep finds failing is arbitrary. `Contract!Spec` (`HealContract`, with `record` the
ConfigMap) is checked as a property: whatever the interleaving, crash or failed call, a committed record goes only
when its heal is past its window or superseded by a later one.

**SweepGate.** One incident per workload, observed in listing order. `TakeRead` and `TakeWrite` are the two halves
of `Budget.Take`. Everything behind the two brakes (validator, breaker, cooldown, GitOps guard, API) is one choice,
`Execute` or `Decline`, that any heal may meet at any time, after it has taken from the allowance. `Unhealed` is
what follows when a heal did not execute: after a replay comes a diagnosis, which gives a proposal or fails; in the
second case `handle` returns and remembers nothing (`undiagnosed`). A retry whose evidence cannot be collected is
`ObserveUnread`.

**Incidents.** A timestamp is an age in poll intervals, capped just past `ResolveAfter`; `StartSweep` lets one
interval pass. Problems are observed in any order, because detected and predicted problems of the same containers
arrive in different orders in different sweeps. Whether a heal attempt applies is open.

**Capacity, Validator.** Pure operators, translated function by function. What a heal can set is a set of keys
`<<group, field>>`; a container, a proposal and a plan's change are functions from keys to values, 0 being unset.
`Validate` returns the set of plans it accepts: one, or none. Ratios are exact fractions and confidence is a rank. A
sum over pods, nodes or containers (`Total`) is the number of units in it: a set of pairs, which needs no recursion
and which a proof can deal out one by one.

**Remedies.** `Collect` takes the evidence from the failing pod (`pod`), not from its controller's `template`, and
each read in it may fail. `Heal` validates any proposal on that evidence and carries out the plan on the template;
the record is saved or not. In between `Edit`, `Rollout` and `ClaimMoves` change the cluster, and `Rollback`
patches the recorded values back. Two fields of a record are history: `was`, the evidence the heal was decided on,
and `before`, the template it replaced.

**ScaleUp.** `StartSweep` reads capacity, usage and autoscalers once, each of which may fail, and every handler of
the sweep uses that snapshot. `Schedule` binds a pod to a node with room (the scheduler knows of no reserve). The
demand on a workload is constant, shared by its running pods and throttled at their limits.

**Detection, Watch.** A pod's status is a record with the fields that the code reads. `Watch` has one action per
thing a kubelet, a scheduler or the clock does to it; `Fail` ends the pod for any of several reasons, of which
eviction is one. The statuses of init containers are left out, except that the application container waits for them
(`PodInitializing`). A streak stops counting at its threshold, which is a bound of the model: the code counts on.
`Sweep` judges it and counts streaks, `Deliver`
gives the informer a later state with any number of states in between left out, and `Replace` puts another pod
under the name.

**Leadership.** `age` is the time since the lease was renewed, `since` the time since an elector knows of its own
last renewal, whose answer may be lost. An elector sleeps for the retry period and then tries for the renew deadline;
if it cannot renew, it gives up (`GiveUp`), hands the lease back (`Release`, with `ReleaseOnCancel`) and only then
cancels its leader's context (`Cancel`): in `"releasing"` the leader goes on with its sweep. On SIGTERM the context is
cancelled first and the lease is handed back while the requests unwind (`"unwinding"`). An update of a ConfigMap whose
version is stale meets a conflict. `rivals` is history: the leaderships that began beside another live context. A digest that is due is stamped and sent in `MaybeDigest` and saved by the next
`PersistUpdate`.

**Rightsize.** CPU and memory are judged alike, so one resource stands for both. Time is kept as each entry's
window and idle time, capped where the thresholds no longer tell. The stalest of several equally old containers is
any of them (the iteration order of a Go map).

## What the runs show

| Run | Bounds | Result |
|---|---|---|
| `breaker` | 1 workload (they are independent), 3 handlers, limits 2 and 2, window and suspension of 3 ticks, 8 ticks: two trips with a clean slate between; symmetric handlers | 3 properties hold; 86,667 states |
| `playbook` | 3 pairs and room for 2, a quarantine that doubles once before its cap, decay shorter than the cap, 4 sweeps, 1 restart, any number of failed saves; symmetric pairs | 5 properties hold; 2,498,862 states |
| `heal_records` | 2 workloads, 1 handler, 2 heals, 1 fault; fairness | 5 properties hold, the contract among them; 374,096 states |
| `sweep_gate` | 3 incidents of 4 workloads, allowance 1, alert cap 2, surge at 75 % of at least 4, 1 handler; fairness | 3 properties hold; 22,995 states |
| `incidents` | one container with two symptoms and one with one, resolve after 1 interval, alert cap 1, 2 faults; fairness | 4 properties hold; 1,622,267 states |
| `remedies` | 3 workloads (with a sidecar, with init containers and neither request nor limit, a DaemonSet without a probe), 2 clusters (two small nodes; one with half of it in reserve), with and without apply, 8 proposals of 6 kinds, 2 heals, 1 edit: a heal upon a heal, a rollback upon an edit | 4 properties hold; 96,212 states |
| `scale_up` | 2 workloads, 2 nodes with uneven room, 4 worlds (derived and proposed targets, backstop, an HPA, pods without requests), 1 fault; fairness | 4 properties hold; 61,624 states |
| `leadership` | 2 replicas, 2 handlers; durations that leave room for the retry period (4, 2, 1 ticks), that `Validate` accepts but that do not (4, 3, 2), and that it refuses (3, 3, 2); one digest and two stops, or three appends to a trail of 2 events and one stop; fairness | 4 properties hold; 1,023,095 states |
| `watch` | 1 pod with 1 container and a volume, every grace period and streak at the first value where before and after differ, 2 restarts, 3 reasons to fail, one of them unnamed; fairness of clock and sweep | 4 properties hold; 205,225 states |
| `rightsize` | 2 workloads and an unowned pod, room for 1 history (so that which one is dropped is no choice), 2 samples over 1 interval, 2 usages on both sides of the requests; fairness | 3 properties hold; 1,301,951 states |

Some of these deserve a word. `HealRateBounded` is what an operator gets from the breaker: within any window at
most `MaxHeals` plus twice the heals that land on an open breaker, which are fewer than the handlers. `AlertedOnce`
and `PatchedOnce` differ: the incident is saved before it is alerted, so only a failed save or load repeats an
alert, whereas a heal is remembered in memory first and a crash within a poll interval forgets it. `RaisedPodFits`
and `ScaleUpPlaceable` check the validator against a definition of room that shares nothing with it: some node, or
some distribution over the nodes, takes the pods and keeps its reserve. `BrokenIsFound` does the same for
detection: it lists what an operator would call broken, and names the two things an operator might add that are
never found. `NoFailedRemedy` follows a verdict through restarts: only a process that died before it could save at
all forgets that a remedy failed. `RecordsFaithful` and `RollbackRestores` ask for exactly the value a heal replaced,
as `record.go:10-12` promises, of every heal whose evidence was current; what a stale pod leads to is below.
`OneLeader` says for which durations two electors never renew at once, and for how long they may otherwise.
`RepeatsAreLostStamps` counts: a digest is sent once more for every context that ended between stamp and save, every
leader that could not read the cursor and every leader that began beside a live context, and for nothing else.
`DigestOwedIsSent` leaves out a leader that starts without a saved cursor: it owes nothing from before its start.
`TrailExact` holds while Appends overlap: the order always, and what is missing was stored beside a reader or is
older than a full trail. `PressureRelieved` composes
validator, capacity, scheduler and sweep: every step is trimmed, and still the last one is taken. `ReportFills`
needs that the containers fit: with one more than `MaxTracked`, evictions can go round for ever.

`sweep_gate` and `heal_records` use one handler (`PODSMEDIC_CONCURRENCY=1`) because with two the races below break
their properties; with one, everything else about them still interleaves: retries, verification, rollouts, crashes.
The runs stay small because components that only share a call are in modules of their own.

`CHECK_DEADLOCK FALSE` is set where the bounds end the behaviour: the playbook's clock, the heals and edits of
`remedies`, the digests, events and stops of `leadership`.

### Where the code and its documentation disagree

Two are violation runs, with the property that states what the documentation says:

- `budget_race`: two handlers both get the last heal of the allowance (`cluster.go:23`).
- `reheal_settling`: the cooldown is per pod and container, so another replica, or the replacement pod, gets a
  second heal inside the verification window (`README.md:246`, `README.md:308`).

Others were met while modelling. The models do what the code does, and the properties leave these cases out:

- Two handlers' saves of heal records overlap and one record is lost (`store.go:36`, "plain read-modify-write is safe");
  concurrent `Append`s lose audit events in the same way (`audit.go:58`).
- Remembered heals are retried before the sweep looks for a surge (`README.md:280`).
- The allowance is taken before the validator, breaker, cooldown, GitOps guard and API are asked, so that what they
  decline spends it, sweep after sweep, and a deferred heal behind them may never run (`README.md:275`).
  `DeferredRuns` shows that it runs once these gates let through what the allowance admits and the evidence of what
  waits can be read.
- A replay that the allowance has no room for is followed by a diagnosis; if that fails, `handle` returns
  (`agent.go:614-619`) and the heal is not deferred but dropped (`README.md:275`).
- The prior values in a record are those of the failing pod. When its controller has moved on, by an edit, a rollout
  or another heal, they are not "exactly the values that were in place before" (`record.go:10-12`, `README.md:299-306`),
  and a rollback may put back a value that had itself been rolled back.
- From the eighth day of a 14-day quarantine two more failures replace it by a one-day one (`playbook.go:90`, `:235`).
- A proposal remembered in a sweep is saved only by the next one (`README.md:590-594`).
- A heal only raises what the failing pod had. When its controller was raised meanwhile, the patch lowers it
  (`README.md:230`), and the projection is of a pod that will not exist.
- A raised limit with no request declared raises the request that Kubernetes derives from it, which does affect scheduling (`README.md:231`,
  `validate.go:35`).
- Several scale-ups of one sweep spend the same snapshot; each fits, together they may take the reserve
  (`README.md`, "Capacity review").
- A record that only added values cannot be rolled back; the failed rollback is repeated and announced in every sweep, where
  `README.md:314-316` reads as if it were left at that. `StuckOnlyAdded` says that only such records are.
- A proposed replica count above the room is trimmed to it also without derived targets, where
  `validate.go:478-480` says that every bound is then a refusal.
- A workload with an HPA is scaled when the list of HPAs could not be read, as `autoscaler.go` says and
  `README.md:250` does not.
- A claim that several pods share is created when the replica count could not be read (`README.md:671`).
- With `PODSMEDIC_RESTART_WINDOW=0` a storm is reported without a recorded termination, whose time its message then dereferences
  (`detect.go:346-360`).
- A pod that failed for a reason other than "Evicted" (not admitted, node shutdown) is never flagged (`detect.go:129`).
- A pod with init containers that hangs on a volume waits with the reason `PodInitializing`, and is never flagged as
  `VolumeMountFailed`, where `README.md:607-609` says that such a pod sits in `ContainerCreating`.
- A pod that first appears in a failing wait and stays in it is never told of in the live view, where
  `transitions.go:29-31` says that the next update catches it; and a pod stuck in `ContainerCreating` without a volume to
  mount is never flagged by detection.
- `HealVerifyAfter` and `NotReadyGrace` have the same default, and the second compares strictly: a heal that leaves
  a pod not ready can be verified just before the pod counts as broken.
- An idle container that is too large is advised to request nothing at all (`rightsize.go:129-130` expects a zero only
  where nothing was requested).
- The leader's context is not "cancelled the moment leadership is lost" (`lease.go:123-126`): an elector that could not
  renew hands the lease back first (`lease.go:144-146`), and another replica may lead beside a live context until it has.
- `Validate` compares the renew deadline with the lease duration (`lease.go:103-106`), but the elector sleeps for the retry
  period before it tries. With a deadline and a retry period that together reach the lease duration, which `Validate`
  accepts, two electors can both renew for less than a retry period. The defaults (15, 10 and 2 seconds) leave room.
- During a handover `podsmedic_leader` may sum to 0, and to 2 while an old leader hands the lease back or unwinds
  (`README.md:1053`).
- A leader that starts without a saved cursor (none saved yet, or not readable) takes its start for the last digest, so
  that a window missed before is skipped and not sent late (`README.md:1030-1032`).

### Fairness

`SweepGate` and `Incidents` assume only that the process as a whole goes on (`WF_vars(Next)`): the ticker keeps
sweeping, every call has a timeout, and a pod that exits is restarted. `HealRecords` assumes that the sweep
goroutine and each handler go on (both are Go goroutines that the runtime schedules, and `handleAll` waits for the
handlers) and that time passes. `ScaleUp` assumes that sweeps begin, end and reach every workload, that a cooldown
ends, and strongly that the scheduler binds a pod for which there is room again and again (its queue is retried).
`Leadership` assumes that time passes, that a standby tries to acquire, that a loop's and a handler's calls return
(they have timeouts), that an elector which gave up cancels its leader's context (client-go bounds the request that
hands the lease back), and that a stopped process ends and is started again; nothing makes a leader renew, and
nothing makes a release arrive. `Watch`
assumes the clock and the sweep, and nothing of kubelet or informer. `Rightsize` assumes sweeps, a restart after a
crash, and strongly that time passes *between* sweeps, which `Tick` is enabled for again and again: the poll
interval is longer than a sweep. Crashes, failed calls, edits, rollouts and the arrival of problems are never
assumed to happen. Where a liveness property needs that faults end, their number is bounded: a system that fails
for ever settles nothing.

## What is proved

Every theorem is of the module's whole specification, for every value of the constants that the named assumptions
(`BreakerAssumption` and the like, in the module that declares the constants) allow. Each proof has one shape: an
invariant `IInv` stronger than the property, that `Init` establishes and every action preserves, one step per
action; a temporal theorem then combines the two. What `IInv` adds is what the property silently relies on.
`PROJECT.json` lists the theorems.

**Breaker.** `TypeCorrect`, `OpenIffLimitReached`, `FewStragglers`, `SuspensionHolds`, `HealsAreRare`. That few
heals land on an open breaker needs `StragglersFit`: the heals that landed *plus* the handlers still in flight are
within the bound. `HealsAreRare` (`HealRateBounded`) needs an invariant about every window, `Paced`: while closed,
all heals of a window are remembered, except for at most the stragglers of the last trip; while open, a window
holds `MaxHeals` and the stragglers of two trips, and from the deadline on only the late ones. The property asks
this only of settings whose suspension is no shorter than the window: with a shorter one it is false.

**Playbook.** `Bounded`, `NeverReplaysQuarantined`, `NeverRemembersFailed`, `ChangesAreMarked`, `ReplaysFresh`,
`QuarantinesKept`, `TypeCorrect`. A restart replaces the live book by the saved one, so `IInv` asks the same of
both, and asks it of the saved scars *at the present time*, which decays them further than when they were saved. `NeverRemembersFailed` needs nothing more: it asks its question of the live and of the saved book, which is what a
later process starts from, and a failure unsaved at a restart becomes one that is lost.
That both books are typed and bounded is proved only; no run repeats it.

**HealRecords.** `RecordsRestoreExactly` (what a record, or a handler about to make one, calls the old value is what
its heal replaced unless the evidence was stale; and where no evidence of a workload was, neither its controller
nor a record's old value is one that was rolled back),
`VerdictsHold` (no handler is busy while the sweep verifies, so the set it works through is the ConfigMap's),
`ForgottenForGood`. `OneHandlerForgetsNothing` is the refinement of `HealContract` and has the hypothesis
`OneHandler`: between its two halves a save then knows every record. With two handlers it is false, as the code is.

**SweepGate.** `DeferredIsKept` for any number of handlers; `OneHandlerKeepsBudget` under the hypothesis of one,
since two break it (`budget_race`). `IInv` says that what a handler works on was handed to it alone, and that a
deferred incident waits for a retry unless a handler has it or its diagnosis failed.

**Incidents.** `OneAlert`, `OnePatch`, `AllTold`. `IInv` relates the open incidents to the saved ones, because a
restart puts the second in place of the first: what was alerted or patched is saved, or still marked to be saved,
or among the keys about which a failed call made the ConfigMap wrong.

**Remedies.** `RollbacksRestore`, `OnlyAddedIsStuck`, `RaisesFit`, `RemediesTypeCorrect`. `IInv` says that pod and
template have the fields of their workload, that evidence gives each of them a value, and that the one record holds
what the evidence showed of the fields it can give back. `PlanFacts` goes through every kind of action of `Validate` for what its plan may change
and what it records. `Numbered` adds that all these values are whole numbers, which `PlanNumbers` needs of every kind
of plan, and that the requests in evidence are those of the pod in it. `RaisesFit` then follows in two steps: a pod
whose application container asks for `d` more reserves at most `d` more, whatever its sidecars and init containers
(`PodRequestsGrow`: a raise below the peak of an init container may cost nothing, so the projection is an upper
bound), and where one more such pod fits a node has room for it (`FitsHasRoom`).

**ScaleUp.** `ScaleTypeCorrect`, `DiagnosisNeverRaises`, `ScaleUpFits`. What is assumed of a world are only the types:
a reserve that is a natural number (the configuration rejects a negative one), amounts that are natural numbers, and
nodes that do not hold more than they allocate. `ScaleIInv` adds that the sweep's snapshot is one of those nodes as
they once were. The heart is `FitOnFacts` (as many pods as `FitOn` says leave the reserve alone, in every dimension)
and `Dealt` (the units of a sum can be numbered, which gives each pod a node): together `FitsArePlaceable`, for any
number of nodes. `DiagnosisNeverRaises` holds because the trimming to what fits and to the policy's ceiling is
monotone in the number asked for, and a wish only replaces a derived target that is higher.

**Leadership.** `LeadersAreAlone` (the lease of an elector that renews is no older than its `since`, which ends at
retry period plus deadline; where another took it over, the time they share is counted from an age of a whole lease
duration), `OneDigestPerStamp` (while no leadership began beside a live context, the current digest went out no more
often than its stamp was lost, unless that stamp is saved or waits to be), `TrailIsExact` (what any Append has read is
in order too, and misses only what the trail itself may miss: an event stored after that read was stored beside a
reader).

**Rightsize.** `HistoriesBounded`, `AdviceIsSafe`, `AdviceIsFinal`. Memory and ConfigMap both hold every peak seen
since the container was last forgotten; advice is safe and final because `Headroom` is at least 1.

**Watch.** `BrokenPodsAreFound`, `ForecastsHaveStreaks`, `ReadinessIsRight`, for any grace periods, thresholds,
reasons to fail and length of a streak. `PodInv` gives the states a pod can be in, of which detection needs that
only a pod on a node has containers. `Sustained` counts: a streak of `n` is backed by the last `n` samples, so that
the window of samples can move on by one. `LiveInv` says what the live view has told of the one copy it holds, and
that events about readiness are exactly the changes of it.

**Only model-checked.** Liveness: `DeferredRuns`, `QuietResolves`, `RecordsSettle`, `PressureRelieved`,
`DigestOwedIsSent`, `OutageReported`, `ReportFills`. It needs fairness and `ENABLED`, which the prover does not treat.
The bound of
`RepeatsAreLostStamps` on the digests sent beside a rival is checked and not proved. Every other property of a passing
run is stated by a theorem.

## Not modelled

Node health, chat and UI only report: they read what the sweeps publish and change nothing in the cluster. Chat
answers a message at most once (its offset moves before the answer). Notification, metrics, reports, the language
model, configuration and most of evidence collection are I/O or formatting; they appear as calls that succeed or
fail, as constants, and as proposals that may be anything. Of the live stream the ring, the subscribers' queues and
the suppressor are left out, of the digest the tally and its text. `PROJECT.json` gives the reason for each part.

Within the modelled parts: what a strategic merge patch does beyond setting the named keys; quantities' formats and
image references' syntax (values the bounds tell apart); owners that fail to resolve once and then resolve
(`agent.go:710`, `agent.go:1396`), which need breaker, executor and records in one module.

## Plan

1. *Done:* every component above that can change the cluster or must survive a restart, with its proofs where stated.
2. One module that composes `SweepGate`, `Breaker`, `Validator` and `HealRecords` in the order of maybeHeal, for the two hazards
   that a controller which cannot be resolved leaves open.
3. *Done:* a theorem for every safety property a passing run checks.
