----------------------------- MODULE Leadership -----------------------------
(***************************************************************************)
(* Several replicas under leader election (internal/lease, the run and     *)
(* active functions of cmd/podsmedic), and what a leader leaves for the    *)
(* next one: the daily digest's cursor (internal/agent/digest.go, saved    *)
(* with the incidents) and the audit trail (internal/audit).               *)
(*                                                                         *)
(* The elector is client-go's: it waits for the retry period, tries to     *)
(* renew for the renew deadline, and takes a lease that was released, that *)
(* is its own or that nobody has renewed for the lease duration.  When it  *)
(* gives up it first hands the lease back (ReleaseOnCancel) and only then  *)
(* cancels the leader's context; on SIGTERM it is the other way round.     *)
(* Time is counted in ticks, and digests by the number of their schedule.  *)
(* A request that is on the wire when leadership ends may still land.      *)
(***************************************************************************)
EXTENDS Integers, FiniteSets, Sequences

CONSTANTS
  Replicas, NoOne,
  Handlers,    \* the concurrent handlers of one sweep
  Candidates,  \* election options, [duration, deadline, retry], and the bounds of
               \* a run with them, [slots, appends, stops]
  MaxEvents,   \* the audit trail's cap
  MaxSlot      \* bound on the scheduled digests of any run

\* Mutant: the comparison with the lease duration is lax.
ValidLax(o) == o.duration >= o.deadline /\ o.deadline > o.retry

\* lease.Options.Validate.
Valid(o) == o.duration > o.deadline /\ o.deadline > o.retry

ASSUME LeadershipAssumption ==
  /\ NoOne \notin Replicas
  /\ MaxSlot \in Nat /\ MaxEvents \in Nat \ {0}
  /\ \A o \in Candidates :
       /\ o.duration \in Nat /\ o.deadline \in Nat /\ o.retry \in Nat
       /\ o.slots \in 0..MaxSlot /\ o.appends \in Nat /\ o.stops \in Nat

VARIABLES
  options,   \* the election options of this run, and its bounds
  holder,    \* whom the lease names
  age,       \* ticks since the lease was last renewed, up to its duration
  since,     \* of each elector: ticks since it last saw a renewal, or gave up
  together,  \* history: ticks for which two electors have been renewing
  slot,      \* the last scheduled digest
  proc,      \* each replica: "down", "standby", "leading", "releasing" or "unwinding"
  step,      \* what a leader's loop does next
  last,      \* Agent.digestLast, as the slot it falls in
  dirty,     \* Agent.digestDirty
  cursor,    \* the saved cursor, as a set of at most one slot
  trail,     \* the saved audit trail
  call,      \* each handler's Append, and what it has read
  sends,     \* history: the digests sent for each slot
  lost,      \* history: how often a slot's stamp was lost unsaved, or not read
  rivals,    \* history: leaderships that began beside another's live context
  seeds,     \* history: where leaders began that had no cursor to read
  applied,   \* history: of each stored event, whether no other Append had read the trail
  events, stops  \* what the run has used of its bounds

election == <<options, holder, age, since, together, proc, rivals, stops>>
digest == <<slot, step, last, dirty, cursor, sends, lost, seeds>>
audit == <<trail, call, applied, events>>
vars == <<election, digest, audit>>

Slots == 0..MaxSlot
Idle == [at |-> "idle", read |-> <<>>]

\* The elector renews its lease; it does, or is handing the lease back: the context
\* it gave its leader is not cancelled.
Leading(r) == proc[r] = "leading"
Live(r) == proc[r] \in {"leading", "releasing"}

Init ==
  /\ options \in {o \in Candidates : Valid(o)}
  /\ holder = NoOne /\ age = 0 /\ slot = 0
  /\ since = [r \in Replicas |-> 0] /\ together = 0
  /\ proc = [r \in Replicas |-> "standby"] /\ step = [r \in Replicas |-> "load"]
  /\ last = [r \in Replicas |-> 0] /\ dirty = [r \in Replicas |-> FALSE]
  /\ cursor = {}
  /\ trail = <<>> /\ call = [r \in Replicas |-> [h \in Handlers |-> Idle]]
  /\ sends = [s \in Slots |-> 0] /\ lost = [s \in Slots |-> 0]
  /\ rivals = 0 /\ seeds = {}
  /\ applied = <<>> /\ events = 0 /\ stops = 0

-----------------------------------------------------------------------------
\* The election.

\* Two electors renew at once.
Shared == \E r, q \in Replicas : r # q /\ Leading(r) /\ Leading(q)

\* When an elector that cannot renew gives up: it sleeps for the retry period after a
\* renewal, and then tries for the renew deadline.
LastTry == options.deadline + options.retry

\* A tick passes.  Handing the lease back takes no longer than the renew deadline.
Tick ==
  /\ \A r \in Replicas :
       /\ Leading(r) => since[r] < LastTry
       /\ proc[r] = "releasing" => since[r] < options.deadline
  /\ age' = IF holder # NoOne /\ age < options.duration THEN age + 1 ELSE age
  /\ since' = [r \in Replicas |-> IF Live(r) THEN since[r] + 1 ELSE since[r]]
  /\ together' = IF Shared THEN together + 1 ELSE 0
  /\ UNCHANGED <<options, holder, proc, rivals, stops, digest, audit>>

\* The elector renews, or takes the lease back that another handed back; the answer
\* may be lost.
Renew(r) ==
  /\ Leading(r) /\ holder \in {r, NoOne} /\ since[r] > 0
  /\ holder' = r /\ age' = 0
  /\ since' \in {since, [since EXCEPT ![r] = 0]}
  /\ UNCHANGED <<options, together, proc, rivals, stops, digest, audit>>

\* The elector becomes leader, and calls active.
Acquire(r) ==
  /\ proc[r] = "standby"
  /\ holder \in {NoOne, r} \/ age >= options.duration
  /\ holder' = r /\ age' = 0 /\ since' = [since EXCEPT ![r] = 0]
  /\ proc' = [proc EXCEPT ![r] = "leading"]
  /\ together' = IF Shared THEN together ELSE 0
  /\ rivals' = IF \E q \in Replicas : Live(q) THEN rivals + 1 ELSE rivals
  /\ UNCHANGED <<options, stops, digest, audit>>

\* A context ends: a stamp that its leader has not saved goes with it.
Forget(r) ==
  lost' = IF Live(r) /\ dirty[r] THEN [lost EXCEPT ![last[r]] = @ + 1] ELSE lost

\* Nothing could be renewed: the elector begins to hand the lease back.
GiveUp(r) ==
  /\ stops < options.stops /\ stops' = stops + 1
  /\ Leading(r) /\ since[r] = LastTry
  /\ proc' = [proc EXCEPT ![r] = "releasing"] /\ since' = [since EXCEPT ![r] = 0]
  /\ UNCHANGED <<options, holder, age, together, rivals, digest, audit>>

\* The lease is handed back, if the API server can be reached: no one holds it.
Release(r) ==
  /\ proc[r] \in {"releasing", "unwinding"} /\ holder = r /\ holder' = NoOne
  /\ UNCHANGED <<options, age, since, together, proc, rivals, stops, digest, audit>>

\* The leader's context is cancelled: after the lease was handed back, or at once on
\* SIGTERM.
Cancel(r) ==
  /\ \/ proc[r] = "releasing" /\ UNCHANGED stops
     \/ Leading(r) /\ stops < options.stops /\ stops' = stops + 1
  /\ proc' = [proc EXCEPT ![r] = "unwinding"] /\ since' = [since EXCEPT ![r] = 0]
  /\ Forget(r)
  /\ UNCHANGED <<options, holder, age, together, rivals,
                 slot, step, last, dirty, cursor, sends, seeds, audit>>

\* The process ends: after unwinding, or all at once.
Stop(r) ==
  /\ \/ proc[r] = "unwinding" /\ UNCHANGED stops
     \/ /\ proc[r] = "standby" \/ Live(r)
        /\ stops < options.stops /\ stops' = stops + 1
  /\ proc' = [proc EXCEPT ![r] = "down"] /\ since' = [since EXCEPT ![r] = 0] /\ Forget(r)
  /\ call' = [call EXCEPT ![r] = [h \in Handlers |-> Idle]]
  /\ UNCHANGED <<options, holder, age, together, rivals,
                 slot, step, last, dirty, cursor, sends, seeds, trail, applied, events>>

\* A process starts: New seeds the digest's cursor with the time it starts at.
Start(r) ==
  /\ proc[r] = "down" /\ proc' = [proc EXCEPT ![r] = "standby"]
  /\ step' = [step EXCEPT ![r] = "load"]
  /\ last' = [last EXCEPT ![r] = slot] /\ dirty' = [dirty EXCEPT ![r] = FALSE]
  /\ UNCHANGED <<options, holder, age, since, together, rivals, stops,
                 slot, cursor, sends, lost, seeds, audit>>

-----------------------------------------------------------------------------
\* The daily digest.

NextSlot ==
  /\ slot < options.slots /\ slot' = slot + 1
  /\ UNCHANGED <<election, step, last, dirty, cursor, sends, lost, seeds, audit>>

\* Restored(seed): the cursor loadIncidents leaves when it has read a saved one.
Restored(seed) == IF cursor = {} THEN seed ELSE CHOOSE c \in cursor : TRUE

\* A leader reads the saved cursor, or fails to and goes on with its seed.
LoadIncidents(r) ==
  /\ Live(r) /\ step[r] = "load" /\ step' = [step EXCEPT ![r] = "sweep"]
  /\ \/ /\ last' = [last EXCEPT ![r] = Restored(@)]
        /\ seeds' = IF cursor = {} THEN seeds \cup {last[r]} ELSE seeds
        /\ UNCHANGED lost
     \/ /\ UNCHANGED last /\ seeds' = seeds \cup {last[r]}
        /\ lost' = [s \in Slots |-> lost[s] + Cardinality({c \in cursor : last[r] < s /\ s <= c})]
  /\ UNCHANGED <<election, slot, dirty, cursor, sends, audit>>

\* persistIncidents, when the incidents or the cursor changed: PutConfigMap
\* first reads the object whose data it will replace.
PersistGet(r) ==
  /\ Live(r) /\ step[r] = "sweep"
  /\ step' = [step EXCEPT ![r] = "update"]
  /\ UNCHANGED <<election, slot, last, dirty, cursor, sends, lost, seeds, audit>>

\* Nothing changed, or the object could not be read.
PersistSkip(r) ==
  /\ Live(r) /\ step[r] = "sweep" /\ step' = [step EXCEPT ![r] = "digest"]
  /\ UNCHANGED <<election, slot, last, dirty, cursor, sends, lost, seeds, audit>>

\* The update fails, or lands: another one in flight then meets a conflict.
PersistUpdate(r) ==
  /\ proc[r] \in {"leading", "releasing", "unwinding"} /\ step[r] = "update"
  /\ \/ step' = [step EXCEPT ![r] = "digest"] /\ UNCHANGED <<cursor, dirty>>
     \/ /\ step' = [q \in Replicas |-> IF step[q] = "update" THEN "digest" ELSE step[q]]
        /\ cursor' = {last[r]} /\ dirty' = [dirty EXCEPT ![r] = FALSE]
  /\ UNCHANGED <<election, slot, last, sends, lost, seeds, audit>>

\* Mutant: a digest that is due one slot late.
DueLate(s, sent) == sent + 1 < s

Due(s, sent) == sent < s

\* Mutant: a stamp that is not marked for saving.
StampOnly(s, sent) == [last |-> s, dirty |-> FALSE]

\* What maybeDigest leaves of a cursor that is due, and of its dirty flag.
Stamp(s, sent) == [last |-> s, dirty |-> TRUE]

\* maybeDigest at the end of the sweep: the stamp comes before the send.
MaybeDigest(r) ==
  /\ Live(r) /\ step[r] = "digest" /\ step' = [step EXCEPT ![r] = "handle"]
  /\ IF Due(slot, last[r])
       THEN /\ last' = [last EXCEPT ![r] = Stamp(slot, @).last]
            /\ dirty' = [dirty EXCEPT ![r] = Stamp(slot, last[r]).dirty]
            /\ sends' = [sends EXCEPT ![slot] = @ + 1]
       ELSE UNCHANGED <<last, dirty, sends>>
  /\ UNCHANGED <<election, slot, cursor, lost, seeds, audit>>

-----------------------------------------------------------------------------
\* The audit trail: Append of the handlers of a sweep.

\* Mutant: an event added, and the newest dropped over the cap.
AppendedFront(t, e) == LET u == Append(t, e) IN
  IF Len(u) > MaxEvents THEN SubSeq(u, 1, MaxEvents) ELSE u

\* The trail with an event added, and the oldest dropped over the cap.
Appended(t, e) == LET u == Append(t, e) IN
  IF Len(u) > MaxEvents THEN SubSeq(u, Len(u) - MaxEvents + 1, Len(u)) ELSE u

Set(r, h, c) == call' = [call EXCEPT ![r][h] = c]

\* Somebody is about to write the trail back with what it had read of it.
Reading == \E r \in Replicas, h \in Handlers : call[r][h].at = "loaded"

\* Append loads the trail.
AuditLoad(r, h) ==
  /\ Live(r) /\ step[r] = "handle" /\ call[r][h] = Idle /\ events < options.appends
  /\ Set(r, h, [at |-> "loaded", read |-> trail])
  /\ events' = events + 1
  /\ UNCHANGED <<election, digest, trail, applied>>

\* PutConfigMap reads the object again, for its version only.
AuditGet(r, h) ==
  /\ Live(r) /\ call[r][h].at = "loaded"
  /\ Set(r, h, [call[r][h] EXCEPT !.at = "update"])
  /\ UNCHANGED <<election, digest, trail, applied, events>>

\* The update lands, and another one in flight meets a conflict.  Events are
\* numbered as they are stored.
AuditUpdate(r, h) ==
  /\ proc[r] \in {"leading", "releasing", "unwinding"} /\ call[r][h].at = "update"
  /\ LET e == Len(applied) + 1 IN
       trail' = Appended(call[r][h].read, e) /\ applied' = Append(applied, ~Reading)
  /\ call' = [q \in Replicas |-> [g \in Handlers |->
                IF call[q][g].at = "update" THEN Idle ELSE call[q][g]]]
  /\ UNCHANGED <<election, digest, events>>

\* A request failed: Append returns an error that is logged.
AuditFail(r, h) ==
  /\ call[r][h] # Idle /\ Set(r, h, Idle)
  /\ UNCHANGED <<election, digest, trail, applied, events>>

\* The handlers are done, and the next sweep begins.
SweepAgain(r) ==
  /\ Live(r) /\ step[r] = "handle" /\ \A h \in Handlers : call[r][h] = Idle
  /\ step' = [step EXCEPT ![r] = "sweep"]
  /\ UNCHANGED <<election, slot, last, dirty, cursor, sends, lost, seeds, audit>>

Loop(r) ==
  LoadIncidents(r) \/ PersistSkip(r) \/ PersistUpdate(r) \/ MaybeDigest(r) \/ SweepAgain(r)

Next ==
  \/ Tick \/ NextSlot
  \/ \E r \in Replicas :
       \/ Renew(r) \/ Acquire(r) \/ GiveUp(r) \/ Release(r) \/ Cancel(r)
       \/ Stop(r) \/ Start(r)
       \/ Loop(r) \/ PersistGet(r)
       \/ \E h \in Handlers :
            AuditLoad(r, h) \/ AuditGet(r, h) \/ AuditUpdate(r, h) \/ AuditFail(r, h)

\* The elector retries, the kubelet restarts what ended, and a leader's sweeps
\* and everybody's requests end.
Fairness ==
  /\ WF_vars(Tick)
  /\ \A r \in Replicas :
       /\ WF_vars(Acquire(r)) /\ WF_vars(Start(r)) /\ WF_vars(Loop(r))
       /\ WF_vars(proc[r] = "releasing" /\ Cancel(r))
       /\ WF_vars(proc[r] = "unwinding" /\ Stop(r))
       /\ \A h \in Handlers : WF_vars(AuditFail(r, h))

Spec == Init /\ [][Next]_vars /\ Fairness

-----------------------------------------------------------------------------
\* Every variable keeps its type; the trail never outgrows its cap.
TypeOK ==
  /\ options \in Candidates
  /\ holder \in Replicas \cup {NoOne} /\ age \in 0..options.duration
  /\ proc \in [Replicas -> {"down", "standby", "leading", "releasing", "unwinding"}]
  /\ since \in [Replicas -> 0..LastTry]
  /\ step \in [Replicas -> {"load", "sweep", "update", "digest", "handle"}]
  /\ slot \in Slots /\ last \in [Replicas -> Slots] /\ dirty \in [Replicas -> BOOLEAN]
  /\ cursor \in {{}} \cup {{s} : s \in Slots}
  /\ Len(trail) <= MaxEvents

(***************************************************************************)
(* Two electors renew at once only if the retry period and the renew       *)
(* deadline together reach the lease duration, which Validate does not     *)
(* exclude (lease.go:103-106), and then for less than one retry period.    *)
(* With the defaults, 2 and 10 seconds of 15, a second context is live     *)
(* only while the other elector is handing its lease back.                 *)
(***************************************************************************)
OneLeader ==
  \A r, q \in Replicas :
    Leading(r) /\ Leading(q) /\ r # q =>
      options.duration <= LastTry /\ together < options.retry

(***************************************************************************)
(* A digest is sent again for one slot only if a context ended between its *)
(* stamp and the saving of it, if a leader could not read the saved one,   *)
(* or if a leadership began while another context was live, once for each: *)
(* neither a failed save nor a late one repeats it (maybeDigest,           *)
(* persistIncidents, loadIncidents).                                       *)
(***************************************************************************)
RepeatsAreLostStamps == \A s \in Slots : sends[s] <= 1 + lost[s] + rivals

(***************************************************************************)
(* The trail is in the order in which its events were stored, whatever     *)
(* overlaps, fails or changes hands; and no event is missing from it but   *)
(* those older than a full trail, and those stored while another Append    *)
(* had already read the trail.  (ConfigMapLog calls its read-modify-write  *)
(* safe because one replica serialises access.)                            *)
(***************************************************************************)
TrailExact ==
  /\ \A i, j \in DOMAIN trail : i < j => trail[i] < trail[j]
  /\ \A i \in DOMAIN trail : trail[i] \in DOMAIN applied
  /\ \A e \in DOMAIN applied : applied[e] =>
       \/ \E i \in DOMAIN trail : trail[i] = e
       \/ Len(trail) = MaxEvents /\ \A i \in DOMAIN trail : trail[i] > e

(***************************************************************************)
(* The current digest is eventually sent, late if need be and by whichever *)
(* replica leads, unless a leader began after its slot without a cursor    *)
(* (Due looks backwards from now).                                         *)
(***************************************************************************)
DigestOwedIsSent == []<>(sends[slot] > 0 \/ slot \in seeds)

=============================================================================
