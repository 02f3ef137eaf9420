-------------------------- MODULE HealRecordsProofs --------------------------
(***************************************************************************)
(* Proofs about the heal records, for any workloads, pods, handlers, heals *)
(* and faults; and, for a single handler, that they implement              *)
(* HealContract.                                                           *)
(*                                                                         *)
(* The records are right because each value collected, written or recorded *)
(* names an earlier heal of the workload it is for, and is one its handler *)
(* saw in the pod or the controller: where it saw a single value, that is  *)
(* the one its heal replaced.  The verdicts are current because no handler *)
(* runs while they are reached.                                            *)
(***************************************************************************)
EXTENDS HealRecords, TLAPS

\* Own, of any sequence of targets.
Of(t, w, i) == i = 0 \/ (i \in DOMAIN t /\ t[i] = w)

\* A record names its heal and an older value, in any record set.
Faithful(t, recs) ==
  \A w \in Workload :
    recs[w] # NoRecord =>
      /\ recs[w].id # 0 /\ Of(t, w, recs[w].id)
      /\ Of(t, w, recs[w].old) /\ recs[w].old < recs[w].id

\* What a handler works with is of the workload it heals, and older than its heal.
Working(t, j) ==
  /\ j.stage = "collected" => Of(t, Owner[j.pod], j.old)
  /\ j.stage \in {"applied", "loaded"} =>
       j.id \in DOMAIN t /\ Of(t, t[j.id], j.old) /\ j.old < j.id
  /\ j.stage = "loaded" => Faithful(t, j.recs)

\* Every value is the original one or that of a heal of its workload.
Values ==
  /\ \A w \in Workload : Of(target, w, spec[w]) /\ Of(target, w, book[w])
  /\ \A p \in Pod : Of(target, Owner[p], running[p])
  /\ Faithful(target, cm)
  /\ \A h \in Handler : Working(target, job[h])

\* Records are judged while nobody heals, and at most one of them is settling.
Judged ==
  /\ phase = "verify" => \A h \in Handler : job[h] = Idle
  /\ \A w \in Workload :
       due[w] # NoRecord => phase = "verify" /\ due[w] = cm[w] /\ cm[w].id <= ripe
  /\ \A w \in settling :
       /\ phase = "verify" /\ settling = {w} /\ due[w] = NoRecord
       /\ cm[w] # NoRecord /\ cm[w].id <= ripe
  /\ ripe <= Heals

\* Until something fails, nothing that will be saved, judged or replayed is undone.
Undone ==
  /\ undone \subseteq DOMAIN target
  /\ faults = 0 =>
       /\ \A w \in Workload : book[w] \notin undone
       /\ \A w \in Workload : cm[w] # NoRecord /\ cm[w].id \in undone => w \in settling
       /\ \A h \in Handler :
            /\ job[h].stage \in {"applied", "loaded"} => job[h].id \notin undone
            /\ job[h].stage = "loaded" =>
                 \A w \in Workload : job[h].recs[w] # NoRecord => job[h].recs[w].id \notin undone

IInv == TypeOK /\ Values /\ Judged /\ Undone

-----------------------------------------------------------------------------
\* Jobs, records and targets.

\* A job has the fields of its stage.
LEMMA JobElim ==
  ASSUME NEW j \in Job
  PROVE  /\ j.stage \in {"idle", "collected", "applied", "loaded"}
         /\ j.stage = "idle" <=> j = Idle
         /\ j.stage = "collected" =>
              j.pod \in Pod /\ j.old \in HealId /\ j.seen \in SUBSET HealId
         /\ j.stage \in {"applied", "loaded"} => j.id \in 1 .. MaxHeals /\ j.old \in HealId
         /\ j.stage = "loaded" => j.recs \in RecordSet
BY DEF Job, Idle

\* An absent key is no record.
LEMMA RecordFacts ==
  ASSUME NEW recs \in RecordSet, NEW w \in Workload
  PROVE  /\ recs[w] # NoRecord => /\ recs[w] \in Record
                                  /\ recs[w].id \in 1 .. MaxHeals /\ recs[w].old \in HealId
         /\ NoRecords \in RecordSet /\ NoRecord \notin Record
BY HealRecordsAssumption DEF RecordSet, Record, HealId, NoRecords

\* Another heal does not change whose the earlier ones were.
LEMMA OfKept ==
  ASSUME NEW t \in Seq(Workload), NEW v \in Workload, NEW w, NEW i, Of(t, w, i)
  PROVE  Of(Append(t, v), w, i)
BY DEF Of

\* Nor what was recorded of them, or is being worked with.
LEMMA WorkingKept ==
  ASSUME NEW t \in Seq(Workload), NEW v \in Workload
  PROVE  /\ \A recs : Faithful(t, recs) => Faithful(Append(t, v), recs)
         /\ \A j : Working(t, j) => Working(Append(t, v), j)
<1>1. ASSUME NEW recs, Faithful(t, recs)
      PROVE  Faithful(Append(t, v), recs)
  BY <1>1, OfKept DEF Faithful
<1>2. ASSUME NEW j, Working(t, j)
      PROVE  Working(Append(t, v), j)
  <2>1. \A i \in DOMAIN t : i \in DOMAIN Append(t, v) /\ Append(t, v)[i] = t[i]
    OBVIOUS
  <2> QED BY <2>1, <1>1, <1>2, OfKept DEF Working
<1> QED BY <1>1, <1>2

\* An idle handler works with nothing.
LEMMA IdleWorking == \A t : Working(t, Idle)
BY DEF Working, Idle

-----------------------------------------------------------------------------
\* It holds at the start.
LEMMA InitIInv == Init => IInv
<1> SUFFICES ASSUME Init PROVE IInv
  OBVIOUS
<1>1. /\ target = <<>> /\ origin = <<>> /\ ripe = 0 /\ undone = {} /\ faults = 0 /\ settling = {}
      /\ phase = "observe" /\ cm = NoRecords /\ due = NoRecords
      /\ job = [h \in Handler |-> Idle]
      /\ book = [w \in Workload |-> 0] /\ spec = [w \in Workload |-> 0]
      /\ running = [p \in Pod |-> 0] /\ tried = {} /\ cooled = {}
      /\ unhealthy \in SUBSET Workload
  BY DEF Init
<1>2. Idle \in Job /\ 0 \in HealId /\ NoRecords \in RecordSet
  BY HealRecordsAssumption DEF Job, HealId, NoRecords, RecordSet
<1>3. TypeOK
  <2>1. /\ target \in Seq(Workload) /\ Heals <= MaxHeals /\ faults \in 0 .. MaxFaults
        /\ origin \in Seq([before : HealId, stale : BOOLEAN]) /\ Len(origin) = Heals
    BY <1>1, HealRecordsAssumption DEF Heals
  <2>2. job \in [Handler -> Job] /\ cm \in RecordSet /\ due \in RecordSet
    BY <1>1, <1>2
  <2>3. /\ book \in [Workload -> HealId] /\ spec \in [Workload -> HealId]
        /\ running \in [Pod -> HealId] /\ ripe \in HealId
    BY <1>1, <1>2
  <2> QED BY <2>1, <2>2, <2>3, <1>1 DEF TypeOK
<1>4. Values
  BY <1>1, IdleWorking, HealRecordsAssumption DEF Values, Of, Faithful, NoRecords
<1>5. Judged /\ Undone
  BY <1>1 DEF Judged, Undone, NoRecords, Idle, Heals
<1> QED BY <1>3, <1>4, <1>5 DEF IInv

-----------------------------------------------------------------------------
\* Handlers.

\* What a handler may work with.
Sound(j) ==
  /\ Working(target, j)
  /\ faults = 0 =>
       /\ j.stage \in {"applied", "loaded"} => j.id \notin undone
       /\ j.stage = "loaded" => \A w \in Workload : j.recs[w] # NoRecord => j.recs[w].id \notin undone

\* Idleness is, and so is what a handler works with now.
LEMMA SoundFacts ==
  ASSUME IInv
  PROVE  Sound(Idle) /\ Idle \in Job /\ \A h \in Handler : job[h] \in Job /\ Sound(job[h])
<1>1. Sound(Idle)
  BY IdleWorking DEF Sound, Idle
<1>2. Idle \in Job
  BY DEF Job
<1>3. \A h \in Handler : job[h] \in Job /\ Sound(job[h])
  BY DEF IInv, TypeOK, Values, Undone, Sound
<1> QED BY <1>1, <1>2, <1>3

\* A handler that works with something sound instead keeps the invariant.
LEMMA JobStep ==
  ASSUME IInv, phase # "verify", NEW h \in Handler, NEW j \in Job, Sound(j),
         job' = [job EXCEPT ![h] = j],
         UNCHANGED <<phase, unhealthy, due, settling, target, origin, spec, running, cm, ripe, book, undone>>,
         tried' \in SUBSET Pod, cooled' \in SUBSET Pod,
         faults' \in 0 .. MaxFaults, faults' = 0 => faults = 0
  PROVE  IInv'
<1>1. /\ job' \in [Handler -> Job] /\ job'[h] = j
      /\ \A g \in Handler : g # h => job'[g] = job[g]
  BY DEF IInv, TypeOK
<1>2. \A g \in Handler : job'[g] \in Job /\ Sound(job'[g])
  BY <1>1, SoundFacts
<1>3. TypeOK'
  BY <1>1 DEF IInv, TypeOK, Heals
<1>4. Values'
  BY <1>2 DEF IInv, Values, Sound
<1>5. Judged'
  BY DEF IInv, Judged, Heals
<1>6. Undone'
  BY <1>2 DEF IInv, Undone, Sound
<1> QED BY <1>3, <1>4, <1>5, <1>6 DEF IInv

\* Another fault is one more than before.
LEMMA FaultFacts == IInv /\ Fault => faults' \in 0 .. MaxFaults /\ faults' # 0
BY HealRecordsAssumption DEF IInv, TypeOK, Fault

\* A busy handler is not one of a sweep that is judging.
LEMMA BusyFacts ==
  ASSUME IInv, NEW h \in Handler, job[h].stage # "idle"
  PROVE  phase # "verify" /\ settling = {} /\ due = NoRecords
<1>1. phase # "verify"
  BY DEF IInv, Judged, Idle
<1>2. settling = {}
  BY <1>1 DEF IInv, Judged
<1>3. due = NoRecords
  BY <1>1 DEF IInv, TypeOK, Judged, RecordSet, NoRecords
<1> QED BY <1>1, <1>2, <1>3

\* A handler collects its evidence.
LEMMA CollectIInv ==
  ASSUME IInv, NEW h \in Handler, NEW p \in Pod, Collect(h, p)
  PROVE  IInv'
<1> DEFINE j == [stage |-> "collected", pod |-> p, old |-> running[p], seen |-> Seen(p)]
<1>1. /\ phase # "verify" /\ job' = [job EXCEPT ![h] = j] /\ tried' = tried \cup {p}
      /\ UNCHANGED <<phase, unhealthy, due, settling, cooled,
                     target, origin, spec, running, cm, ripe, book, undone, faults>>
  BY DEF Collect
<1>2. running[p] \in HealId /\ Seen(p) \in SUBSET HealId
  BY HealRecordsAssumption DEF IInv, TypeOK, Seen
<1>3. j \in Job
  BY <1>2 DEF Job
<1>4. Sound(j)
  BY DEF IInv, Values, Working, Sound
<1> HIDE DEF j
<1>5. tried' \in SUBSET Pod /\ cooled' \in SUBSET Pod /\ faults' \in 0 .. MaxFaults
  BY <1>1 DEF IInv, TypeOK
<1> QED BY <1>1, <1>3, <1>4, <1>5, JobStep

\* A handler gives up, before or after its patch.
LEMMA QuitIInv ==
  ASSUME IInv, NEW h \in Handler, Decline(h) \/ SaveFails(h)
  PROVE  IInv'
<1>1. /\ job[h].stage \in {"collected", "applied", "loaded"} /\ job' = [job EXCEPT ![h] = Idle]
      /\ UNCHANGED <<phase, tried, unhealthy, due, settling,
                     target, origin, spec, running, cm, ripe, book, undone>>
  BY DEF Decline, SaveFails
<1>2. phase # "verify"
  BY <1>1, BusyFacts
<1>3. faults' \in 0 .. MaxFaults /\ (faults' = 0 => faults = 0)
  BY FaultFacts DEF Decline, SaveFails, IInv, TypeOK
<1>4. cooled' \in SUBSET Pod
  <2>1. job[h].stage = "collected" => job[h].pod \in Pod
    BY JobElim DEF IInv, TypeOK
  <2> QED BY <2>1 DEF Decline, SaveFails, IInv, TypeOK
<1>5. tried' \in SUBSET Pod
  BY <1>1 DEF IInv, TypeOK
<1> QED BY <1>1, <1>2, <1>3, <1>4, <1>5, JobStep, SoundFacts

\* A handler reads the record set, in which nothing is undone.
LEMMA LoadIInv ==
  ASSUME IInv, NEW h \in Handler, Load(h)
  PROVE  IInv'
<1> DEFINE j == [stage |-> "loaded", old |-> job[h].old, id |-> job[h].id, recs |-> cm]
<1>1. /\ job[h].stage = "applied" /\ job' = [job EXCEPT ![h] = j]
      /\ UNCHANGED <<phase, tried, unhealthy, due, settling, cooled,
                     target, origin, spec, running, cm, ripe, book, undone, faults>>
  BY DEF Load
<1>2. phase # "verify" /\ settling = {}
  BY <1>1, BusyFacts
<1>3. job[h] \in Job /\ cm \in RecordSet /\ Working(target, job[h])
  BY DEF IInv, TypeOK, Values
<1>4. job[h].id \in 1 .. MaxHeals /\ job[h].old \in HealId
  BY <1>1, <1>3, JobElim
<1>5. j \in Job
  BY <1>3, <1>4 DEF Job
<1>6. /\ j.stage = "loaded" /\ j.id = job[h].id /\ j.old = job[h].old /\ j.recs = cm
  OBVIOUS
<1> HIDE DEF j
<1>7. Working(target, j)
  BY <1>1, <1>3, <1>6 DEF IInv, Values, Working
<1>8. Sound(j)
  BY <1>1, <1>2, <1>6, <1>7 DEF IInv, Undone, Sound
<1>9. tried' \in SUBSET Pod /\ cooled' \in SUBSET Pod /\ faults' \in 0 .. MaxFaults
  BY <1>1 DEF IInv, TypeOK
<1> QED BY <1>1, <1>2, <1>5, <1>8, <1>9, JobStep

\* Another heal lands.
LEMMA ExecuteIInv ==
  ASSUME IInv, NEW h \in Handler, Execute(h)
  PROVE  IInv'
<1> DEFINE p == job[h].pod
           i == Heals + 1
           j == [stage |-> "applied", old |-> job[h].old, id |-> i]
<1>1. /\ job[h].stage = "collected" /\ Heals < MaxHeals
      /\ cooled' = cooled \cup {p} /\ target' = Append(target, Owner[p])
      /\ origin' = Append(origin, Origin(Owner[p], job[h].seen))
      /\ spec' = [spec EXCEPT ![Owner[p]] = i] /\ job' = [job EXCEPT ![h] = j]
      /\ UNCHANGED <<phase, tried, unhealthy, due, settling,
                     running, cm, ripe, book, undone, faults>>
  BY DEF Execute
<1>2. phase # "verify" /\ settling = {} /\ due = NoRecords
  BY <1>1, BusyFacts
<1>3. job[h] \in Job /\ Working(target, job[h]) /\ target \in Seq(Workload)
  BY DEF IInv, TypeOK, Values
<1>4. p \in Pod /\ job[h].old \in HealId
  BY <1>1, <1>3, JobElim
<1>5. Owner[p] \in Workload
  BY <1>4, HealRecordsAssumption
<1>6. i \in 1 .. MaxHeals /\ i \in HealId
  BY <1>1, <1>3, HealRecordsAssumption DEF Heals, HealId
<1>7. /\ target' \in Seq(Workload) /\ Len(target') = i
      /\ i \in DOMAIN target' /\ target'[i] = Owner[p] /\ i \notin DOMAIN target
      /\ DOMAIN target \subseteq DOMAIN target'
  BY <1>1, <1>3, <1>5 DEF Heals
<1>8. j \in Job
  BY <1>4, <1>6 DEF Job
<1>9. Of(target, Owner[p], job[h].old)
  BY <1>1, <1>3 DEF Working
<1>10. Working(target', j)
  <2>1. Of(target', Owner[p], job[h].old)
    BY <1>1, <1>3, <1>5, <1>9, OfKept
  <2>2. job[h].old < i
    BY <1>3, <1>9, <1>6 DEF Of, Heals
  <2>3. j.stage = "applied" /\ j.id = i /\ j.old = job[h].old
    OBVIOUS
  <2> QED BY <2>1, <2>2, <2>3, <1>7 DEF Working
<1>11. j.stage = "applied" /\ j.id = i
  OBVIOUS
<1> HIDE DEF p, i, j
<1>12. /\ job' \in [Handler -> Job] /\ job'[h] = j
       /\ \A g \in Handler : g # h => job'[g] = job[g]
  BY <1>1, <1>8 DEF IInv, TypeOK
<1>13. TypeOK'
  <2>1. spec' \in [Workload -> HealId] /\ cooled' \in SUBSET Pod
    BY <1>1, <1>4, <1>5, <1>6 DEF IInv, TypeOK
  <2>2. Heals' <= MaxHeals
    BY <1>6, <1>7 DEF Heals
  <2>3. origin' \in Seq([before : HealId, stale : BOOLEAN]) /\ Len(origin') = Heals'
    <3>1. Origin(Owner[p], job[h].seen) \in [before : HealId, stale : BOOLEAN]
      BY <1>5 DEF IInv, TypeOK, Origin
    <3> QED BY <3>1, <1>1, <1>3, <1>5 DEF IInv, TypeOK, Heals
  <2> QED BY <2>1, <2>2, <2>3, <1>1, <1>7, <1>12 DEF IInv, TypeOK
<1>14. Values'
  <2>1. ASSUME NEW w \in Workload PROVE Of(target', w, spec'[w]) /\ Of(target', w, book'[w])
    <3>1. Of(target', w, spec[w]) /\ Of(target', w, book[w])
      BY <1>1, <1>3, <1>5, OfKept DEF IInv, Values
    <3>2. CASE w = Owner[p]
      BY <3>1, <3>2, <1>1, <1>5, <1>7 DEF Of, IInv, TypeOK
    <3>3. CASE w # Owner[p]
      BY <3>1, <3>3, <1>1, <1>5 DEF IInv, TypeOK
    <3> QED BY <3>2, <3>3
  <2>2. \A q \in Pod : Of(target', Owner[q], running'[q])
    BY <1>1, <1>3, <1>5, OfKept DEF IInv, Values
  <2>3. Faithful(target', cm')
    BY <1>1, <1>3, <1>5, WorkingKept DEF IInv, Values
  <2>4. \A g \in Handler : Working(target', job'[g])
    BY <1>1, <1>3, <1>5, <1>10, <1>12, WorkingKept DEF IInv, Values
  <2> QED BY <2>1, <2>2, <2>3, <2>4 DEF Values
<1>15. Judged'
  <2>1. ripe' <= Heals'
    <3>1. ripe \in Nat /\ ripe <= Len(target) /\ Len(target) \in Nat
      BY <1>3, HealRecordsAssumption DEF IInv, TypeOK, Judged, Heals, HealId
    <3>2. Len(target') = Len(target) + 1
      BY <1>1, <1>3, <1>5
    <3> QED BY <3>1, <3>2, <1>1 DEF Heals
  <2>2. \A w \in Workload : due'[w] = NoRecord
    BY <1>1, <1>2 DEF NoRecords
  <2> QED BY <2>1, <2>2, <1>1, <1>2 DEF Judged
<1>16. Undone'
  <2>1. i \notin undone /\ undone' \subseteq DOMAIN target'
    BY <1>1, <1>7 DEF IInv, Undone
  <2> QED BY <2>1, <1>1, <1>11, <1>12 DEF IInv, Undone
<1> QED BY <1>13, <1>14, <1>15, <1>16 DEF IInv

\* A handler rewrites the record set, from what it read of it.
LEMMA PutIInv ==
  ASSUME IInv, NEW h \in Handler, Put(h)
  PROVE  IInv'
<1> DEFINE i == job[h].id
           v == target[i]
           r == [id |-> i, old |-> job[h].old]
<1>1. /\ job[h].stage = "loaded" /\ cm' = [job[h].recs EXCEPT ![v] = r]
      /\ job' = [job EXCEPT ![h] = Idle]
      /\ UNCHANGED <<phase, tried, unhealthy, due, settling, cooled,
                     target, origin, spec, running, ripe, book, undone, faults>>
  BY DEF Put, Upsert
<1>2. phase # "verify" /\ settling = {} /\ due = NoRecords
  BY <1>1, BusyFacts
<1>3. job[h] \in Job /\ Working(target, job[h]) /\ target \in Seq(Workload)
  BY DEF IInv, TypeOK, Values
<1>4. i \in 1 .. MaxHeals /\ job[h].old \in HealId /\ job[h].recs \in RecordSet
  BY <1>1, <1>3, JobElim
<1>5. /\ i \in DOMAIN target /\ Of(target, v, job[h].old) /\ job[h].old < i
      /\ Faithful(target, job[h].recs)
  BY <1>1, <1>3 DEF Working
<1>6. v \in Workload
  BY <1>3, <1>5
<1>7. r \in Record /\ r.id = i /\ r.old = job[h].old
  BY <1>4 DEF Record
<1>8. Of(target, v, i) /\ i # 0
  BY <1>4, <1>5 DEF Of
<1>9. faults = 0 =>
        /\ i \notin undone
        /\ \A w \in Workload : job[h].recs[w] # NoRecord => job[h].recs[w].id \notin undone
  BY <1>1 DEF IInv, Undone
<1> HIDE DEF i, v, r
<1>10. /\ cm' \in RecordSet /\ cm'[v] = r
       /\ \A w \in Workload : w # v => cm'[w] = job[h].recs[w]
  BY <1>1, <1>4, <1>6, <1>7 DEF RecordSet
<1>11. /\ job' \in [Handler -> Job] /\ job'[h] = Idle
       /\ \A g \in Handler : g # h => job'[g] = job[g]
  BY <1>1, SoundFacts DEF IInv, TypeOK
<1>12. TypeOK'
  BY <1>1, <1>10, <1>11 DEF IInv, TypeOK, Heals
<1>13. Values'
  <2>1. Faithful(target, cm')
    BY <1>5, <1>7, <1>8, <1>10 DEF Faithful
  <2>2. \A g \in Handler : Working(target, job'[g])
    BY <1>11, IdleWorking DEF IInv, Values
  <2> QED BY <2>1, <2>2, <1>1 DEF IInv, Values
<1>14. Judged'
  BY <1>1, <1>2 DEF IInv, Judged, NoRecords, Heals
<1>15. Undone'
  <2>1. ASSUME faults = 0, NEW w \in Workload, cm'[w] # NoRecord PROVE cm'[w].id \notin undone
    BY <2>1, <1>7, <1>9, <1>10
  <2>2. ASSUME faults = 0, NEW g \in Handler
        PROVE  /\ job'[g].stage \in {"applied", "loaded"} => job'[g].id \notin undone
               /\ job'[g].stage = "loaded" =>
                    \A w \in Workload : job'[g].recs[w] # NoRecord => job'[g].recs[w].id \notin undone
    BY <2>2, <1>11 DEF IInv, Undone, Idle
  <2> QED BY <2>1, <2>2, <1>1 DEF IInv, Undone
<1> QED BY <1>12, <1>13, <1>14, <1>15 DEF IInv

-----------------------------------------------------------------------------
\* The sweep.

\* With nobody busy, every handler is idle.
LEMMA AllIdle == Busy = {} => \A h \in Handler : job[h] = Idle
BY DEF Busy

\* The due records are listed.
LEMMA ListIInv ==
  ASSUME IInv, List
  PROVE  IInv'
<1>1. /\ phase = "observe" /\ Busy = {} /\ phase' = "verify"
      /\ UNCHANGED <<tried, unhealthy, settling, job, cooled,
                     target, origin, spec, running, cm, ripe, book, undone>>
      /\ due' = Listed \/ due' = NoRecords
  BY DEF List
<1>2. settling = {}
  BY <1>1 DEF IInv, Judged
<1>3. /\ due' \in RecordSet
      /\ \A w \in Workload : due'[w] # NoRecord => due'[w] = cm[w] /\ cm[w].id <= ripe
  BY <1>1 DEF Listed, NoRecords, RecordSet, IInv, TypeOK
<1>4. faults' \in 0 .. MaxFaults /\ (faults' = 0 => faults = 0)
  BY FaultFacts DEF List, IInv, TypeOK
<1>5. TypeOK'
  BY <1>1, <1>3, <1>4 DEF IInv, TypeOK, Heals
<1>6. Values'
  BY <1>1 DEF IInv, Values
<1>7. Judged'
  BY <1>1, <1>2, <1>3, AllIdle DEF IInv, Judged, Heals
<1>8. Undone'
  BY <1>1, <1>4 DEF IInv, Undone
<1> QED BY <1>5, <1>6, <1>7, <1>8 DEF IInv

\* What is judged is what was recorded, of a heal of the workload.
LEMMA JudgingFacts ==
  ASSUME IInv, NEW w \in Workload, Judging(w)
  PROVE  /\ phase = "verify" /\ settling = {} /\ \A h \in Handler : job[h] = Idle
         /\ due[w] = cm[w] /\ cm[w] # NoRecord /\ cm[w].id <= ripe
         /\ cm[w].id \in 1 .. MaxHeals /\ cm[w].id \in HealId /\ cm[w].old \in HealId
         /\ cm[w].id \in DOMAIN target /\ target[cm[w].id] = w
         /\ Of(target, w, cm[w].id) /\ Of(target, w, cm[w].old)
<1>1. /\ phase = "verify" /\ settling = {} /\ due[w] = cm[w] /\ cm[w] # NoRecord
      /\ cm[w].id <= ripe /\ \A h \in Handler : job[h] = Idle
  BY DEF Judging, IInv, Judged
<1>2. cm[w].id \in 1 .. MaxHeals /\ cm[w].old \in HealId
  BY <1>1, RecordFacts DEF IInv, TypeOK
<1>3. cm[w].id # 0 /\ Of(target, w, cm[w].id) /\ Of(target, w, cm[w].old)
  BY <1>1 DEF IInv, Values, Faithful
<1>4. cm[w].id \in DOMAIN target /\ target[cm[w].id] = w
  BY <1>3 DEF Of
<1>5. cm[w].id \in HealId
  BY <1>2, HealRecordsAssumption DEF HealId
<1> QED BY <1>1, <1>2, <1>3, <1>4, <1>5

\* A judged record leaves the list, and is settling unless its rollback failed.
LEMMA JudgedKept ==
  ASSUME IInv, NEW w \in Workload, Judging(w),
         due' = [due EXCEPT ![w] = NoRecord], settling' \in {{}, {w}},
         UNCHANGED <<phase, job, target, cm, ripe>>
  PROVE  Judged' /\ due' \in RecordSet /\ settling' \in SUBSET Workload
<1>1. /\ due' \in RecordSet /\ due'[w] = NoRecord
      /\ \A v \in Workload : v # w => due'[v] = due[v]
  BY DEF IInv, TypeOK, RecordSet
<1>2. Judged'
  BY <1>1, JudgingFacts DEF IInv, Judged, Heals
<1> QED BY <1>1, <1>2

\* A heal that held is learned.
LEMMA VerifiedIInv ==
  ASSUME IInv, NEW w \in Workload, Verified(w)
  PROVE  IInv'
<1>1. /\ Judging(w) /\ book' = [book EXCEPT ![w] = due[w].id] /\ settling' = {w}
      /\ due' = [due EXCEPT ![w] = NoRecord]
      /\ UNCHANGED <<phase, tried, unhealthy, job, cooled,
                     target, origin, spec, running, cm, ripe, undone, faults>>
  BY DEF Verified
<1>2. Judged' /\ due' \in RecordSet /\ settling' \in SUBSET Workload
  BY <1>1, JudgedKept
<1>3. /\ book' \in [Workload -> HealId] /\ book'[w] = cm[w].id
      /\ \A v \in Workload : v # w => book'[v] = book[v]
  BY <1>1, JudgingFacts DEF IInv, TypeOK
<1>4. TypeOK'
  BY <1>1, <1>2, <1>3 DEF IInv, TypeOK, Heals
<1>5. Values'
  <2>1. \A v \in Workload : Of(target, v, book'[v])
    BY <1>1, <1>3, JudgingFacts DEF IInv, Values
  <2> QED BY <2>1, <1>1 DEF IInv, Values
<1>6. Undone'
  <2>1. ASSUME faults = 0 PROVE cm[w].id \notin undone
    BY <2>1, <1>1, JudgingFacts DEF IInv, Undone
  <2>2. ASSUME faults = 0, NEW v \in Workload, cm[v] # NoRecord, cm[v].id \in undone
        PROVE  FALSE
    BY <2>2, <1>1, JudgingFacts DEF IInv, Undone
  <2> QED BY <2>1, <2>2, <1>1, <1>3 DEF IInv, Undone
<1> QED BY <1>2, <1>4, <1>5, <1>6 DEF IInv

\* A heal that did not hold is undone, or the attempt fails.
LEMMA RollbackIInv ==
  ASSUME IInv, NEW w \in Workload, Rollback(w)
  PROVE  IInv'
<1>1. /\ Judging(w) /\ book' = [book EXCEPT ![w] = 0]
      /\ due' = [due EXCEPT ![w] = NoRecord]
      /\ UNCHANGED <<phase, tried, unhealthy, job, cooled, target, origin, running, cm, ripe>>
  BY DEF Rollback
<1>2. \/ /\ spec' = [spec EXCEPT ![w] = due[w].old]
         /\ undone' = undone \cup {due[w].id} /\ settling' = {w} /\ faults' = faults
      \/ Fault /\ UNCHANGED <<spec, undone, settling>>
  BY DEF Rollback
<1>3. Judged' /\ due' \in RecordSet /\ settling' \in SUBSET Workload
  BY <1>1, <1>2, JudgingFacts, JudgedKept
<1>4. 0 \in HealId
  BY HealRecordsAssumption DEF HealId
<1>5. /\ book' \in [Workload -> HealId] /\ book'[w] = 0
      /\ \A v \in Workload : v # w => book'[v] = book[v]
  BY <1>1, <1>4 DEF IInv, TypeOK
<1>6. /\ spec' \in [Workload -> HealId] /\ spec'[w] \in {spec[w], cm[w].old}
      /\ \A v \in Workload : v # w => spec'[v] = spec[v]
  BY <1>1, <1>2, JudgingFacts DEF IInv, TypeOK
<1>7. /\ undone' \in SUBSET (1 .. MaxHeals) /\ faults' \in 0 .. MaxFaults
      /\ undone' \subseteq DOMAIN target
  <2>1. /\ undone \in SUBSET (1 .. MaxHeals) /\ undone \subseteq DOMAIN target
        /\ faults \in 0 .. MaxFaults
    BY DEF IInv, TypeOK, Undone
  <2>2. due[w].id \in 1 .. MaxHeals /\ due[w].id \in DOMAIN target
    BY <1>1, JudgingFacts
  <2>3. faults' \in 0 .. MaxFaults
    BY <2>1, <1>2, FaultFacts
  <2> QED BY <2>1, <2>2, <2>3, <1>2
<1>8. TypeOK'
  BY <1>1, <1>3, <1>5, <1>6, <1>7 DEF IInv, TypeOK, Heals
<1>9. Values'
  <2>1. \A v \in Workload : Of(target, v, book'[v])
    BY <1>5 DEF IInv, Values, Of
  <2>2. \A v \in Workload : Of(target, v, spec'[v])
    BY <1>1, <1>6, JudgingFacts DEF IInv, Values
  <2> QED BY <2>1, <2>2, <1>1 DEF IInv, Values
<1>10. Undone'
  <2>1. CASE faults' # 0
    BY <2>1, <1>1, <1>7 DEF Undone
  <2>2. CASE faults' = 0
    <3>1. faults = 0 /\ undone' = undone \cup {cm[w].id} /\ settling' = {w}
      BY <2>2, <1>1, <1>2, JudgingFacts, FaultFacts
    <3>2. ASSUME NEW v \in Workload PROVE book'[v] \notin undone'
      <4>1. CASE v = w
        BY <4>1, <1>5, <1>7 DEF IInv, TypeOK
      <4>2. CASE v # w
        <5>1. book'[v] \notin undone /\ Of(target, v, book'[v])
          BY <4>2, <1>5, <3>1 DEF IInv, Undone, Values
        <5>2. book'[v] # cm[w].id
          BY <4>2, <5>1, <1>1, JudgingFacts DEF Of
        <5> QED BY <5>1, <5>2, <3>1
      <4> QED BY <4>1, <4>2
    <3>3. ASSUME NEW v \in Workload, cm[v] # NoRecord, cm[v].id \in undone' PROVE v = w
      <4>1. cm[v].id \notin undone
        BY <3>1, <3>3, <1>1, JudgingFacts DEF IInv, Undone
      <4>2. cm[v].id = cm[w].id
        BY <4>1, <3>1, <3>3
      <4>3. cm[v].id # 0 /\ Of(target, v, cm[v].id)
        BY <3>3 DEF IInv, Values, Faithful
      <4> QED BY <4>2, <4>3, <1>1, JudgingFacts DEF Of
    <3>4. \A h \in Handler : job'[h].stage = "idle"
      BY <1>1, JudgingFacts DEF Idle
    <3> QED BY <3>1, <3>2, <3>3, <3>4, <1>1, <1>7 DEF Undone
  <2> QED BY <2>1, <2>2
<1> QED BY <1>3, <1>8, <1>9, <1>10 DEF IInv

\* A settled record goes, or stays because the call failed.
LEMMA DeleteIInv ==
  ASSUME IInv, NEW w \in Workload, Delete(w)
  PROVE  IInv'
<1>1. /\ settling = {w} /\ settling' = {}
      /\ UNCHANGED <<phase, tried, unhealthy, due, job, cooled,
                     target, origin, spec, running, ripe, book, undone>>
      /\ \/ cm' = [cm EXCEPT ![w] = NoRecord] /\ faults' = faults
         \/ Fault /\ cm' = cm
  BY DEF Delete, Remove
<1>2. /\ cm' \in RecordSet /\ cm'[w] \in {cm[w], NoRecord}
      /\ \A v \in Workload : v # w => cm'[v] = cm[v]
  BY <1>1 DEF IInv, TypeOK, RecordSet
<1>3. due[w] = NoRecord
  BY <1>1 DEF IInv, Judged
<1>4. faults' \in 0 .. MaxFaults
  BY <1>1, FaultFacts DEF IInv, TypeOK
<1>5. TypeOK'
  BY <1>1, <1>2, <1>4 DEF IInv, TypeOK, Heals
<1>6. Values'
  <2>1. Faithful(target, cm')
    BY <1>2 DEF IInv, Values, Faithful
  <2> QED BY <2>1, <1>1 DEF IInv, Values
<1>7. Judged'
  BY <1>1, <1>2, <1>3 DEF IInv, Judged, Heals
<1>8. Undone'
  <2>1. CASE faults' # 0
    BY <2>1, <1>1 DEF IInv, Undone
  <2>2. CASE faults' = 0
    <3>1. faults = 0 /\ cm' = [cm EXCEPT ![w] = NoRecord]
      BY <2>2, <1>1, FaultFacts
    <3>2. cm'[w] = NoRecord
      BY <3>1 DEF IInv, TypeOK, RecordSet
    <3>3. ASSUME NEW v \in Workload, cm'[v] # NoRecord, cm'[v].id \in undone PROVE FALSE
      BY <3>1, <3>2, <3>3, <1>1, <1>2 DEF IInv, Undone
    <3> QED BY <3>1, <3>3, <1>1 DEF IInv, Undone
  <2> QED BY <2>1, <2>2
<1> QED BY <1>5, <1>6, <1>7, <1>8 DEF IInv

\* The sweep moves on.
LEMMA PhaseIInv == IInv /\ (EndVerify \/ NextSweep) => IInv'
<1> SUFFICES ASSUME IInv, EndVerify \/ NextSweep PROVE IInv'
  OBVIOUS
<1>1. /\ phase' \in {"observe", "handle"} /\ phase' # "verify"
      /\ tried' \in SUBSET Pod /\ unhealthy' \in SUBSET Workload
      /\ UNCHANGED <<due, settling, job, cooled, target, origin, spec, running, cm, ripe, book, undone, faults>>
  BY DEF EndVerify, NextSweep, IInv, TypeOK
<1>2. settling = {} /\ \A w \in Workload : due[w] = NoRecord
  BY DEF EndVerify, NextSweep, IInv, Judged, NoRecords
<1>3. TypeOK'
  BY <1>1 DEF IInv, TypeOK, Heals
<1>4. Values'
  BY <1>1 DEF IInv, Values
<1>5. Judged'
  BY <1>1, <1>2 DEF IInv, Judged, Heals
<1>6. Undone'
  BY <1>1 DEF IInv, Undone
<1> QED BY <1>3, <1>4, <1>5, <1>6 DEF IInv

-----------------------------------------------------------------------------
\* The cluster, the clock and the machine.

\* A pod is replaced by one with the values of its controller.
LEMMA RolloutIInv ==
  ASSUME IInv, NEW p \in Pod, Rollout(p)
  PROVE  IInv'
<1>1. /\ running' = [running EXCEPT ![p] = spec[Owner[p]]] /\ cooled' = cooled \ {p}
      /\ UNCHANGED <<phase, tried, unhealthy, due, settling, job,
                     target, origin, spec, cm, ripe, book, undone, faults>>
  BY DEF Rollout
<1>2. Owner[p] \in Workload
  BY HealRecordsAssumption
<1>3. /\ running' \in [Pod -> HealId] /\ running'[p] = spec[Owner[p]]
      /\ \A q \in Pod : q # p => running'[q] = running[q]
  BY <1>1, <1>2 DEF IInv, TypeOK
<1>4. TypeOK'
  BY <1>1, <1>3 DEF IInv, TypeOK, Heals
<1>5. Values'
  <2>1. \A q \in Pod : Of(target, Owner[q], running'[q])
    BY <1>2, <1>3 DEF IInv, Values
  <2> QED BY <2>1, <1>1 DEF IInv, Values
<1>6. Judged'
  BY <1>1 DEF IInv, Judged, Heals
<1>7. Undone'
  BY <1>1 DEF IInv, Undone
<1> QED BY <1>4, <1>5, <1>6, <1>7 DEF IInv

\* Time passes.
LEMMA TimeIInv ==
  ASSUME IInv, Ripen \/ \E p \in Pod : CooldownEnds(p)
  PROVE  IInv'
<1>1. /\ cooled' \in SUBSET Pod /\ ripe' \in {ripe, ripe + 1} /\ (ripe' = ripe \/ ripe < Heals)
      /\ UNCHANGED <<phase, tried, unhealthy, due, settling, job,
                     target, origin, spec, running, cm, book, undone, faults>>
  BY DEF Ripen, CooldownEnds, memory, IInv, TypeOK
<1>2. ripe \in Nat /\ Heals \in Nat /\ ripe <= Heals /\ Heals <= MaxHeals
  BY HealRecordsAssumption DEF IInv, TypeOK, Judged, HealId, Heals
<1>3. ripe' \in HealId /\ ripe <= ripe' /\ ripe' <= Heals /\ Heals' = Heals /\ ripe' \in Nat
  BY <1>1, <1>2, HealRecordsAssumption DEF HealId, Heals
<1>4. TypeOK'
  BY <1>1, <1>3 DEF IInv, TypeOK
<1>5. Values'
  BY <1>1 DEF IInv, Values
<1>6. Judged'
  <2>1. \A w \in Workload :
          cm[w] # NoRecord => cm[w].id \in Nat /\ (cm[w].id <= ripe => cm[w].id <= ripe')
    <3>1. \A w \in Workload : cm[w] # NoRecord => cm[w].id \in 1 .. MaxHeals
      BY RecordFacts DEF IInv, TypeOK
    <3> QED BY <3>1, <1>2, <1>3, HealRecordsAssumption
  <2>2. \A w \in Workload :
          due'[w] # NoRecord => phase' = "verify" /\ due'[w] = cm'[w] /\ cm'[w].id <= ripe'
    <3>1. \A w \in Workload :
            due[w] # NoRecord => phase = "verify" /\ due[w] = cm[w] /\ cm[w].id <= ripe
      BY DEF IInv, Judged
    <3> QED BY <3>1, <2>1, <1>1
  <2>3. \A w \in settling' : /\ phase' = "verify" /\ settling' = {w} /\ due'[w] = NoRecord
                             /\ cm'[w] # NoRecord /\ cm'[w].id <= ripe'
    <3>1. \A w \in settling : /\ w \in Workload /\ phase = "verify" /\ settling = {w}
                              /\ due[w] = NoRecord /\ cm[w] # NoRecord /\ cm[w].id <= ripe
      BY DEF IInv, Judged, TypeOK
    <3> QED BY <3>1, <2>1, <1>1
  <2>4. phase' = "verify" => \A h \in Handler : job'[h] = Idle
    BY <1>1 DEF IInv, Judged
  <2> QED BY <2>2, <2>3, <2>4, <1>3 DEF Judged
<1>7. Undone'
  BY <1>1 DEF IInv, Undone
<1> QED BY <1>4, <1>5, <1>6, <1>7 DEF IInv

\* The process starts again, knowing nothing but the cluster and the ConfigMaps.
LEMMA CrashIInv == IInv /\ Crash => IInv'
<1> SUFFICES ASSUME IInv, Crash PROVE IInv'
  OBVIOUS
<1>1. /\ phase' = "observe" /\ tried' = {} /\ unhealthy' \in SUBSET Workload
      /\ due' = NoRecords /\ settling' = {} /\ job' = [h \in Handler |-> Idle] /\ cooled' = {}
      /\ UNCHANGED <<target, origin, spec, running, cm, ripe, book, undone>>
      /\ faults' \in 0 .. MaxFaults /\ faults' # 0
  BY FaultFacts DEF Crash
<1>2. job' \in [Handler -> Job] /\ \A h \in Handler : job'[h] = Idle
  BY <1>1, SoundFacts
<1>3. due' \in RecordSet /\ \A w \in Workload : due'[w] = NoRecord
  BY <1>1 DEF NoRecords, RecordSet
<1>4. TypeOK'
  BY <1>1, <1>2, <1>3 DEF IInv, TypeOK, Heals
<1>5. Values'
  BY <1>1, <1>2, IdleWorking DEF IInv, Values
<1>6. Judged'
  BY <1>1, <1>3 DEF IInv, Judged, Heals
<1>7. Undone'
  BY <1>1 DEF IInv, Undone
<1> QED BY <1>4, <1>5, <1>6, <1>7 DEF IInv

-----------------------------------------------------------------------------
\* The invariant, and what follows from it.

\* Every step keeps it.
LEMMA NextIInv == IInv /\ [Next]_vars => IInv'
<1> SUFFICES ASSUME IInv, [Next]_vars PROVE IInv'
  OBVIOUS
<1>1. CASE \E h \in Handler, p \in Pod : Collect(h, p)
  BY <1>1, CollectIInv
<1>2. CASE \E h \in Handler : HandlerStep(h)
  BY <1>2, ExecuteIInv, QuitIInv, LoadIInv, PutIInv DEF HandlerStep
<1>3. CASE SweepStep
  BY <1>3, ListIInv, VerifiedIInv, RollbackIInv, DeleteIInv, PhaseIInv DEF SweepStep
<1>4. CASE \E p \in Pod : Rollout(p) \/ CooldownEnds(p)
  BY <1>4, RolloutIInv, TimeIInv
<1>5. CASE Ripen
  BY <1>5, TimeIInv
<1>6. CASE Crash
  BY <1>6, CrashIInv
<1>7. CASE UNCHANGED vars
  BY <1>7 DEF vars, memory, IInv, TypeOK, Values, Judged, Undone, Heals
<1> QED BY <1>1, <1>2, <1>3, <1>4, <1>5, <1>6, <1>7 DEF Next

\* So it holds throughout.
LEMMA Invariance == Spec => []IInv
BY InitIInv, NextIInv, PTL DEF Spec

\* Every variable keeps its type.
THEOREM TypeCorrect == Spec => []TypeOK
<1>1. IInv => TypeOK
  BY DEF IInv
<1> QED BY <1>1, Invariance, PTL

\* No verdict is applied to a record that was superseded (verifyHeals runs
\* between the handlers of two sweeps).
THEOREM VerdictsHold == Spec => []VerdictsCurrent
<1>1. IInv => VerdictsCurrent
  BY DEF IInv, Judged, VerdictsCurrent
<1> QED BY <1>1, Invariance, PTL

\* As long as nothing fails, a remedy that was rolled back is not replayed
\* (Forget in internal/heal/playbook.go, called before the rollback).
THEOREM ForgottenForGood == Spec => []RolledBackNotReplayed
<1>1. IInv => RolledBackNotReplayed
  BY DEF IInv, Undone, RolledBackNotReplayed
<1> QED BY <1>1, Invariance, PTL

-----------------------------------------------------------------------------
\* What the records would restore.

\* What heal i replaced is old, unless the heal was decided on a pod of an older template.
Exact(o, i, old) == ~o[i].stale => old = o[i].before

\* A handler restores one of the values it saw, and records what its heal replaced.
ExactJob(o, j) ==
  /\ j.stage = "collected" => j.old \in j.seen
  /\ j.stage \in {"applied", "loaded"} => Exact(o, j.id, j.old)
  /\ j.stage = "loaded" =>
       \A w \in Workload : j.recs[w] # NoRecord => Exact(o, j.recs[w].id, j.recs[w].old)

\* So do all handlers, and every record.
ExactInv ==
  /\ \A w \in Workload : cm[w] # NoRecord => Exact(origin, cm[w].id, cm[w].old)
  /\ \A h \in Handler : ExactJob(origin, job[h])

\* What a workload runs, or would be given back, was not itself rolled back.
KeptInv ==
  \A w \in Workload : Current(w) =>
    /\ spec[w] \notin undone
    /\ cm[w] # NoRecord => cm[w].old \notin undone
    /\ \A h \in Handler :
         /\ job[h].stage \in {"applied", "loaded"} /\ target[job[h].id] = w =>
              job[h].old \notin undone
         /\ job[h].stage = "loaded" /\ job[h].recs[w] # NoRecord =>
              job[h].recs[w].old \notin undone

\* A handler that is given another job, with the records as they are.
LEMMA ExactJobStep ==
  ASSUME IInv, ExactInv, NEW h \in Handler, NEW j, ExactJob(origin, j),
         job' = [job EXCEPT ![h] = j], UNCHANGED <<origin, cm>>
  PROVE  ExactInv'
<1>1. \A g \in Handler : job'[g] = j \/ job'[g] = job[g]
  BY DEF IInv, TypeOK
<1> QED BY <1>1 DEF ExactInv

\* An idle handler restores nothing.
LEMMA IdleExact == \A o : ExactJob(o, Idle)
BY DEF ExactJob, Idle

\* Another heal leaves alone what is known of the earlier ones.
LEMMA OriginKept ==
  ASSUME IInv, NEW i \in DOMAIN target, NEW x, origin' = Append(origin, x)
  PROVE  origin'[i] = origin[i]
<1>1. i \in 1 .. Len(origin)
  BY DEF IInv, TypeOK, Heals
<1> QED BY <1>1 DEF IInv, TypeOK

\* A heal that was not decided on a stale pod replaces what its handler saw.
LEMMA ExecuteExact ==
  ASSUME IInv, ExactInv, NEW h \in Handler, Execute(h)
  PROVE  ExactInv'
<1> DEFINE x == Origin(Owner[job[h].pod], job[h].seen)
           i == Heals + 1
           j == [stage |-> "applied", old |-> job[h].old, id |-> i]
<1>1. /\ job[h].stage = "collected" /\ origin' = Append(origin, x)
      /\ job' = [job EXCEPT ![h] = j] /\ cm' = cm
  BY DEF Execute
<1>2. origin'[i] = x
  <2>1. origin \in Seq([before : HealId, stale : BOOLEAN]) /\ i = Len(origin) + 1
    BY DEF IInv, TypeOK
  <2> HIDE DEF x, i
  <2> QED BY <1>1, <2>1
<1>3. Exact(origin', i, job[h].old)
  <2>1. job[h].old \in job[h].seen
    BY <1>1 DEF ExactInv, ExactJob
  <2>2. x.before = spec[Owner[job[h].pod]] /\ (~x.stale => job[h].seen = {x.before})
    BY DEF Origin
  <2> HIDE DEF x
  <2> QED BY <1>2, <2>1, <2>2 DEF Exact
<1>4. j.stage = "applied" /\ j.id = i /\ j.old = job[h].old
  OBVIOUS
<1> HIDE DEF x, i, j
<1>5. ExactJob(origin', j)
  BY <1>3, <1>4 DEF ExactJob
<1>6. \A k \in DOMAIN target : origin'[k] = origin[k]
  BY <1>1, OriginKept
<1>7. ASSUME NEW recs, Faithful(target, recs),
             \A w \in Workload : recs[w] # NoRecord => Exact(origin, recs[w].id, recs[w].old)
      PROVE  \A w \in Workload : recs[w] # NoRecord => Exact(origin', recs[w].id, recs[w].old)
  <2>1. \A w \in Workload : recs[w] # NoRecord => recs[w].id \in DOMAIN target
    BY <1>7 DEF Faithful, Of
  <2> QED BY <2>1, <1>6, <1>7 DEF Exact
<1>8. ASSUME NEW g \in Handler PROVE ExactJob(origin', job[g])
  <2>1. Working(target, job[g]) /\ ExactJob(origin, job[g])
    BY DEF IInv, Values, ExactInv
  <2>2. job[g].stage \in {"applied", "loaded"} => Exact(origin', job[g].id, job[g].old)
    BY <2>1, <1>6 DEF Working, ExactJob, Exact
  <2>3. job[g].stage = "loaded" =>
          \A w \in Workload :
            job[g].recs[w] # NoRecord => Exact(origin', job[g].recs[w].id, job[g].recs[w].old)
    BY <2>1, <1>7 DEF Working, ExactJob
  <2> QED BY <2>1, <2>2, <2>3 DEF ExactJob
<1>9. \A g \in Handler : job'[g] = j \/ job'[g] = job[g]
  BY <1>1 DEF IInv, TypeOK
<1>10. \A w \in Workload : cm[w] # NoRecord => Exact(origin', cm[w].id, cm[w].old)
  BY <1>7 DEF IInv, Values, ExactInv
<1> QED BY <1>1, <1>5, <1>8, <1>9, <1>10 DEF ExactInv

\* What a rewritten record set holds: the handler's own record, and what it had read.
PutFacts(h) ==
  /\ job[h].stage = "loaded" /\ target[job[h].id] \in Workload
  /\ UNCHANGED <<target, origin, spec, undone>>
  /\ cm'[target[job[h].id]].id = job[h].id /\ cm'[target[job[h].id]].old = job[h].old
  /\ \A w \in Workload : w # target[job[h].id] => cm'[w] = job[h].recs[w]
  /\ \A g \in Handler : job'[g] = Idle \/ job'[g] = job[g]

\* Put does just that.
LEMMA PutGives ==
  ASSUME IInv, NEW h \in Handler, Put(h)
  PROVE  PutFacts(h)
<1> DEFINE v == target[job[h].id]
           r == [id |-> job[h].id, old |-> job[h].old]
<1>1. /\ job[h].stage = "loaded" /\ cm' = [job[h].recs EXCEPT ![v] = r]
      /\ job' = [job EXCEPT ![h] = Idle] /\ UNCHANGED <<target, origin, spec, undone>>
  BY DEF Put, Upsert
<1>2. job[h].recs \in RecordSet /\ job[h].id \in DOMAIN target
  BY <1>1, JobElim DEF IInv, TypeOK, Values, Working
<1>3. v \in Workload
  BY <1>2 DEF IInv, TypeOK
<1>4. r.id = job[h].id /\ r.old = job[h].old
  OBVIOUS
<1> HIDE DEF r
<1>5. cm'[v] = r /\ \A w \in Workload : w # v => cm'[w] = job[h].recs[w]
  BY <1>1, <1>2, <1>3 DEF RecordSet
<1>6. \A g \in Handler : job'[g] = Idle \/ job'[g] = job[g]
  BY <1>1 DEF IInv, TypeOK
<1> QED BY <1>1, <1>3, <1>4, <1>5, <1>6 DEF PutFacts

\* Every step keeps the records exact.
LEMMA NextExact ==
  ASSUME IInv, ExactInv, [Next]_vars
  PROVE  ExactInv'
<1>1. ASSUME NEW h \in Handler, NEW p \in Pod, Collect(h, p) PROVE ExactInv'
  <2> DEFINE j == [stage |-> "collected", pod |-> p, old |-> running[p], seen |-> Seen(p)]
  <2>1. job' = [job EXCEPT ![h] = j] /\ UNCHANGED <<origin, cm>>
    BY <1>1 DEF Collect
  <2>2. ExactJob(origin, j)
    BY DEF ExactJob, Seen
  <2> HIDE DEF j
  <2> QED BY <2>1, <2>2, ExactJobStep
<1>2. ASSUME NEW h \in Handler, Load(h) PROVE ExactInv'
  <2> DEFINE j == [stage |-> "loaded", old |-> job[h].old, id |-> job[h].id, recs |-> cm]
  <2>1. job[h].stage = "applied" /\ job' = [job EXCEPT ![h] = j] /\ UNCHANGED <<origin, cm>>
    BY <1>2 DEF Load
  <2>2. j.stage = "loaded" /\ j.id = job[h].id /\ j.old = job[h].old /\ j.recs = cm
    OBVIOUS
  <2> HIDE DEF j
  <2>3. ExactJob(origin, j)
    BY <2>1, <2>2 DEF ExactInv, ExactJob
  <2> QED BY <2>1, <2>3, ExactJobStep
<1>3. ASSUME NEW h \in Handler, Decline(h) \/ SaveFails(h) PROVE ExactInv'
  <2>1. job' = [job EXCEPT ![h] = Idle] /\ UNCHANGED <<origin, cm>>
    BY <1>3 DEF Decline, SaveFails
  <2> QED BY <2>1, IdleExact, ExactJobStep
<1>4. ASSUME NEW h \in Handler, Put(h) PROVE ExactInv'
  <2>1. PutFacts(h)
    BY <1>4, PutGives
  <2>2. \A w \in Workload : cm'[w] # NoRecord => Exact(origin, cm'[w].id, cm'[w].old)
    BY <2>1 DEF PutFacts, ExactInv, ExactJob
  <2>3. \A g \in Handler : ExactJob(origin, job'[g])
    BY <2>1, IdleExact DEF PutFacts, ExactInv
  <2> QED BY <2>1, <2>2, <2>3 DEF PutFacts, ExactInv
<1>5. CASE SweepStep
  <2>1. CASE \E w \in Workload : Delete(w)
    <3>1. PICK w \in Workload : Delete(w)
      BY <2>1
    <3>2. /\ UNCHANGED <<origin, job>>
          /\ \A v \in Workload : cm'[v] = NoRecord \/ cm'[v] = cm[v]
      BY <3>1 DEF Delete, Remove, IInv, TypeOK, RecordSet
    <3> QED BY <3>2 DEF ExactInv
  <2>2. UNCHANGED <<origin, job, cm>> \/ \E w \in Workload : Delete(w)
    BY <1>5 DEF SweepStep, List, Verified, Rollback, EndVerify, NextSweep
  <2> QED BY <2>1, <2>2 DEF ExactInv
<1>6. CASE Crash
  <2>1. UNCHANGED <<origin, cm>> /\ \A h \in Handler : job'[h] = Idle
    BY <1>6 DEF Crash
  <2> QED BY <2>1, IdleExact DEF ExactInv
<1>7. CASE Ripen \/ (\E p \in Pod : Rollout(p) \/ CooldownEnds(p)) \/ UNCHANGED vars
  <2>1. UNCHANGED <<job, origin, cm>>
    BY <1>7 DEF Ripen, Rollout, CooldownEnds, memory, vars
  <2> QED BY <2>1 DEF ExactInv
<1> QED BY <1>1, <1>2, <1>3, <1>4, <1>5, <1>6, <1>7, ExecuteExact DEF Next, HandlerStep

\* With nothing done to controllers, heals or records, a handler that is given
\* another job keeps what is restored.
LEMMA KeptJobStep ==
  ASSUME IInv, KeptInv, NEW h \in Handler, NEW j,
         job' = [job EXCEPT ![h] = j], UNCHANGED <<target, origin, spec, cm, undone>>,
         \A w \in Workload : Current(w) =>
           /\ j.stage \in {"applied", "loaded"} /\ target[j.id] = w => j.old \notin undone
           /\ j.stage = "loaded" /\ j.recs[w] # NoRecord => j.recs[w].old \notin undone
  PROVE  KeptInv'
<1>1. \A g \in Handler : job'[g] = j \/ job'[g] = job[g]
  BY DEF IInv, TypeOK
<1>2. \A w : Current(w)' <=> Current(w)
  BY DEF Current
<1> QED BY <1>1, <1>2 DEF KeptInv

\* A heal replaces what its workload ran, unless it was decided on a stale pod.
LEMMA ExecuteKept ==
  ASSUME IInv, ExactInv, KeptInv, NEW h \in Handler, Execute(h)
  PROVE  KeptInv'
<1>0. Owner[job[h].pod] \in Workload
  <2>1. job[h].pod \in Pod
    BY JobElim DEF Execute, IInv, TypeOK
  <2> QED BY <2>1, HealRecordsAssumption
<1> PICK u \in Workload : u = Owner[job[h].pod]
  BY <1>0
<1> DEFINE x == Origin(u, job[h].seen)
           i == Heals + 1
           j == [stage |-> "applied", old |-> job[h].old, id |-> i]
<1>1. /\ job[h].stage = "collected" /\ origin' = Append(origin, x)
      /\ target' = Append(target, u) /\ spec' = [spec EXCEPT ![u] = i]
      /\ job' = [job EXCEPT ![h] = j] /\ cm' = cm /\ undone' = undone
  BY DEF Execute
<1>2. target \in Seq(Workload)
  BY DEF IInv, TypeOK
<1>3. /\ origin'[i] = x /\ target'[i] = u /\ i \in DOMAIN target' /\ i \notin DOMAIN target
      /\ \A k \in DOMAIN target : k \in DOMAIN target' /\ target'[k] = target[k]
  BY <1>1, <1>2 DEF IInv, TypeOK, Heals
<1>4. \A k \in DOMAIN target : origin'[k] = origin[k]
  BY <1>1, OriginKept
<1>5. \A w : Current(w)' => Current(w)
  BY <1>3, <1>4 DEF Current
<1>6. i \notin undone
  BY <1>3 DEF IInv, Undone
<1>7. Current(u)' => job[h].old = spec[u]
  <2>1. job[h].old \in job[h].seen
    BY <1>1 DEF ExactInv, ExactJob
  <2>2. x.before = spec[u] /\ (~x.stale => job[h].seen = {x.before})
    BY DEF Origin
  <2> HIDE DEF x
  <2>3. Current(u)' => ~x.stale
    BY <1>3 DEF Current
  <2> QED BY <2>1, <2>2, <2>3
<1>8. j.stage = "applied" /\ j.id = i /\ j.old = job[h].old
  OBVIOUS
<1> HIDE DEF x, i, j
<1>9. ASSUME NEW w \in Workload, Current(w)'
      PROVE  spec'[w] \notin undone
  BY <1>1, <1>2, <1>5, <1>6, <1>9 DEF IInv, TypeOK, KeptInv
<1>10. ASSUME NEW w \in Workload, Current(w)', NEW g \in Handler
       PROVE  /\ job'[g].stage \in {"applied", "loaded"} /\ target'[job'[g].id] = w =>
                   job'[g].old \notin undone
              /\ job'[g].stage = "loaded" /\ job'[g].recs[w] # NoRecord =>
                   job'[g].recs[w].old \notin undone
  <2>1. CASE g = h
    <3>1. job'[g] = j
      BY <2>1, <1>1 DEF IInv, TypeOK
    <3>2. target'[j.id] = w => j.old \notin undone
      <4>1. Current(w) => spec[w] \notin undone
        BY DEF KeptInv
      <4> QED BY <4>1, <1>3, <1>5, <1>7, <1>8, <1>10
    <3> QED BY <3>1, <3>2, <1>8
  <2>2. CASE g # h
    <3>1. job'[g] = job[g]
      BY <2>2, <1>1 DEF IInv, TypeOK
    <3>2. job[g].stage \in {"applied", "loaded"} => job[g].id \in DOMAIN target
      BY DEF IInv, Values, Working
    <3> QED BY <3>1, <3>2, <1>3, <1>5, <1>10 DEF KeptInv
  <2> QED BY <2>1, <2>2
<1> QED BY <1>1, <1>5, <1>9, <1>10 DEF KeptInv

\* A rollback gives back what is older than what it undoes.
LEMMA RollbackKept ==
  ASSUME IInv, KeptInv, NEW w \in Workload, Rollback(w)
  PROVE  KeptInv'
<1>1. Judging(w) /\ UNCHANGED <<target, origin, job, cm>>
  BY DEF Rollback
<1>2. \A v : Current(v)' <=> Current(v)
  BY <1>1 DEF Current
<1>3. \A h \in Handler : job'[h].stage = "idle"
  BY <1>1, JudgingFacts DEF Idle
<1>4. CASE UNCHANGED <<spec, undone>>
  BY <1>1, <1>2, <1>4 DEF KeptInv
<1>5. CASE spec' = [spec EXCEPT ![w] = due[w].old] /\ undone' = undone \cup {due[w].id}
  <2>1. /\ undone' = undone \cup {cm[w].id} /\ spec'[w] = cm[w].old
        /\ \A v \in Workload : v # w => spec'[v] = spec[v]
    BY <1>1, <1>5, JudgingFacts DEF IInv, TypeOK
  <2>2. cm[w].old # cm[w].id /\ cm[w] # NoRecord
    BY <1>1, JudgingFacts DEF IInv, Values, Faithful, HealId
  <2>3. ASSUME NEW v \in Workload, v # w, NEW i, Of(target, v, i) PROVE i # cm[w].id
    BY <2>3, <1>1, JudgingFacts DEF Of
  <2>4. ASSUME NEW v \in Workload, Current(v), cm[v] # NoRecord PROVE cm[v].old \notin undone'
    <3>1. cm[v].old \notin undone
      BY <2>4 DEF KeptInv
    <3>2. Of(target, v, cm[v].old)
      BY <2>4 DEF IInv, Values, Faithful
    <3> QED BY <3>1, <3>2, <2>1, <2>2, <2>3
  <2>5. ASSUME NEW v \in Workload, Current(v) PROVE spec'[v] \notin undone'
    <3>1. CASE v = w
      BY <3>1, <2>1, <2>2, <2>4, <2>5
    <3>2. CASE v # w
      <4>1. Of(target, v, spec[v]) /\ spec[v] \notin undone
        BY <2>5 DEF IInv, Values, KeptInv
      <4> QED BY <4>1, <3>2, <2>1, <2>3
    <3> QED BY <3>1, <3>2
  <2> QED BY <2>4, <2>5, <1>1, <1>2, <1>3 DEF KeptInv
<1> QED BY <1>4, <1>5 DEF Rollback

\* Every step keeps what is restored clear of what was rolled back.
LEMMA NextKept ==
  ASSUME IInv, ExactInv, KeptInv, [Next]_vars
  PROVE  KeptInv'
<1>1. ASSUME NEW h \in Handler, NEW p \in Pod, Collect(h, p) PROVE KeptInv'
  <2> DEFINE j == [stage |-> "collected", pod |-> p, old |-> running[p], seen |-> Seen(p)]
  <2>1. job' = [job EXCEPT ![h] = j] /\ UNCHANGED <<target, origin, spec, cm, undone>>
    BY <1>1 DEF Collect
  <2>2. j.stage = "collected"
    OBVIOUS
  <2> HIDE DEF j
  <2> QED BY <2>1, <2>2, KeptJobStep
<1>2. ASSUME NEW h \in Handler, Load(h) PROVE KeptInv'
  <2> DEFINE j == [stage |-> "loaded", old |-> job[h].old, id |-> job[h].id, recs |-> cm]
  <2>1. /\ job[h].stage = "applied" /\ job' = [job EXCEPT ![h] = j]
        /\ UNCHANGED <<target, origin, spec, cm, undone>>
    BY <1>2 DEF Load
  <2>2. j.stage = "loaded" /\ j.id = job[h].id /\ j.old = job[h].old /\ j.recs = cm
    OBVIOUS
  <2> HIDE DEF j
  <2>3. \A w \in Workload : Current(w) =>
          /\ target[j.id] = w => j.old \notin undone
          /\ j.recs[w] # NoRecord => j.recs[w].old \notin undone
    BY <2>1, <2>2 DEF KeptInv
  <2> QED BY <2>1, <2>3, KeptJobStep
<1>3. ASSUME NEW h \in Handler, Decline(h) \/ SaveFails(h) PROVE KeptInv'
  <2>1. job' = [job EXCEPT ![h] = Idle] /\ UNCHANGED <<target, origin, spec, cm, undone>>
    BY <1>3 DEF Decline, SaveFails
  <2>2. Idle.stage = "idle"
    BY DEF Idle
  <2> QED BY <2>1, <2>2, KeptJobStep
<1>4. ASSUME NEW h \in Handler, Put(h) PROVE KeptInv'
  <2>1. PutFacts(h)
    BY <1>4, PutGives
  <2>2. \A w : Current(w)' <=> Current(w)
    BY <2>1 DEF PutFacts, Current
  <2>3. ASSUME NEW w \in Workload, Current(w), cm'[w] # NoRecord
        PROVE  cm'[w].old \notin undone
    BY <2>1, <2>3 DEF PutFacts, KeptInv
  <2>4. \A g \in Handler : job'[g] = Idle \/ job'[g] = job[g]
    BY <2>1 DEF PutFacts
  <2>5. Idle.stage = "idle"
    BY DEF Idle
  <2> QED BY <2>1, <2>2, <2>3, <2>4, <2>5 DEF PutFacts, KeptInv
<1>5. CASE SweepStep
  <2>1. CASE \E w \in Workload : Delete(w)
    <3>1. PICK w \in Workload : Delete(w)
      BY <2>1
    <3>2. /\ UNCHANGED <<target, origin, spec, job, undone>>
          /\ \A v \in Workload : cm'[v] = NoRecord \/ cm'[v] = cm[v]
      BY <3>1 DEF Delete, Remove, IInv, TypeOK, RecordSet
    <3>3. \A v : Current(v)' <=> Current(v)
      BY <3>2 DEF Current
    <3> QED BY <3>2, <3>3 DEF KeptInv
  <2>2. CASE \E w \in Workload : Rollback(w)
    BY <2>2, RollbackKept
  <2>3. CASE UNCHANGED <<target, origin, spec, job, cm, undone>>
    BY <2>3 DEF KeptInv, Current
  <2> QED
    BY <1>5, <2>1, <2>2, <2>3 DEF SweepStep, List, Verified, EndVerify, NextSweep
<1>6. CASE Crash
  <2>1. UNCHANGED <<target, origin, spec, cm, undone>> /\ \A h \in Handler : job'[h].stage = "idle"
    BY <1>6 DEF Crash, Idle
  <2>2. \A w : Current(w)' <=> Current(w)
    BY <2>1 DEF Current
  <2> QED BY <2>1, <2>2 DEF KeptInv
<1>7. CASE Ripen \/ (\E p \in Pod : Rollout(p) \/ CooldownEnds(p)) \/ UNCHANGED vars
  <2>1. UNCHANGED <<target, origin, spec, job, cm, undone>>
    BY <1>7 DEF Ripen, Rollout, CooldownEnds, memory, vars
  <2> QED BY <2>1 DEF KeptInv, Current
<1> QED BY <1>1, <1>2, <1>3, <1>4, <1>5, <1>6, <1>7, ExecuteKept DEF Next, HandlerStep

\* A record restores exactly what its heal replaced, and nothing that was rolled
\* back, unless a heal was decided on a pod its controller had moved on from: for
\* any number of concurrent handlers, crashes and failed calls (the evidence
\* collected before maybeHeal, Save in internal/heal/store.go).
THEOREM RecordsRestoreExactly == Spec => []RecordsFaithful
<1>1. Init => ExactInv /\ KeptInv
  BY DEF Init, ExactInv, ExactJob, KeptInv, NoRecords, Idle
<1>2. IInv /\ ExactInv /\ [Next]_vars => ExactInv'
  BY NextExact
<1>3. IInv /\ ExactInv /\ KeptInv /\ [Next]_vars => KeptInv'
  BY NextKept
<1>4. IInv /\ ExactInv /\ KeptInv => RecordsFaithful
  BY DEF IInv, Values, Faithful, Of, ExactInv, Exact, KeptInv, RecordsFaithful, Own
<1> QED BY <1>1, <1>2, <1>3, <1>4, Invariance, PTL DEF Spec

-----------------------------------------------------------------------------
\* A single handler, and the contract.

OneHandler == \A g, h \in Handler : g = h

\* The heal being saved is the last one, no record is about it yet, and the
\* record set has not changed since it was read.
Alone ==
  \A h \in Handler :
    /\ job[h].stage \in {"applied", "loaded"} =>
         /\ job[h].id = Heals
         /\ \A w \in Workload : cm[w] # NoRecord => cm[w].id # Heals
    /\ job[h].stage = "loaded" => job[h].recs = cm

\* A record is about a heal that landed.
LEMMA RecordedHeals ==
  ASSUME IInv, NEW w \in Workload, cm[w] # NoRecord
  PROVE  cm[w].id \in 1 .. Len(target) /\ target \in Seq(Workload)
BY DEF IInv, TypeOK, Values, Faithful, Of

\* A step that no handler that saves takes part in keeps that.
LEMMA AloneKept ==
  ASSUME Alone, UNCHANGED <<job, target, cm>>
  PROVE  Alone'
BY DEF Alone, Heals

\* With one handler, every step does.
LEMMA NextAlone ==
  ASSUME OneHandler, IInv, Alone, [Next]_vars
  PROVE  Alone'
<1>1. ASSUME NEW h \in Handler, NEW j, job' = [job EXCEPT ![h] = j]
      PROVE  \A g \in Handler : job'[g] = j
  BY <1>1 DEF OneHandler, IInv, TypeOK
<1>2. ASSUME NEW h \in Handler, NEW p \in Pod, Collect(h, p) PROVE Alone'
  <2> DEFINE j == [stage |-> "collected", pod |-> p, old |-> running[p], seen |-> Seen(p)]
  <2>1. job' = [job EXCEPT ![h] = j]
    BY <1>2 DEF Collect
  <2>2. j.stage = "collected"
    OBVIOUS
  <2> HIDE DEF j
  <2> QED BY <2>1, <2>2, <1>1 DEF Alone
<1>3. ASSUME NEW h \in Handler, Execute(h) PROVE Alone'
  <2> DEFINE j == [stage |-> "applied", old |-> job[h].old, id |-> Heals + 1]
  <2>1. /\ job' = [job EXCEPT ![h] = j] /\ cm' = cm
        /\ target' = Append(target, Owner[job[h].pod])
    BY <1>3 DEF Execute
  <2>2. j.stage = "applied" /\ j.id = Heals + 1
    OBVIOUS
  <2> HIDE DEF j
  <2>3. Heals' = Heals + 1 /\ Heals \in Nat
    <3>1. job[h].pod \in Pod
      BY <1>3, JobElim DEF Execute, IInv, TypeOK
    <3>2. Owner[job[h].pod] \in Workload /\ target \in Seq(Workload)
      BY <3>1, HealRecordsAssumption DEF IInv, TypeOK
    <3> QED BY <3>2, <2>1 DEF Heals
  <2>4. \A w \in Workload : cm'[w] # NoRecord => cm'[w].id # Heals'
    BY <2>1, <2>3, RecordedHeals DEF Heals
  <2> QED BY <2>1, <2>2, <2>3, <2>4, <1>1 DEF Alone
<1>4. ASSUME NEW h \in Handler, Load(h) PROVE Alone'
  <2> DEFINE j == [stage |-> "loaded", old |-> job[h].old, id |-> job[h].id, recs |-> cm]
  <2>1. /\ job[h].stage = "applied" /\ job' = [job EXCEPT ![h] = j]
        /\ cm' = cm /\ target' = target
    BY <1>4 DEF Load
  <2>2. j.stage = "loaded" /\ j.id = job[h].id /\ j.recs = cm
    OBVIOUS
  <2> HIDE DEF j
  <2>3. job[h].id = Heals /\ \A w \in Workload : cm[w] # NoRecord => cm[w].id # Heals
    BY <2>1 DEF Alone
  <2> QED BY <2>1, <2>2, <2>3, <1>1 DEF Alone, Heals
<1>5. ASSUME NEW h \in Handler, Decline(h) \/ Put(h) \/ SaveFails(h) PROVE Alone'
  <2>1. job' = [job EXCEPT ![h] = Idle]
    BY <1>5 DEF Decline, Put, SaveFails
  <2>2. \A g \in Handler : job'[g] = Idle
    BY <2>1, <1>1
  <2> QED BY <2>2 DEF Alone, Idle
<1>6. CASE SweepStep
  <2>1. CASE \E w \in Workload : Delete(w)
    <3>1. PICK w \in Workload : Delete(w)
      BY <2>1
    <3>2. \A h \in Handler : job'[h] = Idle
      BY <3>1 DEF Delete, IInv, Judged
    <3> QED BY <3>2 DEF Alone, Idle
  <2>2. CASE UNCHANGED <<job, target, cm>>
    BY <2>2, AloneKept
  <2>3. UNCHANGED <<job, target, cm>> \/ \E w \in Workload : Delete(w)
    BY <1>6 DEF SweepStep, List, Verified, Rollback, EndVerify, NextSweep
  <2> QED BY <2>1, <2>2, <2>3
<1>7. CASE Crash
  <2>1. \A h \in Handler : job'[h] = Idle
    BY <1>7 DEF Crash
  <2> QED BY <2>1 DEF Alone, Idle
<1>8. CASE Ripen \/ (\E p \in Pod : Rollout(p) \/ CooldownEnds(p)) \/ UNCHANGED vars
  <2>1. UNCHANGED <<job, target, cm>>
    BY <1>8 DEF Ripen, Rollout, CooldownEnds, memory, vars
  <2> QED BY <2>1, AloneKept
<1> QED BY <1>2, <1>3, <1>4, <1>5, <1>6, <1>7, <1>8 DEF Next, HandlerStep

\* With one handler, a rewritten record set is the contract's commitment.
LEMMA PutCommits ==
  ASSUME IInv, Alone, NEW h \in Handler, Put(h)
  PROVE  \E w \in Workload : Contract!Commit(w)
<1> DEFINE i == job[h].id
           v == target[i]
<1>1. /\ job[h].stage = "loaded" /\ job[h].recs = cm /\ i = Heals
      /\ \A w \in Workload : cm[w] # NoRecord => cm[w].id # Heals
      /\ cm' = [cm EXCEPT ![v] = [id |-> i, old |-> job[h].old]]
      /\ UNCHANGED <<target, spec, ripe>>
  BY DEF Put, Upsert, Alone
<1>2. job[h] \in Job /\ Working(target, job[h]) /\ target \in Seq(Workload)
  BY DEF IInv, TypeOK, Values
<1>3. i \in DOMAIN target /\ Of(target, v, job[h].old) /\ job[h].old < i
  BY <1>1, <1>2 DEF Working
<1>4. v \in Workload /\ job[h].old \in Nat
  BY <1>1, <1>2, <1>3, JobElim, HealRecordsAssumption DEF HealId
<1>5. job[h].old \in Contract!Before(v, i)
  BY <1>2, <1>3, <1>4 DEF Of, Contract!Before
<1>6. cm[v] # NoRecord => i > cm[v].id
  BY <1>1, <1>2, <1>4, RecordedHeals DEF Heals
<1> HIDE DEF i
<1> QED BY <1>1, <1>3, <1>4, <1>5, <1>6 DEF Contract!Commit

\* With one handler, every step is one of the contract's, or none.
LEMMA NextImplements ==
  ASSUME IInv, Alone, [Next]_vars
  PROVE  [Contract!Next]_(Contract!vars)
<1>1. CASE UNCHANGED <<target, spec, cm, ripe>>
  BY <1>1 DEF Contract!vars
<1>2. ASSUME NEW h \in Handler, Execute(h) PROVE \E w \in Workload : Contract!Heal(w)
  <2>1. job[h].pod \in Pod
    BY <1>2, JobElim DEF Execute, IInv, TypeOK
  <2>2. Owner[job[h].pod] \in Workload /\ target \in Seq(Workload)
    BY <2>1, HealRecordsAssumption DEF IInv, TypeOK
  <2>3. /\ target' = Append(target, Owner[job[h].pod])
        /\ spec' = [spec EXCEPT ![Owner[job[h].pod]] = Heals + 1]
        /\ UNCHANGED <<cm, ripe>>
    BY <1>2 DEF Execute
  <2>4. Len(target') = Heals + 1
    BY <2>2, <2>3 DEF Heals
  <2> QED BY <2>2, <2>3, <2>4 DEF Contract!Heal
<1>3. ASSUME NEW w \in Workload, Rollback(w)
      PROVE  Contract!Undo(w) \/ UNCHANGED <<target, spec, cm, ripe>>
  <2>1. Judging(w) /\ UNCHANGED <<target, cm, ripe>>
        /\ (spec' = [spec EXCEPT ![w] = due[w].old] \/ spec' = spec)
    BY <1>3 DEF Rollback
  <2> QED BY <2>1, JudgingFacts DEF Contract!Undo, Contract!Due
<1>4. ASSUME NEW w \in Workload, Delete(w)
      PROVE  Contract!Settle(w) \/ UNCHANGED <<target, spec, cm, ripe>>
  <2>1. settling = {w} /\ UNCHANGED <<target, spec, ripe>>
        /\ (cm' = [cm EXCEPT ![w] = NoRecord] \/ cm' = cm)
    BY <1>4 DEF Delete, Remove
  <2>2. cm[w] # NoRecord /\ cm[w].id <= ripe
    BY <2>1 DEF IInv, Judged
  <2> QED BY <2>1, <2>2 DEF Contract!Settle, Contract!Due
<1>5. CASE Ripen
  BY <1>5 DEF Ripen, Contract!Next, Contract!Ripen, Heals
<1>6. \/ \E h \in Handler : Execute(h) \/ Put(h)
      \/ \E w \in Workload : Rollback(w) \/ Delete(w)
      \/ Ripen
      \/ UNCHANGED <<target, spec, cm, ripe>>
  <2>1. CASE \E h \in Handler, p \in Pod : Collect(h, p)
    BY <2>1 DEF Collect
  <2>2. CASE \E h \in Handler : HandlerStep(h)
    BY <2>2 DEF HandlerStep, Decline, Load, SaveFails
  <2>3. CASE SweepStep
    BY <2>3 DEF SweepStep, List, Verified, EndVerify, NextSweep
  <2>4. CASE (\E p \in Pod : Rollout(p) \/ CooldownEnds(p)) \/ Crash \/ UNCHANGED vars
    BY <2>4 DEF Rollout, CooldownEnds, Crash, vars
  <2> QED BY <2>1, <2>2, <2>3, <2>4 DEF Next
<1> QED BY <1>1, <1>2, <1>3, <1>4, <1>5, <1>6, PutCommits DEF Contract!Next

\* With one handler at a time, a recorded heal is forgotten by no crash and by
\* no failed call: the record set implements HealContract.
THEOREM OneHandlerForgetsNothing ==
  ASSUME OneHandler
  PROVE  Spec => ImplementsContract
<1>1. Init => Contract!Init /\ Alone
  BY DEF Init, Contract!Init, NoRecords, Alone, Idle
<1>2. IInv /\ Alone /\ [Next]_vars => Alone'
  BY NextAlone
<1>3. IInv /\ Alone /\ [Next]_vars => [Contract!Next]_(Contract!vars)
  BY NextImplements
<1> QED BY <1>1, <1>2, <1>3, Invariance, PTL DEF Spec, ImplementsContract, Contract!Spec
=============================================================================
