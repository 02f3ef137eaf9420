--------------------------- MODULE SweepGateProofs ---------------------------
(***************************************************************************)
(* What the brakes of a sweep promise for every number of incidents,       *)
(* handlers and workloads and every allowance.  DeferredNotDropped is not  *)
(* inductive alone: a heal that executes must not take another handler's   *)
(* incident from the waiting ones, so handlers work on different           *)
(* incidents, and a retry is of an incident that waits.                    *)
(***************************************************************************)
EXTENDS SweepGate, TLAPS

Working(h) == job[h].stage # "idle"

\* Between sweeps nothing is being handled.
Resting == phase = "idle" => fresh = {} /\ \A h \in Handler : ~Working(h)

\* Only what fails in this sweep is new in it.
FreshFails == fresh \subseteq problems

\* A handler works on an open incident, which was handed to it alone.
JobsOpen == \A h \in Handler : Working(h) => job[h].inc \in open
HandedOver ==
  phase = "handle" => \A h \in Handler : Working(h) => job[h].inc \notin fresh
Apart ==
  \A g, h \in Handler : Working(g) /\ Working(h) /\ g # h => job[g].inc # job[h].inc

RetriesWait == \A h \in Handler : Working(h) /\ job[h].how = "retry" => job[h].inc \in waiting

Kept ==
  \A i \in deferred :
    i \in waiting \/ i \in undiagnosed \/ \E h \in Handler : Working(h) /\ job[h].inc = i

IInv == /\ TypeOK /\ Resting /\ FreshFails /\ JobsOpen
        /\ HandedOver /\ Apart /\ RetriesWait /\ Kept

-----------------------------------------------------------------------------
\* Facts about jobs.

\* What a busy handler's job consists of.
LEMMA JobFields ==
  ASSUME NEW j \in Job, j.stage # "idle"
  PROVE  /\ j.inc \in Incident /\ j.how \in Attempt
         /\ j.stage \in {"asked", "taking", "taken"}
         /\ j.stage = "taking" => j.seen \in Nat
BY DEF Job, Idle

\* A handler is busy when its job is not the idle one.
LEMMA BusyWorks ==
  ASSUME job \in [Handler -> Job], NEW h \in Handler
  PROVE  h \in Busy <=> Working(h)
BY DEF Job, Idle, Busy, Working

\* The jobs there are.
LEMMA IdleForm == Idle \in Job /\ Idle.stage = "idle"
BY DEF Job, Idle

\* What a handler that asks for a heal works on.
LEMMA AskForm ==
  ASSUME NEW i \in Incident, NEW how \in Attempt
  PROVE  /\ Ask(i, how) \in Job /\ Ask(i, how).stage = "asked"
         /\ Ask(i, how).inc = i /\ Ask(i, how).how = how
BY DEF Job, Ask

\* The two stages of taking from the allowance are jobs.
LEMMA TakeForms ==
  ASSUME NEW i \in Incident, NEW how \in Attempt, NEW n \in Nat
  PROVE  /\ [stage |-> "taking", inc |-> i, how |-> how, seen |-> n] \in Job
         /\ [stage |-> "taken", inc |-> i, how |-> how] \in Job
BY DEF Job

-----------------------------------------------------------------------------
\* The inductive invariant.

\* The inductive invariant holds at the start.
LEMMA InitIInv == Init => IInv
<1> SUFFICES ASSUME Init PROVE IInv
  OBVIOUS
<1>1. job = [h \in Handler |-> Idle] /\ \A h \in Handler : ~Working(h)
  BY DEF Init, Working, Idle
<1>2. job \in [Handler -> Job]
  BY <1>1, IdleForm
<1>2a. TypeOK
  BY <1>2 DEF Init, TypeOK
<1>3. Kept /\ FreshFails
  BY DEF Init, Kept, FreshFails
<1> QED BY <1>1, <1>2a, <1>3
        DEF Init, IInv, Resting, JobsOpen, HandedOver, Apart, RetriesWait

\* A new sweep begins with nothing in hand.
LEMMA StartSweepIInv == IInv /\ StartSweep => IInv'
<1> SUFFICES ASSUME IInv, StartSweep PROVE IInv'
  OBVIOUS
<1>1. fresh = {} /\ \A h \in Handler : ~Working(h)
  BY DEF StartSweep, IInv, Resting
<1>2. /\ UNCHANGED <<fresh, open, waiting, announced, job, deferred, undiagnosed>>
      /\ phase' = "observe" /\ problems' \in SUBSET Incident /\ todo' = problems'
      /\ used' = 0 /\ suspended' = FALSE /\ executed' = 0
  BY DEF StartSweep
<1>3. \A h \in Handler : ~Working(h)'
  BY <1>1, <1>2 DEF Working
<1>4. TypeOK'
  BY <1>2 DEF IInv, TypeOK
<1>5. Kept'
  BY <1>1, <1>2 DEF IInv, Kept
<1> QED BY <1>1, <1>2, <1>3, <1>4, <1>5
        DEF IInv, Resting, FreshFails, JobsOpen, HandedOver, Apart, RetriesWait

\* Reaping an incident takes its proposal and its deferral with it.
LEMMA CorrelatedIInv == IInv /\ Correlated => IInv'
<1> SUFFICES ASSUME IInv, Correlated PROVE IInv'
  OBVIOUS
<1>1. job' = job /\ \A h \in Handler : ~Working(h)
  BY BusyWorks DEF Correlated, IInv, TypeOK
<1>2. \A h \in Handler : ~Working(h)'
  BY <1>1 DEF Working
<1>3. PICK quiet \in SUBSET (open \ problems) :
        /\ open' = open \ quiet /\ waiting' = waiting \ quiet
        /\ deferred' = deferred \ quiet /\ undiagnosed' = undiagnosed \ quiet
  BY DEF Correlated, Proposals
<1>4. fresh' \subseteq fresh /\ phase' = "handle" /\ suspended' \in BOOLEAN /\ announced' \in BOOLEAN
  BY DEF Correlated, Capped, Surge
<1>5. UNCHANGED <<problems, todo, used, executed>>
  BY DEF Correlated
<1>6. fresh' \subseteq open' /\ fresh' \subseteq problems'
  BY <1>3, <1>4, <1>5 DEF IInv, TypeOK, FreshFails
<1>7. TypeOK'
  BY <1>1, <1>3, <1>4, <1>5, <1>6 DEF IInv, TypeOK
<1>8. Kept'
  BY <1>1, <1>3 DEF IInv, Kept
<1> QED BY <1>2, <1>4, <1>6, <1>7, <1>8
        DEF IInv, Resting, FreshFails, JobsOpen, HandedOver, Apart, RetriesWait

\* A sweep ends when everything handed over is done.
LEMMA EndSweepIInv == IInv /\ EndSweep => IInv'
<1> SUFFICES ASSUME IInv, EndSweep PROVE IInv'
  OBVIOUS
<1>1. \A h \in Handler : ~Working(h)
  BY BusyWorks DEF EndSweep, IInv, TypeOK
<1>2. /\ phase' = "idle" /\ fresh = {}
      /\ UNCHANGED <<problems, todo, fresh, open, waiting, used, suspended, announced, job,
                     executed, deferred, undiagnosed>>
  BY DEF EndSweep, gates
<1> QED BY <1>1, <1>2 DEF IInv, TypeOK, Resting, FreshFails, JobsOpen, HandedOver, Apart,
                          RetriesWait, Kept, Working

\* Observing hands at most one incident, that waits, to an idle goroutine.
LEMMA ObserveIInv == ASSUME NEW h \in Handler PROVE IInv /\ Observe(h) => IInv'
<1> SUFFICES ASSUME IInv, Observe(h) PROVE IInv'
  OBVIOUS
<1>1. \A g \in Handler : ~Working(g)
  BY BusyWorks DEF Observe, Observed, IInv, TypeOK
<1>2. PICK i \in todo :
        /\ phase = "observe" /\ todo' = todo \ {i} /\ open' = open \cup {i}
        /\ fresh' = IF i \in open THEN fresh ELSE fresh \cup {i}
        /\ job' = IF i \in waiting THEN [job EXCEPT ![h] = Ask(i, "retry")] ELSE job
        /\ UNCHANGED <<phase, problems, waiting, used, suspended, announced,
                       executed, deferred, undiagnosed>>
  BY DEF Observe, Observed, gates
<1>3. i \in problems /\ i \in Incident
  BY <1>2 DEF IInv, TypeOK
<1>4. job' \in [Handler -> Job]
  BY <1>2, <1>3, AskForm DEF IInv, TypeOK, Attempt
<1>5. TypeOK'
  BY <1>2, <1>3, <1>4 DEF IInv, TypeOK
<1>6. \A g \in Handler : Working(g)' =>
        g = h /\ i \in waiting /\ job'[g].inc = i /\ job'[g].how = "retry"
  <2> SUFFICES ASSUME NEW g \in Handler, Working(g)'
               PROVE  g = h /\ i \in waiting /\ job'[g].inc = i /\ job'[g].how = "retry"
    OBVIOUS
  <2>1. job'[g] # job[g]
    BY <1>1 DEF Working
  <2>2. i \in waiting /\ g = h /\ job'[g] = Ask(i, "retry")
    BY <1>2, <2>1 DEF IInv, TypeOK
  <2>3. "retry" \in Attempt
    BY DEF Attempt
  <2> QED BY <1>3, <2>2, <2>3, AskForm
<1>7. FreshFails' /\ Resting'
  BY <1>2, <1>3 DEF IInv, FreshFails, Resting
<1>8. JobsOpen' /\ HandedOver' /\ Apart' /\ RetriesWait'
  BY <1>2, <1>6 DEF JobsOpen, HandedOver, Apart, RetriesWait
<1>9. Kept'
  BY <1>1, <1>2 DEF IInv, Kept
<1> QED BY <1>5, <1>7, <1>8, <1>9 DEF IInv

\* Nor does observing one whose evidence cannot be collected change what is in hand.
LEMMA ObserveUnreadIInv == IInv /\ ObserveUnread => IInv'
<1> SUFFICES ASSUME IInv, ObserveUnread PROVE IInv'
  OBVIOUS
<1>1. PICK i \in todo \cap waiting :
        /\ phase = "observe" /\ Busy = {} /\ todo' = todo \ {i} /\ open' = open \cup {i}
        /\ fresh' = IF i \in open THEN fresh ELSE fresh \cup {i}
        /\ UNCHANGED <<job, phase, problems, waiting, used, suspended, announced,
                       executed, deferred, undiagnosed>>
  BY DEF ObserveUnread, Observed, gates
<1>2. \A g \in Handler : ~Working(g)
  BY <1>1, BusyWorks DEF IInv, TypeOK
<1>3. fresh' \subseteq open' /\ fresh' \subseteq problems /\ open \subseteq open'
  BY <1>1 DEF IInv, TypeOK, FreshFails
<1>4. TypeOK'
  BY <1>1, <1>3 DEF IInv, TypeOK
<1> QED BY <1>1, <1>2, <1>3, <1>4 DEF IInv, Resting, FreshFails, JobsOpen, HandedOver, Apart,
                                      RetriesWait, Kept, Working

\* A handler that takes an incident takes it from the others.
LEMMA HandleIInv == ASSUME NEW h \in Handler PROVE IInv /\ Handle(h) => IInv'
<1> SUFFICES ASSUME IInv, Handle(h) PROVE IInv'
  OBVIOUS
<1>1. PICK i \in fresh :
        /\ fresh' = fresh \ {i}
        /\ \/ \E how \in {"replay", "diagnosed"} : job' = [job EXCEPT ![h] = Ask(i, how)]
           \/ UNCHANGED job
  BY DEF Handle
<1>2. /\ phase = "handle" /\ job[h] = Idle
      /\ UNCHANGED <<phase, problems, todo, open, waiting, used, suspended, announced,
                     executed, deferred, undiagnosed>>
  BY DEF Handle, gates
<1>3. i \in open /\ i \in Incident
  BY DEF IInv, TypeOK
<1>4. CASE UNCHANGED job
  BY <1>1, <1>2, <1>4 DEF IInv, TypeOK, Resting, FreshFails, JobsOpen, HandedOver, Apart,
                          RetriesWait, Kept, Working
<1>5. CASE \E how \in {"replay", "diagnosed"} : job' = [job EXCEPT ![h] = Ask(i, how)]
  <2>1. PICK how \in {"replay", "diagnosed"} : job' = [job EXCEPT ![h] = Ask(i, how)]
    BY <1>5
  <2>2. how \in Attempt /\ how # "retry"
    BY DEF Attempt
  <2>3. /\ job' \in [Handler -> Job] /\ job'[h].inc = i /\ job'[h].how = how
        /\ \A g \in Handler : g # h => job'[g] = job[g]
    BY <1>3, <2>1, <2>2, AskForm DEF IInv, TypeOK
  <2>4. TypeOK'
    BY <1>1, <1>2, <2>3 DEF IInv, TypeOK
  <2>5. ~Working(h)
    BY <1>2, IdleForm DEF Working
  <2>6. Resting' /\ FreshFails' /\ JobsOpen' /\ HandedOver' /\ Apart' /\ RetriesWait'
    BY <1>1, <1>2, <1>3, <2>2, <2>3
       DEF IInv, Resting, FreshFails, JobsOpen, HandedOver, Apart, RetriesWait, Working
  <2>7. Kept'
    BY <1>2, <2>3, <2>5 DEF IInv, Kept, Working
  <2> QED BY <2>4, <2>6, <2>7 DEF IInv
<1> QED BY <1>1, <1>4, <1>5

-----------------------------------------------------------------------------
\* The steps of a handler's attempt.  What they have in common: it stays with its
\* incident until it is done, and others' incidents keep waiting.
Attempts(h) ==
  /\ job' \in [Handler -> Job] /\ \A g \in Handler : g # h => job'[g] = job[g]
  /\ Working(h)' => job'[h].inc = job[h].inc
  /\ Working(h)' /\ job'[h].how = "retry" => job[h].how = "retry" /\ waiting' = waiting
  /\ waiting \ {job[h].inc} \subseteq waiting' /\ waiting' \subseteq waiting \cup {job[h].inc}
  /\ deferred' \subseteq deferred \cup {job[h].inc}
  /\ undiagnosed \subseteq undiagnosed' /\ undiagnosed' \subseteq undiagnosed \cup {job[h].inc}
  /\ job[h].inc \in deferred' =>
       Working(h)' \/ job[h].inc \in waiting' \/ job[h].inc \in undiagnosed'
  /\ UNCHANGED <<phase, problems, todo, fresh, open>>

\* Such a step keeps the invariant, but for the two counters' types.
LEMMA AttemptsKeep ==
  ASSUME IInv, NEW h \in Handler, Working(h), Attempts(h),
         used' \in Nat, executed' \in Nat, suspended' = suspended, announced' = announced
  PROVE  IInv'
<1>1. job[h].inc \in open /\ phase # "idle"
  BY DEF IInv, JobsOpen, Resting
<1>2. UNCHANGED <<phase, problems, todo, fresh, open>>
  BY DEF Attempts
<1>3. /\ job' \in [Handler -> Job] /\ \A g \in Handler : g # h => job'[g] = job[g]
      /\ Working(h)' => job'[h].inc = job[h].inc
  BY DEF Attempts
<1>4. \A g \in Handler : Working(g)' => Working(g) /\ job'[g].inc = job[g].inc
  BY <1>3 DEF Working
<1>5. waiting' \subseteq open' /\ deferred' \subseteq open' /\ undiagnosed' \subseteq open'
  BY <1>1, <1>2 DEF Attempts, IInv, TypeOK
<1>6. TypeOK'
  BY <1>2, <1>3, <1>5 DEF IInv, TypeOK
<1>7. Resting' /\ FreshFails' /\ JobsOpen' /\ HandedOver' /\ Apart'
  BY <1>1, <1>2, <1>4 DEF IInv, Resting, FreshFails, JobsOpen, HandedOver, Apart
<1>8. RetriesWait'
  <2> SUFFICES ASSUME NEW g \in Handler, Working(g)', job'[g].how = "retry"
               PROVE  job'[g].inc \in waiting'
    BY DEF RetriesWait
  <2>1. CASE g = h
    BY <1>3, <2>1 DEF Attempts, IInv, RetriesWait
  <2>2. CASE g # h
    <3>1. Working(g) /\ job'[g] = job[g] /\ job[g].how = "retry"
      BY <1>3, <1>4, <2>2
    <3>2. job[g].inc \in waiting /\ job[g].inc # job[h].inc
      BY <2>2, <3>1 DEF IInv, RetriesWait, Apart
    <3> QED BY <3>1, <3>2 DEF Attempts
  <2> QED BY <2>1, <2>2
<1>9. Kept'
  <2> SUFFICES ASSUME NEW i \in deferred'
               PROVE  i \in waiting' \/ i \in undiagnosed'
                       \/ \E g \in Handler : Working(g)' /\ job'[g].inc = i
    BY DEF Kept
  <2>1. CASE i = job[h].inc
    BY <1>3, <2>1 DEF Attempts
  <2>2. CASE i # job[h].inc
    <3>1. i \in deferred
      BY <2>2 DEF Attempts
    <3>2. CASE i \in waiting \/ i \in undiagnosed
      BY <2>2, <3>2 DEF Attempts
    <3>3. CASE \E g \in Handler : Working(g) /\ job[g].inc = i
      <4>1. PICK g \in Handler : Working(g) /\ job[g].inc = i
        BY <3>3
      <4>2. job'[g] = job[g]
        BY <1>3, <2>2, <4>1
      <4> QED BY <4>1, <4>2 DEF Working
    <3> QED BY <3>1, <3>2, <3>3 DEF IInv, Kept
  <2> QED BY <2>1, <2>2
<1> QED BY <1>6, <1>7, <1>8, <1>9 DEF IInv

\* An attempt that did not execute goes on as a diagnosis or leaves its heal waiting.
LEMMA UnhealedAttempts ==
  ASSUME IInv, NEW h \in Handler, Working(h), Unhealed(h),
         deferred' \in {deferred, deferred \cup {job[h].inc}},
         UNCHANGED <<phase, problems, todo, fresh, open>>
  PROVE  Attempts(h)
<1>1. job[h] \in Job /\ job[h].inc \in Incident /\ job[h].how \in Attempt
  BY JobFields DEF IInv, TypeOK, Working
<1>2. "diagnosed" \in Attempt
  BY DEF Attempt
<1>3. Ask(job[h].inc, "diagnosed") \in Job /\ Ask(job[h].inc, "diagnosed").inc = job[h].inc
      /\ Ask(job[h].inc, "diagnosed").how = "diagnosed"
  BY <1>1, <1>2, AskForm
<1>4. job' = [job EXCEPT ![h] = Ask(job[h].inc, "diagnosed")] \/ job' = [job EXCEPT ![h] = Idle]
  BY DEF Unhealed
<1>5. job' \in [Handler -> Job] /\ \A g \in Handler : g # h => job'[g] = job[g]
  BY <1>3, <1>4, IdleForm DEF IInv, TypeOK
<1>6. CASE job' = [job EXCEPT ![h] = Ask(job[h].inc, "diagnosed")] /\ UNCHANGED <<waiting, undiagnosed>>
  <2>1. job'[h] = Ask(job[h].inc, "diagnosed")
    BY <1>6 DEF IInv, TypeOK
  <2>2. job'[h].inc = job[h].inc /\ job'[h].how = "diagnosed" /\ job'[h].stage = "asked"
    BY <1>1, <1>2, <2>1, AskForm
  <2>3. Working(h)'
    BY <2>2 DEF Working
  <2> QED BY <1>5, <1>6, <2>2, <2>3 DEF Attempts
<1>7. CASE job' = [job EXCEPT ![h] = Idle]
  <2>1. ~Working(h)'
    BY <1>7, IdleForm DEF IInv, TypeOK, Working
  <2>2. CASE undiagnosed' = undiagnosed \cup {job[h].inc} /\ UNCHANGED waiting
    BY <1>5, <2>1, <2>2 DEF Attempts
  <2>3. CASE job[h].how = "diagnosed" /\ waiting' = waiting \cup {job[h].inc}
             /\ UNCHANGED undiagnosed
    BY <1>5, <2>1, <2>3 DEF Attempts
  <2>4. CASE job[h].how = "retry" /\ UNCHANGED <<waiting, undiagnosed>>
    <3>1. job[h].inc \in waiting
      BY <2>4 DEF IInv, RetriesWait
    <3> QED BY <1>5, <2>1, <2>4, <3>1 DEF Attempts
  <2>5. Idle.stage = "idle" /\ Ask(job[h].inc, "diagnosed").stage = "asked"
    BY <1>1, <1>2, AskForm, IdleForm
  <2>6. job' # [job EXCEPT ![h] = Ask(job[h].inc, "diagnosed")]
    BY <1>7, <2>5 DEF IInv, TypeOK
  <2> QED BY <1>1, <2>2, <2>3, <2>4, <2>6 DEF Unhealed, Attempt
<1> QED BY <1>4, <1>6, <1>7 DEF Unhealed

\* A suspended heal keeps the invariant: its handler goes on as after any refusal.
LEMMA SuspendedIInv == ASSUME NEW h \in Handler PROVE IInv /\ Suspended(h) => IInv'
<1> SUFFICES ASSUME IInv, Suspended(h) PROVE IInv'
  OBVIOUS
<1>1. Working(h) /\ Unhealed(h)
  BY DEF Suspended, Working
<1>2. UNCHANGED <<phase, problems, todo, fresh, open, used, suspended, announced,
                  executed, deferred>>
  BY DEF Suspended, gates
<1>3. Attempts(h)
  BY <1>1, <1>2, UnhealedAttempts
<1> QED BY <1>1, <1>2, <1>3, AttemptsKeep DEF IInv, TypeOK

\* So does one the allowance has no room for.
LEMMA BudgetSpentIInv == ASSUME NEW h \in Handler PROVE IInv /\ BudgetSpent(h) => IInv'
<1> SUFFICES ASSUME IInv, BudgetSpent(h) PROVE IInv'
  OBVIOUS
<1>1. Working(h) /\ Unhealed(h)
  BY DEF BudgetSpent, Working
<1>2. /\ UNCHANGED <<phase, problems, todo, fresh, open, used, suspended, announced,
                     executed>>
      /\ deferred' = deferred \cup {job[h].inc}
  BY DEF BudgetSpent, gates
<1>3. Attempts(h)
  BY <1>1, <1>2, UnhealedAttempts
<1> QED BY <1>1, <1>2, <1>3, AttemptsKeep DEF IInv, TypeOK

\* So does one that the other gates decline.
LEMMA DeclineIInv == ASSUME NEW h \in Handler PROVE IInv /\ Decline(h) => IInv'
<1> SUFFICES ASSUME IInv, Decline(h) PROVE IInv'
  OBVIOUS
<1>1. Working(h) /\ Unhealed(h)
  BY DEF Decline, Working
<1>2. UNCHANGED <<phase, problems, todo, fresh, open, used, suspended, announced,
                  executed, deferred>>
  BY DEF Decline, gates
<1>3. Attempts(h)
  BY <1>1, <1>2, UnhealedAttempts
<1> QED BY <1>1, <1>2, <1>3, AttemptsKeep DEF IInv, TypeOK

\* Comparing the counter keeps it: nothing but the job changes.
LEMMA TakeReadIInv == ASSUME NEW h \in Handler PROVE IInv /\ TakeRead(h) => IInv'
<1> SUFFICES ASSUME IInv, TakeRead(h) PROVE IInv'
  OBVIOUS
<1>1. Working(h)
  BY DEF TakeRead, Working
<1>2. /\ UNCHANGED <<phase, problems, todo, fresh, open, waiting, used, suspended, announced,
                     executed, deferred, undiagnosed>>
      /\ job' = [job EXCEPT ![h] = [stage |-> "taking", inc |-> job[h].inc,
                                    how |-> job[h].how, seen |-> used]]
  BY DEF TakeRead, gates
<1>3. job[h].inc \in Incident /\ job[h].how \in Attempt /\ used \in Nat
  BY <1>1, JobFields DEF IInv, TypeOK, Working
<1>4. /\ job' \in [Handler -> Job] /\ \A g \in Handler : g # h => job'[g] = job[g]
      /\ job'[h].inc = job[h].inc /\ job'[h].how = job[h].how /\ job'[h].stage = "taking"
  BY <1>2, <1>3, TakeForms DEF IInv, TypeOK
<1>5. Working(h)'
  BY <1>4 DEF Working
<1>6. Attempts(h)
  BY <1>2, <1>4, <1>5 DEF Attempts
<1> QED BY <1>1, <1>2, <1>6, AttemptsKeep DEF IInv, TypeOK

\* So does incrementing the counter.
LEMMA TakeWriteIInv == ASSUME NEW h \in Handler PROVE IInv /\ TakeWrite(h) => IInv'
<1> SUFFICES ASSUME IInv, TakeWrite(h) PROVE IInv'
  OBVIOUS
<1>1. Working(h) /\ job[h].stage = "taking"
  BY DEF TakeWrite, Working
<1>2. /\ UNCHANGED <<phase, problems, todo, fresh, open, waiting, suspended, announced,
                     executed, deferred, undiagnosed>>
      /\ job' = [job EXCEPT ![h] = [stage |-> "taken", inc |-> job[h].inc, how |-> job[h].how]]
      /\ used' = Spent(job[h].seen)
  BY DEF TakeWrite
<1>3. job[h].inc \in Incident /\ job[h].how \in Attempt /\ job[h].seen \in Nat
  BY <1>1, JobFields DEF IInv, TypeOK, Working
<1>4. used' \in Nat
  BY <1>2, <1>3 DEF Spent
<1>5. [stage |-> "taken", inc |-> job[h].inc, how |-> job[h].how] \in Job
  BY <1>3, TakeForms
<1>6. /\ job' \in [Handler -> Job] /\ \A g \in Handler : g # h => job'[g] = job[g]
      /\ job'[h].inc = job[h].inc /\ job'[h].how = job[h].how /\ job'[h].stage = "taken"
  BY <1>2, <1>5 DEF IInv, TypeOK
<1>7. Working(h)'
  BY <1>6 DEF Working
<1>8. Attempts(h)
  BY <1>2, <1>6, <1>7 DEF Attempts
<1> QED BY <1>1, <1>2, <1>4, <1>8, AttemptsKeep DEF IInv, TypeOK

\* A heal that executes is neither waiting nor deferred any more.
LEMMA ExecuteIInv == ASSUME NEW h \in Handler PROVE IInv /\ Execute(h) => IInv'
<1> SUFFICES ASSUME IInv, Execute(h) PROVE IInv'
  OBVIOUS
<1>1. Working(h)
  BY DEF Execute, Working
<1>2. /\ UNCHANGED <<phase, problems, todo, fresh, open, used, suspended, announced,
                     undiagnosed>>
      /\ job' = [job EXCEPT ![h] = Idle] /\ executed' = executed + 1
      /\ waiting' = waiting \ {job[h].inc} /\ deferred' = deferred \ {job[h].inc}
  BY DEF Execute, gates
<1>3. /\ job' \in [Handler -> Job] /\ \A g \in Handler : g # h => job'[g] = job[g]
      /\ job'[h] = Idle
  BY <1>2, IdleForm DEF IInv, TypeOK
<1>4. ~Working(h)'
  BY <1>3, IdleForm DEF Working
<1>5. Attempts(h)
  BY <1>2, <1>3, <1>4 DEF Attempts
<1> QED BY <1>1, <1>2, <1>5, AttemptsKeep DEF IInv, TypeOK

\* Every step keeps the invariant.
LEMMA NextIInv == IInv /\ [Next]_vars => IInv'
<1> SUFFICES ASSUME IInv, [Next]_vars PROVE IInv'
  OBVIOUS
<1>1. ASSUME NEW h \in Handler, HandlerStep(h) PROVE IInv'
  BY <1>1, ObserveIInv, HandleIInv, SuspendedIInv, BudgetSpentIInv, TakeReadIInv,
     TakeWriteIInv, ExecuteIInv, DeclineIInv DEF HandlerStep
<1>2. CASE UNCHANGED vars
  BY <1>2 DEF vars, gates, IInv, TypeOK, Resting, FreshFails, JobsOpen, HandedOver, Apart,
              RetriesWait, Kept, Working
<1> QED BY <1>1, <1>2, StartSweepIInv, ObserveUnreadIInv, CorrelatedIInv, EndSweepIInv DEF Next

\* The inductive invariant holds in every behaviour.
LEMMA Invariance == Spec => []IInv
BY InitIInv, NextIInv, PTL DEF Spec

-----------------------------------------------------------------------------
\* Every reachable state of the sweep is well typed.
THEOREM TypeCorrect == Spec => []TypeOK
<1>1. IInv => TypeOK
  BY DEF IInv
<1> QED BY <1>1, Invariance, PTL

\* A heal the allowance had no room for waits for a later sweep while its incident is
\* open, however the handlers interleave (rememberHeal, maybeRetryHeal); only a replay
\* that was refused and whose diagnosis failed is lost (handle).
THEOREM DeferredIsKept == Spec => []DeferredNotDropped
<1>1. IInv => DeferredNotDropped
  BY BusyWorks DEF IInv, TypeOK, Kept, DeferredNotDropped
<1> QED BY <1>1, Invariance, PTL

-----------------------------------------------------------------------------
\* The allowance, when one handler at a time takes from it.

OneHandler == \A g, h \in Handler : g = h

Accounted ==
  MaxPerSweep > 0 =>
    /\ executed <= used /\ used <= MaxPerSweep
    /\ \A h \in Handler : /\ job[h].stage = "taking" => job[h].seen = used /\ used < MaxPerSweep
                          /\ job[h].stage = "taken" => executed < used

\* What was taken from the allowance covers what executed.
LEMMA AccountedNext ==
  ASSUME OneHandler, IInv, Accounted, [Next]_vars
  PROVE  Accounted'
<1> SUFFICES ASSUME MaxPerSweep > 0 PROVE Accounted'
  BY DEF Accounted
<1>0. /\ MaxPerSweep \in Nat /\ used \in Nat /\ executed \in Nat /\ job \in [Handler -> Job]
      /\ executed <= used /\ used <= MaxPerSweep
  BY SweepGateAssumption DEF Accounted, IInv, TypeOK
<1>1. CASE StartSweep
  <2>1. /\ used' = 0 /\ executed' = 0 /\ job' = job
        /\ \A h \in Handler : job[h].stage = "idle"
    BY <1>1 DEF StartSweep, IInv, Resting, Working
  <2> QED BY <1>0, <2>1 DEF Accounted
<1>2. CASE ObserveUnread \/ Correlated \/ EndSweep \/ UNCHANGED vars
  <2>1. used' = used /\ executed' = executed /\ job' = job
    BY <1>2 DEF ObserveUnread, Observed, Correlated, EndSweep, gates, vars
  <2> QED BY <2>1 DEF Accounted
<1>3. ASSUME NEW h \in Handler, HandlerStep(h) PROVE Accounted'
  <2>0. \A g \in Handler : g = h
    BY DEF OneHandler
  <2>1. CASE Observe(h) \/ Handle(h)
    <3>1. used' = used /\ executed' = executed
      BY <2>1 DEF Observe, Observed, Handle, gates
    <3>2. job' = job \/ \E i, how : job' = [job EXCEPT ![h] = Ask(i, how)]
      BY <2>1 DEF Observe, Handle
    <3>3. job'[h] = job[h] \/ job'[h].stage = "asked"
      BY <1>0, <3>2 DEF Ask
    <3> QED BY <2>0, <3>1, <3>3 DEF Accounted
  <2>2. CASE Suspended(h) \/ BudgetSpent(h) \/ Decline(h)
    <3>1. used' = used /\ executed' = executed /\ Unhealed(h)
      BY <2>2 DEF Suspended, BudgetSpent, Decline, gates
    <3>2. job'[h] = Ask(job[h].inc, "diagnosed") \/ job'[h] = Idle
      BY <1>0, <3>1 DEF Unhealed
    <3>3. job'[h].stage \in {"asked", "idle"}
      BY <3>2 DEF Ask, Idle
    <3> QED BY <2>0, <3>1, <3>3 DEF Accounted
  <2>3. CASE TakeRead(h)
    <3>1. /\ used' = used /\ executed' = executed /\ used < MaxPerSweep
          /\ job'[h] = [stage |-> "taking", inc |-> job[h].inc, how |-> job[h].how,
                        seen |-> used]
      BY <1>0, <2>3 DEF TakeRead, gates
    <3> QED BY <1>0, <2>0, <3>1 DEF Accounted
  <2>4. CASE TakeWrite(h)
    <3>1. /\ job[h].stage = "taking" /\ used' = Spent(job[h].seen) /\ executed' = executed
          /\ job'[h] = [stage |-> "taken", inc |-> job[h].inc, how |-> job[h].how]
      BY <1>0, <2>4 DEF TakeWrite
    <3>2. used' = used + 1 /\ used < MaxPerSweep
      BY <3>1 DEF Accounted, Spent
    <3> QED BY <1>0, <2>0, <3>1, <3>2 DEF Accounted
  <2>5. CASE Execute(h)
    <3>1. /\ job[h].stage = "taken" /\ used' = used /\ executed' = executed + 1
          /\ job'[h] = Idle
      BY <1>0, <2>5 DEF Execute, gates
    <3>2. executed < used
      BY <3>1 DEF Accounted
    <3> QED BY <1>0, <2>0, <3>1, <3>2 DEF Accounted, Idle
  <2> QED BY <1>3, <2>1, <2>2, <2>3, <2>4, <2>5 DEF HandlerStep
<1> QED BY <1>1, <1>2, <1>3 DEF Next

\* With one handler (PODSMEDIC_CONCURRENCY=1) no more heals execute in a sweep than its
\* allowance: retries, replays and diagnosed heals together.  With more the unlocked
\* Budget.Take breaks this.
THEOREM OneHandlerKeepsBudget ==
  ASSUME OneHandler
  PROVE  Spec => []BudgetRespected
<1>1. Init => Accounted
  BY SweepGateAssumption DEF Init, Accounted, Idle
<1>2. IInv /\ Accounted /\ [Next]_vars => Accounted'
  BY AccountedNext
<1>3. IInv /\ Accounted => BudgetRespected
  BY SweepGateAssumption DEF IInv, TypeOK, Accounted, BudgetRespected
<1> QED BY <1>1, <1>2, <1>3, Invariance, PTL DEF Spec
=============================================================================
