-------------------------- MODULE LeadershipProofs --------------------------
(***************************************************************************)
(* Proofs about replicas under leader election, for any number of them, of *)
(* their handlers, digests and stops, and for any options Validate accepts.*)
(* Election, digest and audit trail are taken in turn: a step of one       *)
(* leaves the variables of the others alone, except that whoever loses     *)
(* leadership loses what it has not saved.                                 *)
(***************************************************************************)
EXTENDS Leadership, SequenceTheorems, FiniteSetTheorems, TLAPS

-----------------------------------------------------------------------------
\* The election.

Phase == {"down", "standby", "leading", "releasing", "unwinding"}

\* An elector that renews a lease which is no longer its own.
Late(r) == Leading(r) /\ r # holder

\* The lease is younger than what its holder remembers.  Whoever has lost it unawares
\* has not renewed it for its duration and for as long as somebody else has held it;
\* and that is one elector at most.
Renewals ==
  /\ holder \in Replicas /\ Leading(holder) => age <= since[holder]
  /\ \A r \in Replicas : Late(r) => /\ options.duration + together <= since[r]
                                    /\ holder # NoOne => options.duration + age <= since[r]
  /\ \A r, q \in Replicas : Late(r) /\ Late(q) => r = q

\* Types of the election.
ElectionTypes ==
  /\ options \in Candidates /\ Valid(options)
  /\ holder \in Replicas \cup {NoOne} /\ age \in 0 .. options.duration
  /\ proc \in [Replicas -> Phase] /\ since \in [Replicas -> 0 .. LastTry]
  /\ together \in Nat

\* Without rivals, one context is live at a time.
Rivalry ==
  /\ rivals \in Nat
  /\ rivals = 0 => \A r, q \in Replicas : Live(r) /\ Live(q) => r = q

Election == ElectionTypes /\ Renewals /\ Rivalry

\* Accepted options are numbers; the deadline is shorter than the duration, and the
\* retry period shorter than the deadline.
LEMMA OptionsFacts ==
  ASSUME options \in Candidates, Valid(options)
  PROVE  /\ options.duration \in Nat /\ options.deadline \in Nat /\ options.retry \in Nat
         /\ options.retry < options.deadline /\ options.deadline < options.duration
         /\ LastTry \in Nat /\ LastTry = options.deadline + options.retry
BY LeadershipAssumption DEF Valid, LastTry

\* It holds at the start.
LEMMA InitElection == Init => Election
<1> SUFFICES ASSUME Init PROVE Election
  OBVIOUS
<1>1. options \in Candidates /\ Valid(options)
  BY DEF Init
<1>2. options.duration \in Nat /\ LastTry \in Nat
  BY <1>1, OptionsFacts
<1>3. age \in 0 .. options.duration /\ since \in [Replicas -> 0 .. LastTry]
  BY <1>2 DEF Init
<1>4. \A r \in Replicas : ~Leading(r) /\ ~Live(r)
  BY DEF Init, Leading, Live
<1>5. ElectionTypes
  BY <1>1, <1>3 DEF Init, ElectionTypes, Phase
<1>6. Renewals
  BY <1>4 DEF Renewals, Late
<1>7. Rivalry
  BY <1>4 DEF Init, Rivalry
<1> QED BY <1>5, <1>6, <1>7 DEF Election

\* The retry period and the renew deadline together are less than two durations, so
\* a lease does not run out while somebody else has lost it unawares.
LEMMA OnlyOneLate ==
  ASSUME Election, age >= options.duration, holder # NoOne, NEW r \in Replicas
  PROVE  ~Late(r)
<1> SUFFICES ASSUME Late(r) PROVE FALSE
  OBVIOUS
<1>1. options.duration + age <= since[r]
  BY DEF Election, Renewals
<1>2. since[r] \in Nat /\ since[r] <= LastTry /\ age \in Nat
  BY OptionsFacts DEF Election, ElectionTypes
<1>3. LastTry < options.duration + options.duration
  BY OptionsFacts DEF Election, ElectionTypes
<1> QED BY <1>1, <1>2, <1>3, OptionsFacts DEF Election, ElectionTypes

\* Two electors that renew at once: one of them is late.
LEMMA SharedFacts ==
  ASSUME NEW r \in Replicas, NEW q \in Replicas, r # q, Leading(r), Leading(q)
  PROVE  Late(r) \/ Late(q)
BY DEF Late

\* A tick passes for everybody.
LEMMA TickElection ==
  ASSUME Election, Tick
  PROVE  Election'
<1>1. /\ \A r \in Replicas : /\ Leading(r) => since[r] < LastTry
                             /\ proc[r] = "releasing" => since[r] < options.deadline
      /\ age' = IF holder # NoOne /\ age < options.duration THEN age + 1 ELSE age
      /\ since' = [r \in Replicas |-> IF Live(r) THEN since[r] + 1 ELSE since[r]]
      /\ together' = IF Shared THEN together + 1 ELSE 0
      /\ UNCHANGED <<options, holder, proc, rivals>>
  BY DEF Tick
<1>2. /\ options.duration \in Nat /\ options.deadline \in Nat /\ options.retry \in Nat
      /\ LastTry \in Nat /\ LastTry = options.deadline + options.retry /\ LastTry' = LastTry
  <2>1. LastTry' = LastTry
    BY <1>1 DEF LastTry
  <2> QED BY <2>1, OptionsFacts DEF Election, ElectionTypes
<1>3. /\ age \in Nat /\ age <= options.duration /\ together \in Nat
      /\ \A r \in Replicas : since[r] \in Nat /\ since[r] <= LastTry
  BY <1>2 DEF Election, ElectionTypes
<1>4. \A r \in Replicas : /\ since'[r] = IF Live(r) THEN since[r] + 1 ELSE since[r]
                          /\ Leading(r) => Live(r) /\ since'[r] = since[r] + 1
                          /\ Leading(r)' = Leading(r) /\ Live(r)' = Live(r)
                          /\ Late(r)' = Late(r)
  BY <1>1 DEF Leading, Live, Late
<1>5. /\ age' \in 0 .. options.duration /\ age' <= age + 1 /\ together' \in Nat
      /\ together' <= together + 1
  BY <1>1, <1>2, <1>3
<1>6. \A r \in Replicas : since'[r] \in 0 .. LastTry
  <2> SUFFICES ASSUME NEW r \in Replicas PROVE since'[r] \in 0 .. LastTry
    OBVIOUS
  <2>1. CASE Leading(r)
    BY <2>1, <1>1, <1>2, <1>3, <1>4
  <2>2. CASE proc[r] = "releasing"
    BY <2>2, <1>1, <1>2, <1>3, <1>4 DEF Live
  <2>3. CASE ~Live(r)
    BY <2>3, <1>2, <1>3, <1>4
  <2> QED BY <2>1, <2>2, <2>3 DEF Live, Leading
<1>7. ElectionTypes'
  BY <1>1, <1>2, <1>5, <1>6 DEF Election, ElectionTypes, Valid
<1>8. Renewals'
  <2>1. holder \in Replicas /\ Leading(holder) => age' <= since'[holder]
    BY <1>3, <1>4, <1>5 DEF Election, Renewals
  <2>2. ASSUME NEW r \in Replicas, Late(r)
        PROVE  /\ options.duration + together' <= since'[r]
               /\ holder # NoOne => options.duration + age' <= since'[r]
    <3>1. /\ options.duration + together <= since[r] /\ since'[r] = since[r] + 1
          /\ holder # NoOne => options.duration + age <= since[r]
      BY <2>2, <1>4 DEF Election, Renewals, Late
    <3>2. age' \in Nat /\ since[r] \in Nat
      BY <1>2, <1>3, <1>5
    <3> QED BY <3>1, <3>2, <1>2, <1>3, <1>5
  <2> QED BY <2>1, <2>2, <1>1, <1>4 DEF Election, Renewals
<1>9. Rivalry'
  BY <1>1, <1>4 DEF Election, Rivalry
<1> QED BY <1>7, <1>8, <1>9 DEF Election

\* A lease is renewed, or taken back from no one.
LEMMA RenewElection ==
  ASSUME Election, NEW r \in Replicas, Renew(r)
  PROVE  Election'
<1>1. /\ Leading(r) /\ holder \in {r, NoOne}
      /\ holder' = r /\ age' = 0
      /\ since' \in {since, [since EXCEPT ![r] = 0]}
      /\ UNCHANGED <<options, together, proc, rivals>>
  BY DEF Renew
<1>2. options.duration \in Nat /\ LastTry \in Nat /\ LastTry' = LastTry
  <2>1. LastTry' = LastTry
    BY <1>1 DEF LastTry
  <2> QED BY <2>1, OptionsFacts DEF Election, ElectionTypes
<1>3. since' \in [Replicas -> 0 .. LastTry]
  BY <1>1, <1>2 DEF Election, ElectionTypes
<1>4. \A q \in Replicas : Leading(q)' = Leading(q) /\ Live(q)' = Live(q)
  BY <1>1 DEF Leading, Live
<1>5. ASSUME NEW q \in Replicas, Late(q)'
      PROVE  /\ holder # NoOne /\ Late(q) /\ since'[q] = since[q]
             /\ options.duration + together <= since'[q]
             /\ options.duration + age' <= since'[q]
  <2>1. Leading(q) /\ q # r
    BY <1>1, <1>4, <1>5 DEF Late
  <2>2. Late(q)
    BY <2>1, <1>1, LeadershipAssumption DEF Late
  <2>3. holder # NoOne
    <3>1. holder = NoOne => Late(r)
      BY <1>1, LeadershipAssumption DEF Late
    <3> QED BY <3>1, <2>1, <2>2 DEF Election, Renewals
  <2>4. since'[q] = since[q]
    BY <2>1, <1>1 DEF Election, ElectionTypes
  <2>5. options.duration + together <= since[q]
    BY <2>2 DEF Election, Renewals
  <2>6. together \in Nat /\ since[q] \in Nat
    BY <1>2 DEF Election, ElectionTypes
  <2> QED BY <2>2, <2>3, <2>4, <2>5, <2>6, <1>1, <1>2
<1>6. ElectionTypes'
  BY <1>1, <1>2, <1>3 DEF Election, ElectionTypes, Valid
<1>7. Renewals'
  <2>1. age' <= since'[r]
    BY <1>1, <1>2, <1>3
  <2> QED BY <2>1, <1>1, <1>5 DEF Election, Renewals
<1>8. Rivalry'
  BY <1>1, <1>4 DEF Election, Rivalry
<1> QED BY <1>6, <1>7, <1>8 DEF Election

\* A leadership that begins beside another's live context is counted.
LEMMA AcquireRivalry ==
  ASSUME Election, NEW r \in Replicas, Acquire(r)
  PROVE  Rivalry'
<1>1. /\ proc' = [proc EXCEPT ![r] = "leading"]
      /\ rivals' = IF \E q \in Replicas : Live(q) THEN rivals + 1 ELSE rivals
  BY DEF Acquire
<1>2. rivals \in Nat /\ proc \in [Replicas -> Phase]
  BY DEF Election, Rivalry, ElectionTypes
<1>3. ASSUME rivals' = 0
      PROVE  \A q \in Replicas : Live(q)' => q = r
  <2>1. \A q \in Replicas : ~Live(q)
    BY <1>1, <1>2, <1>3
  <2> QED BY <2>1, <1>1, <1>2 DEF Live
<1>4. rivals' \in Nat
  BY <1>1, <1>2
<1> QED BY <1>3, <1>4 DEF Rivalry

\* A replica becomes leader.  If it waited for the lease to run out, then only the
\* holder can be renewing, and is late by its duration.
LEMMA AcquireElection ==
  ASSUME Election, NEW r \in Replicas, Acquire(r)
  PROVE  Election'
<1>1. /\ proc[r] = "standby"
      /\ holder \in {NoOne, r} \/ age >= options.duration
      /\ holder' = r /\ age' = 0 /\ since' = [since EXCEPT ![r] = 0]
      /\ proc' = [proc EXCEPT ![r] = "leading"]
      /\ together' = IF Shared THEN together ELSE 0
      /\ rivals' = IF \E q \in Replicas : Live(q) THEN rivals + 1 ELSE rivals
      /\ UNCHANGED options
  BY DEF Acquire
<1>2. options.duration \in Nat /\ LastTry \in Nat /\ LastTry' = LastTry
  <2>1. LastTry' = LastTry
    BY <1>1 DEF LastTry
  <2> QED BY <2>1, OptionsFacts DEF Election, ElectionTypes
<1>3. /\ proc' \in [Replicas -> Phase] /\ since' \in [Replicas -> 0 .. LastTry]
      /\ since'[r] = 0 /\ together' \in Nat /\ together' <= together
      /\ \A q \in Replicas : q # r => /\ since'[q] = since[q] /\ Leading(q)' = Leading(q)
                                      /\ Live(q)' = Live(q)
  BY <1>1, <1>2 DEF Election, ElectionTypes, Phase, Leading, Live
<1>4. ElectionTypes'
  BY <1>1, <1>2, <1>3 DEF Election, ElectionTypes, Valid
<1>5. /\ together \in Nat /\ age \in Nat
      /\ \A q \in Replicas : since[q] \in Nat
  BY <1>2 DEF Election, ElectionTypes
<1>6. ~Leading(r)
  BY <1>1 DEF Leading
<1>7. CASE holder \in Replicas /\ holder # r
  <2>1. age >= options.duration /\ holder # NoOne
    BY <1>1, <1>7, LeadershipAssumption
  <2>2. \A q \in Replicas : ~Late(q)
    BY <2>1, OnlyOneLate
  <2>3. ~Shared
    BY <2>2, SharedFacts DEF Shared
  <2>4. ASSUME NEW q \in Replicas, Late(q)'
        PROVE  q = holder /\ Leading(holder) /\ options.duration <= since'[q]
    <3>1. q # r
      BY <2>4, <1>1 DEF Late
    <3>2. Leading(q)
      BY <3>1, <2>4, <1>3 DEF Late
    <3>3. q = holder
      BY <3>2, <2>2 DEF Late
    <3>4. age <= since[q]
      BY <3>2, <3>3 DEF Election, Renewals
    <3> QED BY <3>1, <3>2, <3>3, <3>4, <2>1, <1>2, <1>3, <1>5
  <2>5. together' = 0 /\ age' = 0 /\ age' <= since'[r]
    BY <2>3, <1>1, <1>3
  <2>6. ASSUME NEW q \in Replicas, Late(q)'
        PROVE  /\ options.duration + together' <= since'[q]
               /\ options.duration + age' <= since'[q]
    BY <2>4, <2>5, <2>6, <1>2
  <2> QED BY <2>4, <2>5, <2>6, <1>1, <1>3, <1>4, AcquireRivalry DEF Election, Renewals
<1>8. CASE holder = NoOne \/ holder = r
  <2>1. ASSUME NEW q \in Replicas, Late(q)'
        PROVE  /\ Late(q) /\ options.duration + together' <= since'[q]
               /\ options.duration + age' <= since'[q]
    <3>1. q # r
      BY <2>1, <1>1 DEF Late
    <3>2. Late(q)
      BY <3>1, <2>1, <1>3, <1>8, LeadershipAssumption DEF Late
    <3>3. options.duration + together <= since[q]
      BY <3>2 DEF Election, Renewals
    <3> QED BY <3>1, <3>2, <3>3, <1>1, <1>2, <1>3, <1>5
  <2>2. age' <= since'[r]
    BY <1>1, <1>3
  <2> QED BY <2>1, <2>2, <1>1, <1>4, AcquireRivalry DEF Election, Renewals
<1> QED BY <1>7, <1>8 DEF Election, ElectionTypes

\* Leaderships that end, and a lease that is handed back.
LEMMA EndElection ==
  ASSUME Election, NEW r \in Replicas,
         GiveUp(r) \/ Release(r) \/ Cancel(r) \/ Stop(r) \/ Start(r)
  PROVE  Election'
<1>1. /\ UNCHANGED <<options, age, together, rivals>>
      /\ holder' = holder \/ (holder' = NoOne /\ proc[holder] # "leading")
      /\ since' \in {since, [since EXCEPT ![r] = 0]}
  BY DEF GiveUp, Release, Cancel, Stop, Start
<1>2. \/ proc' = proc /\ since' = since
      \/ proc' = [proc EXCEPT ![r] = "releasing"] /\ Leading(r)
      \/ \E p \in {"unwinding", "down", "standby"} : proc' = [proc EXCEPT ![r] = p]
  BY DEF GiveUp, Release, Cancel, Stop, Start
<1>3. options.duration \in Nat /\ LastTry \in Nat /\ LastTry' = LastTry
  <2>1. LastTry' = LastTry
    BY <1>1 DEF LastTry
  <2> QED BY <2>1, OptionsFacts DEF Election, ElectionTypes
<1>4. proc \in [Replicas -> Phase] /\ since \in [Replicas -> 0 .. LastTry]
  BY DEF Election, ElectionTypes
<1>5. since' \in [Replicas -> 0 .. LastTry]
  BY <1>1, <1>3, <1>4
<1>6. /\ proc' \in [Replicas -> Phase]
      /\ \A q \in Replicas : /\ Leading(q)' => Leading(q) /\ since'[q] = since[q]
                             /\ Live(q)' => Live(q)
  BY <1>1, <1>2, <1>4 DEF Phase, Leading, Live
<1>7. ElectionTypes'
  BY <1>1, <1>3, <1>5, <1>6 DEF Election, ElectionTypes, Valid
<1>8. Renewals'
  <2>1. \A q \in Replicas : Late(q)' => Late(q)
    <3> SUFFICES ASSUME NEW q \in Replicas, Late(q)' PROVE Late(q)
      OBVIOUS
    <3>1. Leading(q)
      BY <1>6 DEF Late
    <3> QED BY <3>1, <1>1 DEF Late, Leading
  <2>2. holder' \in Replicas => holder' = holder
    BY <1>1, LeadershipAssumption
  <2>3. holder' # NoOne => holder # NoOne
    BY <1>1
  <2>4. \A q \in Replicas : Late(q)' => since'[q] = since[q]
    BY <1>6 DEF Late
  <2>5. holder' \in Replicas /\ Leading(holder)' => age <= since'[holder']
    BY <2>2, <1>6 DEF Election, Renewals
  <2> QED BY <2>1, <2>3, <2>4, <2>5, <1>1 DEF Election, Renewals
<1>9. Rivalry'
  BY <1>1, <1>6 DEF Election, Rivalry
<1> QED BY <1>7, <1>8, <1>9 DEF Election

\* Every step keeps it.
LEMMA NextElection == Election /\ [Next]_vars => Election'
<1> SUFFICES ASSUME Election, [Next]_vars PROVE Election'
  OBVIOUS
<1>1. CASE UNCHANGED election
  BY <1>1 DEF election, Election, ElectionTypes, Renewals, Rivalry, Late, Leading, Live, LastTry
<1>2. CASE Tick
  BY <1>2, TickElection
<1>3. ASSUME NEW r \in Replicas,
             \/ Renew(r) \/ Acquire(r)
             \/ GiveUp(r) \/ Release(r) \/ Cancel(r) \/ Stop(r) \/ Start(r)
      PROVE  Election'
  BY <1>3, RenewElection, AcquireElection, EndElection
<1>4. CASE NextSlot
  BY <1>4, <1>1 DEF NextSlot
<1>5. ASSUME NEW r \in Replicas, Loop(r) \/ PersistGet(r)
      PROVE  Election'
  BY <1>5, <1>1 DEF Loop, LoadIncidents, PersistSkip, PersistUpdate, MaybeDigest, SweepAgain,
     PersistGet
<1>6. ASSUME NEW r \in Replicas, NEW h \in Handlers,
             AuditLoad(r, h) \/ AuditGet(r, h) \/ AuditUpdate(r, h) \/ AuditFail(r, h)
      PROVE  Election'
  BY <1>6, <1>1 DEF AuditLoad, AuditGet, AuditUpdate, AuditFail
<1>7. CASE UNCHANGED vars
  BY <1>7, <1>1 DEF vars
<1> QED BY <1>2, <1>3, <1>4, <1>5, <1>6, <1>7 DEF Next

\* So it always holds.
LEMMA ElectionHolds == Spec => []Election
BY InitElection, NextElection, PTL DEF Spec

\* Two electors renew at once only with options that leave no room for the retry
\* period in the lease duration, and then for less than one retry period
\* (lease.Options.Validate).
THEOREM LeadersAreAlone == Spec => []OneLeader
<1>1. Election => OneLeader
  <2> SUFFICES ASSUME Election, NEW r \in Replicas, NEW q \in Replicas,
                      Leading(r), Leading(q), r # q
               PROVE  options.duration <= LastTry /\ together < options.retry
    BY DEF OneLeader
  <2>1. PICK n \in Replicas : Late(n)
    BY SharedFacts
  <2>2. options.duration + together <= since[n]
    BY <2>1 DEF Election, Renewals
  <2>3. /\ options.duration \in Nat /\ options.deadline \in Nat /\ options.retry \in Nat
        /\ options.deadline < options.duration
        /\ LastTry \in Nat /\ LastTry = options.deadline + options.retry
    BY OptionsFacts DEF Election, ElectionTypes
  <2>4. together \in Nat /\ since[n] \in Nat /\ since[n] <= LastTry
    BY <2>3 DEF Election, ElectionTypes
  <2> QED BY <2>2, <2>3, <2>4
<1> QED BY <1>1, ElectionHolds, PTL

-----------------------------------------------------------------------------
\* The daily digest.

DigestTypes ==
  /\ slot \in Slots /\ last \in [Replicas -> Slots] /\ dirty \in [Replicas -> BOOLEAN]
  /\ step \in [Replicas -> {"load", "sweep", "update", "digest", "handle"}]
  /\ cursor \in {{}} \cup {{s} : s \in Slots}
  /\ sends \in [Slots -> Nat] /\ lost \in [Slots -> Nat]

\* The stamp of the current digest is saved: nobody leads, and nobody's write will
\* land, with an older one.
Saved ==
  /\ cursor = {slot}
  /\ \A r \in Replicas :
       /\ Live(r) /\ step[r] # "load" => last[r] = slot
       /\ proc[r] \in {"leading", "releasing", "unwinding"} /\ step[r] = "update" => last[r] = slot

\* Or a leader has stamped it and will save it.
Unsaved == \E r \in Replicas : Live(r) /\ last[r] = slot /\ dirty[r]

\* Unless leaderships were live side by side, a digest that was sent more often than
\* its stamp was lost is stamped somewhere.
Stamps ==
  /\ \A r \in Replicas : last[r] <= slot
  /\ \A c \in cursor : c <= slot
  /\ \A r \in Replicas : proc[r] = "standby" => step[r] = "load"
  /\ \A r \in Replicas : step[r] = "load" => ~dirty[r]
  /\ \A s \in Slots : s > slot => sends[s] = 0
  /\ rivals = 0 => RepeatsAreLostStamps
  /\ rivals = 0 => sends[slot] <= lost[slot] \/ Saved \/ Unsaved

DigestInv == Election /\ DigestTypes /\ Stamps

\* It holds at the start.
LEMMA InitDigest == Init => DigestInv
<1> SUFFICES ASSUME Init PROVE DigestInv
  OBVIOUS
<1>1. 0 \in Slots
  BY LeadershipAssumption DEF Slots
<1>2. DigestTypes
  BY <1>1 DEF Init, DigestTypes
<1>3. Stamps
  BY <1>1 DEF Init, Stamps, RepeatsAreLostStamps
<1> QED BY <1>2, <1>3, InitElection DEF DigestInv

\* A leadership that ends with an unsaved stamp loses it, and loses nothing else.
LEMMA ForgetFacts ==
  ASSUME DigestTypes, NEW r \in Replicas, Forget(r)
  PROVE  /\ lost' \in [Slots -> Nat]
         /\ \A s \in Slots : lost[s] <= lost'[s]
         /\ Live(r) /\ dirty[r] => lost'[last[r]] = lost[last[r]] + 1
<1>1. last[r] \in Slots /\ lost \in [Slots -> Nat]
  BY DEF DigestTypes
<1>2. CASE Live(r) /\ dirty[r]
  <2>1. lost' = [lost EXCEPT ![last[r]] = @ + 1]
    BY <1>2 DEF Forget
  <2> QED BY <2>1, <1>1
<1>3. CASE ~(Live(r) /\ dirty[r])
  <2>1. lost' = lost
    BY <1>3 DEF Forget
  <2> QED BY <2>1, <1>1, <1>3
<1> QED BY <1>2, <1>3

\* A replica that stops leading, or takes the lease over.
LEMMA ElectionStamps ==
  ASSUME DigestInv, NEW r \in Replicas,
         Acquire(r) \/ GiveUp(r) \/ Cancel(r) \/ Stop(r)
  PROVE  DigestTypes' /\ Stamps'
<1>1. /\ UNCHANGED <<slot, step, last, dirty, cursor, sends, seeds>>
      /\ rivals' = 0 => rivals = 0
  BY DEF Acquire, GiveUp, Cancel, Stop, digest, DigestInv, Election, Rivalry
<1>2. /\ \A q \in Replicas : q # r => proc'[q] = proc[q]
      /\ Live(r)' => proc[r] = "standby" \/ Live(r)
      /\ proc'[r] = "unwinding" => Live(r)
      /\ proc'[r] # "standby"
  BY DEF Acquire, GiveUp, Cancel, Stop, DigestInv, Election, ElectionTypes, Leading, Live
<1>3. /\ lost' \in [Slots -> Nat]
      /\ \A s \in Slots : lost[s] <= lost'[s]
      /\ Live(r) /\ dirty[r] => Live(r)' \/ lost'[last[r]] = lost[last[r]] + 1
  <2>1. CASE Acquire(r) \/ GiveUp(r)
    <3>1. lost' = lost /\ Live(r)'
      BY <2>1 DEF Acquire, GiveUp, digest, Live, DigestInv, Election, ElectionTypes
    <3> QED BY <3>1 DEF DigestInv, DigestTypes
  <2>2. CASE Cancel(r) \/ Stop(r)
    BY <2>2, ForgetFacts DEF Cancel, Stop, DigestInv
  <2> QED BY <2>1, <2>2
<1>4. DigestTypes'
  BY <1>1, <1>3 DEF DigestInv, DigestTypes
<1>5. slot \in Slots /\ sends \in [Slots -> Nat] /\ lost \in [Slots -> Nat]
  BY DEF DigestInv, DigestTypes
<1>6. (rivals = 0 => RepeatsAreLostStamps)'
  BY <1>1, <1>3, <1>5 DEF DigestInv, Stamps, RepeatsAreLostStamps
<1>7. (rivals = 0 => sends[slot] <= lost[slot] \/ Saved \/ Unsaved)'
  <2> SUFFICES ASSUME rivals' = 0 PROVE (sends[slot] <= lost[slot] \/ Saved \/ Unsaved)'
    OBVIOUS
  <2> rivals = 0
    BY <1>1
  <2>1. CASE sends[slot] <= lost[slot]
    BY <2>1, <1>1, <1>3, <1>5
  <2>2. CASE Saved
    <3>1. proc[r] = "standby" => step[r] = "load"
      BY DEF DigestInv, Stamps
    <3>2. Saved'
      BY <2>2, <3>1, <1>1, <1>2 DEF Saved, Live
    <3> QED BY <3>2
  <2>3. CASE Unsaved
    <3>1. PICK q \in Replicas : Live(q) /\ last[q] = slot /\ dirty[q]
      BY <2>3 DEF Unsaved
    <3>2. CASE q = r /\ ~Live(r)'
      <4>1. lost'[slot] = lost[slot] + 1
        BY <3>1, <3>2, <1>3
      <4>2. sends[slot] <= 1 + lost[slot]
        BY <1>5 DEF DigestInv, Stamps, RepeatsAreLostStamps
      <4> QED BY <4>1, <4>2, <1>1, <1>5
    <3>3. CASE q # r \/ Live(r)'
      <4>1. Live(q)'
        BY <3>1, <3>3, <1>2 DEF Live
      <4> QED BY <4>1, <3>1, <1>1 DEF Unsaved
    <3> QED BY <3>2, <3>3
  <2> QED BY <2>1, <2>2, <2>3 DEF DigestInv, Stamps
<1>8. \A q \in Replicas : proc'[q] = "standby" => step'[q] = "load"
  BY <1>1, <1>2 DEF DigestInv, Stamps
<1>9. Stamps'
  BY <1>1, <1>6, <1>7, <1>8 DEF DigestInv, Stamps
<1> QED BY <1>4, <1>9

\* A process that starts again.
LEMMA StartStamps ==
  ASSUME DigestInv, NEW r \in Replicas, Start(r)
  PROVE  DigestTypes' /\ Stamps'
<1>1. /\ proc[r] = "down"
      /\ proc' = [proc EXCEPT ![r] = "standby"] /\ step' = [step EXCEPT ![r] = "load"]
      /\ last' = [last EXCEPT ![r] = slot] /\ dirty' = [dirty EXCEPT ![r] = FALSE]
      /\ UNCHANGED <<rivals, slot, cursor, sends, lost>>
  BY DEF Start
<1>2. /\ proc'[r] = "standby" /\ step'[r] = "load" /\ last'[r] = slot /\ ~dirty'[r]
      /\ \A q \in Replicas : q # r => /\ proc'[q] = proc[q] /\ step'[q] = step[q]
                                      /\ last'[q] = last[q] /\ dirty'[q] = dirty[q]
  BY <1>1 DEF DigestInv, Election, ElectionTypes, DigestTypes
<1>3. DigestTypes'
  BY <1>1 DEF DigestInv, DigestTypes
<1>4. slot \in Slots /\ Slots \subseteq Nat
  BY LeadershipAssumption DEF DigestInv, DigestTypes, Slots
<1>5. (rivals = 0 => RepeatsAreLostStamps)'
  BY <1>1 DEF DigestInv, Stamps, RepeatsAreLostStamps
<1>6. (rivals = 0 => sends[slot] <= lost[slot] \/ Saved \/ Unsaved)'
  <2> SUFFICES ASSUME rivals' = 0 PROVE (sends[slot] <= lost[slot] \/ Saved \/ Unsaved)'
    OBVIOUS
  <2> rivals = 0
    BY <1>1
  <2>1. CASE sends[slot] <= lost[slot]
    BY <2>1, <1>1
  <2>2. CASE Saved
    <3>1. Saved'
      BY <2>2, <1>1, <1>2 DEF Saved, Live
    <3> QED BY <3>1
  <2>3. CASE Unsaved
    <3>1. Unsaved'
      BY <2>3, <1>1, <1>2 DEF Unsaved, Live
    <3> QED BY <3>1
  <2> QED BY <2>1, <2>2, <2>3 DEF DigestInv, Stamps
<1>7. /\ \A q \in Replicas : last'[q] <= slot'
      /\ \A c \in cursor' : c <= slot'
      /\ \A q \in Replicas : proc'[q] = "standby" => step'[q] = "load"
      /\ \A q \in Replicas : step'[q] = "load" => ~dirty'[q]
      /\ \A s \in Slots : s > slot' => sends'[s] = 0
  BY <1>1, <1>2, <1>4 DEF DigestInv, Stamps
<1> QED BY <1>3, <1>5, <1>6, <1>7 DEF Stamps

\* A digest falls due: nobody has sent it.
LEMMA NextSlotStamps ==
  ASSUME DigestInv, NextSlot
  PROVE  DigestTypes' /\ Stamps'
<1>1. /\ slot < MaxSlot /\ slot' = slot + 1
      /\ UNCHANGED <<rivals, proc, step, last, dirty, cursor, sends, lost>>
  <2>1. options.slots \in 0 .. MaxSlot /\ slot \in 0 .. MaxSlot
    BY LeadershipAssumption DEF DigestInv, Election, ElectionTypes, DigestTypes, Slots
  <2>2. slot < options.slots /\ slot' = slot + 1
    BY DEF NextSlot
  <2>3. slot < MaxSlot
    BY <2>1, <2>2, LeadershipAssumption
  <2> QED BY <2>2, <2>3 DEF NextSlot, election
<1>2. slot' \in Slots /\ slot' > slot /\ Slots \subseteq Nat /\ slot \in Slots
  BY <1>1, LeadershipAssumption DEF DigestInv, DigestTypes, Slots
<1>3. DigestTypes'
  BY <1>1, <1>2 DEF DigestInv, DigestTypes
<1>4. sends'[slot'] <= lost'[slot']
  BY <1>1, <1>2 DEF DigestInv, DigestTypes, Stamps
<1>5. (rivals = 0 => RepeatsAreLostStamps)'
  BY <1>1 DEF DigestInv, Stamps, RepeatsAreLostStamps
<1>6. /\ \A q \in Replicas : last'[q] <= slot'
      /\ \A c \in cursor' : c <= slot'
      /\ \A s \in Slots : s > slot' => sends'[s] = 0
  <2>1. \A s \in Slots : s <= slot => s <= slot'
    BY <1>1, <1>2
  <2>2. \A q \in Replicas : last[q] \in Slots
    BY DEF DigestInv, DigestTypes
  <2>3. \A c \in cursor : c \in Slots
    BY DEF DigestInv, DigestTypes
  <2>4. \A s \in Slots : s > slot' => s > slot
    BY <1>1, <1>2
  <2> QED BY <2>1, <2>2, <2>3, <2>4, <1>1 DEF DigestInv, Stamps
<1>7. /\ \A q \in Replicas : proc'[q] = "standby" => step'[q] = "load"
      /\ \A q \in Replicas : step'[q] = "load" => ~dirty'[q]
  BY <1>1 DEF DigestInv, Stamps
<1> QED BY <1>3, <1>4, <1>5, <1>6, <1>7 DEF Stamps

\* What the saved cursor gives a leader is no later than the current digest.
LEMMA RestoredFacts ==
  ASSUME DigestInv, NEW seed \in Slots, seed <= slot
  PROVE  /\ Restored(seed) \in Slots /\ Restored(seed) <= slot
         /\ cursor = {slot} => Restored(seed) = slot
BY DEF DigestInv, DigestTypes, Stamps, Restored

\* The count of the stamps a leader did not get to read.
LEMMA UnreadFacts ==
  ASSUME DigestInv, NEW s \in Slots, NEW l \in Slots
  PROVE  /\ Cardinality({c \in cursor : l < s /\ s <= c}) \in Nat
         /\ cursor = {s} /\ l < s => Cardinality({c \in cursor : l < s /\ s <= c}) = 1
<1> DEFINE U == {c \in cursor : l < s /\ s <= c}
<1>1. cursor = {} \/ \E c \in Slots : cursor = {c}
  BY DEF DigestInv, DigestTypes
<1>2. IsFiniteSet(cursor)
  BY <1>1, FS_EmptySet, FS_Singleton
<1>3. Cardinality(U) \in Nat
  BY <1>2, FS_Subset, FS_CardinalityType
<1>4. ASSUME cursor = {s}, l < s
      PROVE  Cardinality(U) = 1
  <2>1. U = {s}
    BY <1>4, LeadershipAssumption DEF Slots
  <2> QED BY <2>1, FS_Singleton
<1> QED BY <1>3, <1>4

\* A leader that reads the saved cursor, or goes on without it.
LEMMA LoadStamps ==
  ASSUME DigestInv, NEW r \in Replicas, LoadIncidents(r)
  PROVE  DigestTypes' /\ Stamps'
<1> DEFINE unread(s) == Cardinality({c \in cursor : last[r] < s /\ s <= c})
<1>1. /\ Live(r) /\ step[r] = "load" /\ step' = [step EXCEPT ![r] = "sweep"]
      /\ UNCHANGED <<rivals, proc, slot, dirty, cursor, sends>>
      /\ \/ last' = [last EXCEPT ![r] = Restored(@)] /\ UNCHANGED lost
         \/ UNCHANGED last /\ lost' = [s \in Slots |-> lost[s] + unread(s)]
  BY DEF LoadIncidents, election
<1>2. slot \in Slots /\ sends \in [Slots -> Nat] /\ lost \in [Slots -> Nat]
      /\ last[r] \in Slots /\ last[r] <= slot /\ Slots \subseteq Nat
  BY LeadershipAssumption DEF DigestInv, DigestTypes, Stamps, Slots
<1>3. /\ Restored(last[r]) \in Slots /\ Restored(last[r]) <= slot
      /\ cursor = {slot} => Restored(last[r]) = slot
  BY <1>2, RestoredFacts
<1>4. /\ \A s \in Slots : unread(s) \in Nat
      /\ cursor = {slot} /\ last[r] < slot => unread(slot) = 1
  BY <1>2, UnreadFacts
<1> HIDE DEF unread
<1>5. /\ lost' \in [Slots -> Nat]
      /\ \A s \in Slots : lost[s] <= lost'[s]
  BY <1>1, <1>2, <1>4
<1>6. /\ last' \in [Replicas -> Slots] /\ \A q \in Replicas : last'[q] <= slot
      /\ \A q \in Replicas : q # r => last'[q] = last[q]
  BY <1>1, <1>3 DEF DigestInv, DigestTypes, Stamps
<1>7. /\ step' \in [Replicas -> {"load", "sweep", "update", "digest", "handle"}]
      /\ step'[r] = "sweep" /\ \A q \in Replicas : q # r => step'[q] = step[q]
  BY <1>1 DEF DigestInv, DigestTypes
<1>8. DigestTypes'
  BY <1>1, <1>5, <1>6, <1>7 DEF DigestInv, DigestTypes
<1>9. (rivals = 0 => RepeatsAreLostStamps)'
  BY <1>1, <1>2, <1>5 DEF DigestInv, Stamps, RepeatsAreLostStamps
<1>10. (rivals = 0 => sends[slot] <= lost[slot] \/ Saved \/ Unsaved)'
  <2> SUFFICES ASSUME rivals' = 0 PROVE (sends[slot] <= lost[slot] \/ Saved \/ Unsaved)'
    OBVIOUS
  <2> rivals = 0
    BY <1>1
  <2>1. CASE sends[slot] <= lost[slot]
    BY <2>1, <1>1, <1>2, <1>5
  <2>2. CASE Saved
    <3>1. CASE last'[r] = slot
      <4>1. Saved'
        BY <2>2, <3>1, <1>1, <1>6, <1>7 DEF Saved, Live
      <4> QED BY <4>1
    <3>2. CASE last'[r] # slot
      <4>1. cursor = {slot}
        BY <2>2 DEF Saved
      <4>2. UNCHANGED last /\ lost'[slot] = lost[slot] + unread(slot)
        BY <3>2, <4>1, <1>1, <1>2, <1>3 DEF DigestInv, DigestTypes
      <4>3. unread(slot) = 1
        <5>1. last[r] # slot
          BY <4>2, <3>2
        <5>2. last[r] \in Nat /\ slot \in Nat /\ last[r] <= slot
          BY <1>2
        <5>3. last[r] < slot
          BY <5>1, <5>2
        <5> QED BY <5>3, <4>1, <1>4
      <4>4. sends[slot] <= 1 + lost[slot]
        BY <1>2 DEF DigestInv, Stamps, RepeatsAreLostStamps
      <4> QED BY <4>2, <4>3, <4>4, <1>1, <1>2
    <3> QED BY <3>1, <3>2
  <2>3. CASE Unsaved
    <3>1. PICK q \in Replicas : Live(q) /\ last[q] = slot /\ dirty[q]
      BY <2>3 DEF Unsaved
    <3>2. q # r
      BY <3>1, <1>1 DEF DigestInv, Stamps
    <3>3. Unsaved'
      BY <3>1, <3>2, <1>1, <1>6 DEF Unsaved, Live
    <3> QED BY <3>3
  <2> QED BY <2>1, <2>2, <2>3 DEF DigestInv, Stamps
<1>11. /\ \A c \in cursor' : c <= slot'
       /\ \A q \in Replicas : proc'[q] = "standby" => step'[q] = "load"
       /\ \A q \in Replicas : step'[q] = "load" => ~dirty'[q]
       /\ \A s \in Slots : s > slot' => sends'[s] = 0
  BY <1>1, <1>7 DEF DigestInv, Stamps, Live
<1> QED BY <1>1, <1>6, <1>8, <1>9, <1>10, <1>11 DEF Stamps

\* A leader that goes on in its sweep.
LEMMA StepStamps ==
  ASSUME DigestInv, NEW r \in Replicas, PersistGet(r) \/ PersistSkip(r) \/ SweepAgain(r)
  PROVE  DigestTypes' /\ Stamps'
<1>1. /\ Live(r) /\ step[r] # "load"
      /\ \E to \in {"sweep", "update", "digest"} : step' = [step EXCEPT ![r] = to]
      /\ UNCHANGED <<rivals, proc, slot, last, dirty, cursor, sends, lost>>
  BY DEF PersistGet, PersistSkip, SweepAgain, election
<1>2. /\ step' \in [Replicas -> {"load", "sweep", "update", "digest", "handle"}]
      /\ step'[r] # "load" /\ \A q \in Replicas : q # r => step'[q] = step[q]
  BY <1>1 DEF DigestInv, DigestTypes
<1>3. DigestTypes'
  BY <1>1, <1>2 DEF DigestInv, DigestTypes
<1>4. Saved => Saved'
  BY <1>1, <1>2 DEF Saved, Live
<1>5. Unsaved => Unsaved'
  BY <1>1 DEF Unsaved, Live
<1>6. (rivals = 0 => RepeatsAreLostStamps)'
  BY <1>1 DEF DigestInv, Stamps, RepeatsAreLostStamps
<1>7. /\ \A q \in Replicas : proc'[q] = "standby" => step'[q] = "load"
      /\ \A q \in Replicas : step'[q] = "load" => ~dirty'[q]
  BY <1>1, <1>2 DEF DigestInv, Stamps, Live
<1> QED BY <1>1, <1>3, <1>4, <1>5, <1>6, <1>7 DEF DigestInv, Stamps

\* A save that lands meets no other one under way.
LEMMA UpdateStamps ==
  ASSUME DigestInv, NEW r \in Replicas, PersistUpdate(r)
  PROVE  DigestTypes' /\ Stamps'
<1>1. /\ proc[r] \in {"leading", "releasing", "unwinding"} /\ step[r] = "update"
      /\ UNCHANGED <<rivals, proc, slot, last, sends, lost>>
  BY DEF PersistUpdate, election
<1>2. CASE step' = [step EXCEPT ![r] = "digest"] /\ UNCHANGED <<cursor, dirty>>
  <2>1. /\ step' \in [Replicas -> {"load", "sweep", "update", "digest", "handle"}]
        /\ step'[r] = "digest" /\ \A q \in Replicas : q # r => step'[q] = step[q]
    BY <1>2 DEF DigestInv, DigestTypes
  <2>2. DigestTypes'
    BY <1>1, <1>2, <2>1 DEF DigestInv, DigestTypes
  <2>3. Saved => Saved'
    BY <1>1, <1>2, <2>1 DEF Saved, Live
  <2>4. Unsaved => Unsaved'
    BY <1>1, <1>2 DEF Unsaved, Live
  <2>5. (rivals = 0 => RepeatsAreLostStamps)'
    BY <1>1 DEF DigestInv, Stamps, RepeatsAreLostStamps
  <2>6. /\ \A q \in Replicas : proc'[q] = "standby" => step'[q] = "load"
        /\ \A q \in Replicas : step'[q] = "load" => ~dirty'[q]
    BY <1>1, <1>2, <2>1 DEF DigestInv, Stamps
  <2> QED BY <1>1, <1>2, <2>2, <2>3, <2>4, <2>5, <2>6 DEF DigestInv, Stamps
<1>3. CASE /\ step' = [q \in Replicas |-> IF step[q] = "update" THEN "digest" ELSE step[q]]
           /\ cursor' = {last[r]} /\ dirty' = [dirty EXCEPT ![r] = FALSE]
  <2>1. /\ step' \in [Replicas -> {"load", "sweep", "update", "digest", "handle"}]
        /\ \A q \in Replicas : step'[q] # "update" /\ (step'[q] = "load" <=> step[q] = "load")
    BY <1>3 DEF DigestInv, DigestTypes
  <2>2. /\ ~dirty'[r] /\ \A q \in Replicas : q # r => dirty'[q] = dirty[q]
        /\ dirty' \in [Replicas -> BOOLEAN]
    BY <1>3 DEF DigestInv, DigestTypes
  <2>3. last[r] \in Slots /\ last[r] <= slot
    BY DEF DigestInv, DigestTypes, Stamps
  <2>4. DigestTypes'
    BY <1>1, <1>3, <2>1, <2>2, <2>3 DEF DigestInv, DigestTypes
  <2>5. (rivals = 0 => sends[slot] <= lost[slot] \/ Saved \/ Unsaved)'
    <3> SUFFICES ASSUME rivals' = 0 PROVE (sends[slot] <= lost[slot] \/ Saved \/ Unsaved)'
      OBVIOUS
    <3> rivals = 0
      BY <1>1
    <3>1. CASE sends[slot] <= lost[slot]
      BY <3>1, <1>1
    <3>2. CASE Saved
      <4>1. Saved'
        BY <3>2, <1>1, <1>3, <2>1 DEF Saved, Live
      <4> QED BY <4>1
    <3>3. CASE Unsaved
      <4>1. PICK q \in Replicas : Live(q) /\ last[q] = slot /\ dirty[q]
        BY <3>3 DEF Unsaved
      <4>2. CASE q = r
        <5>1. \A p \in Replicas : Live(p) => p = r
          BY <4>1, <4>2 DEF DigestInv, Election, Rivalry
        <5>2. Saved'
          BY <4>1, <4>2, <5>1, <1>1, <1>3, <2>1 DEF Saved, Live
        <5> QED BY <5>2
      <4>3. CASE q # r
        <5>1. Unsaved'
          BY <4>1, <4>3, <1>1, <2>2 DEF Unsaved, Live
        <5> QED BY <5>1
      <4> QED BY <4>2, <4>3
    <3> QED BY <3>1, <3>2, <3>3 DEF DigestInv, Stamps
  <2>6. (rivals = 0 => RepeatsAreLostStamps)'
    BY <1>1 DEF DigestInv, Stamps, RepeatsAreLostStamps
  <2>7. /\ \A q \in Replicas : proc'[q] = "standby" => step'[q] = "load"
        /\ \A q \in Replicas : step'[q] = "load" => ~dirty'[q]
        /\ \A c \in cursor' : c <= slot'
    BY <1>1, <1>3, <2>1, <2>2, <2>3 DEF DigestInv, Stamps
  <2> QED BY <1>1, <2>4, <2>5, <2>6, <2>7 DEF DigestInv, Stamps
<1> QED BY <1>2, <1>3 DEF PersistUpdate

\* A digest is sent only by the one leader there is, and only if it is not stamped.
LEMMA MaybeDigestStamps ==
  ASSUME DigestInv, NEW r \in Replicas, MaybeDigest(r)
  PROVE  DigestTypes' /\ Stamps'
<1>1. /\ Live(r) /\ step[r] = "digest" /\ step' = [step EXCEPT ![r] = "handle"]
      /\ UNCHANGED <<rivals, proc, slot, cursor, lost>>
  BY DEF MaybeDigest, election
<1>2. /\ step' \in [Replicas -> {"load", "sweep", "update", "digest", "handle"}]
      /\ step'[r] = "handle" /\ \A q \in Replicas : q # r => step'[q] = step[q]
  BY <1>1 DEF DigestInv, DigestTypes
<1>3. /\ slot \in Slots /\ Slots \subseteq Nat /\ last[r] \in Slots /\ last[r] <= slot
      /\ sends \in [Slots -> Nat] /\ lost \in [Slots -> Nat]
  BY LeadershipAssumption DEF DigestInv, DigestTypes, Stamps, Slots
<1>4. CASE ~Due(slot, last[r])
  <2>1. UNCHANGED <<last, dirty, sends>>
    BY <1>4 DEF MaybeDigest
  <2>2. DigestTypes'
    BY <1>1, <1>2, <2>1 DEF DigestInv, DigestTypes
  <2>3. Saved => Saved'
    BY <1>1, <1>2, <2>1 DEF Saved, Live
  <2>4. Unsaved => Unsaved'
    BY <1>1, <2>1 DEF Unsaved, Live
  <2>5. (rivals = 0 => RepeatsAreLostStamps)'
    BY <1>1, <2>1 DEF DigestInv, Stamps, RepeatsAreLostStamps
  <2>6. /\ \A q \in Replicas : proc'[q] = "standby" => step'[q] = "load"
        /\ \A q \in Replicas : step'[q] = "load" => ~dirty'[q]
    BY <1>1, <1>2, <2>1 DEF DigestInv, Stamps, Live
  <2> QED BY <1>1, <2>1, <2>2, <2>3, <2>4, <2>5, <2>6 DEF DigestInv, Stamps
<1>5. CASE Due(slot, last[r])
  <2>1. /\ last' = [last EXCEPT ![r] = slot] /\ dirty' = [dirty EXCEPT ![r] = TRUE]
        /\ sends' = [sends EXCEPT ![slot] = @ + 1]
    BY <1>5 DEF MaybeDigest, Stamp
  <2>2. /\ last'[r] = slot /\ dirty'[r]
        /\ \A q \in Replicas : q # r => last'[q] = last[q] /\ dirty'[q] = dirty[q]
    BY <2>1 DEF DigestInv, DigestTypes
  <2>3. /\ sends'[slot] = sends[slot] + 1 /\ sends' \in [Slots -> Nat]
        /\ \A s \in Slots : s # slot => sends'[s] = sends[s]
    BY <2>1, <1>3
  <2>4. DigestTypes'
    BY <1>1, <1>2, <1>3, <2>1, <2>3 DEF DigestInv, DigestTypes
  <2>5. last[r] # slot
    BY <1>3, <1>5 DEF Due
  <2>6. ~Saved
    BY <2>5, <1>1 DEF Saved
  <2>7. rivals = 0 => ~Unsaved
    <3>1. rivals = 0 => \A q \in Replicas : Live(q) => q = r
      BY <1>1 DEF DigestInv, Election, Rivalry
    <3> QED BY <3>1, <2>5 DEF Unsaved
  <2>8. rivals = 0 => sends[slot] <= lost[slot]
    BY <2>6, <2>7 DEF DigestInv, Stamps
  <2>9. (rivals = 0 => RepeatsAreLostStamps)'
    BY <2>3, <2>8, <1>1, <1>3 DEF DigestInv, Stamps, RepeatsAreLostStamps
  <2>10. Unsaved'
    BY <2>2, <1>1 DEF Unsaved, Live
  <2>11. /\ \A q \in Replicas : proc'[q] = "standby" => step'[q] = "load"
         /\ \A q \in Replicas : step'[q] = "load" => ~dirty'[q]
         /\ \A q \in Replicas : last'[q] <= slot'
         /\ \A c \in cursor' : c <= slot'
    BY <1>1, <1>2, <1>3, <2>2 DEF DigestInv, Stamps, Live
  <2>12. \A s \in Slots : s > slot' => sends'[s] = 0
    BY <1>1, <1>3, <2>3 DEF DigestInv, Stamps
  <2> QED BY <2>4, <2>9, <2>10, <2>11, <2>12 DEF Stamps
<1> QED BY <1>4, <1>5

\* What leaves leadership and digest alone keeps the invariant.
LEMMA SameStamps ==
  ASSUME DigestInv, UNCHANGED <<proc, rivals, digest>>
  PROVE  DigestTypes' /\ Stamps'
BY DEF digest, DigestInv, DigestTypes, Stamps, Saved, Unsaved, Live, RepeatsAreLostStamps

\* Every step keeps it.
LEMMA NextDigest == DigestInv /\ [Next]_vars => DigestInv'
<1> SUFFICES ASSUME DigestInv, [Next]_vars PROVE DigestTypes' /\ Stamps'
  BY NextElection DEF DigestInv
<1>1. CASE Tick
  BY <1>1, SameStamps DEF Tick
<1>2. CASE NextSlot
  BY <1>2, NextSlotStamps
<1>3. ASSUME NEW r \in Replicas, Renew(r) \/ Release(r)
      PROVE  DigestTypes' /\ Stamps'
  BY <1>3, SameStamps DEF Renew, Release
<1>4. ASSUME NEW r \in Replicas, Acquire(r) \/ GiveUp(r) \/ Cancel(r) \/ Stop(r)
      PROVE  DigestTypes' /\ Stamps'
  BY <1>4, ElectionStamps
<1>5. ASSUME NEW r \in Replicas, Start(r)
      PROVE  DigestTypes' /\ Stamps'
  BY <1>5, StartStamps
<1>6. ASSUME NEW r \in Replicas, Loop(r) \/ PersistGet(r)
      PROVE  DigestTypes' /\ Stamps'
  BY <1>6, LoadStamps, StepStamps, UpdateStamps, MaybeDigestStamps DEF Loop
<1>7. ASSUME NEW r \in Replicas, NEW h \in Handlers,
             AuditLoad(r, h) \/ AuditGet(r, h) \/ AuditUpdate(r, h) \/ AuditFail(r, h)
      PROVE  DigestTypes' /\ Stamps'
  BY <1>7, SameStamps DEF AuditLoad, AuditGet, AuditUpdate, AuditFail, election
<1>8. CASE UNCHANGED vars
  BY <1>8, SameStamps DEF vars, election
<1> QED BY <1>1, <1>2, <1>3, <1>4, <1>5, <1>6, <1>7, <1>8 DEF Next

\* So it always holds.
LEMMA DigestHolds == Spec => []DigestInv
BY InitDigest, NextDigest, PTL DEF Spec

\* While no two contexts were live at once, a digest is repeated once for every stamp
\* that a leadership lost unsaved or did not get to read, and for nothing else: no
\* failed or late save, no handover.
THEOREM OneDigestPerStamp == Spec => [](rivals = 0 => RepeatsAreLostStamps)
<1>1. DigestInv => (rivals = 0 => RepeatsAreLostStamps)
  BY DEF DigestInv, Stamps
<1> QED BY <1>1, DigestHolds, PTL

-----------------------------------------------------------------------------
\* The audit trail.

Call == [at : {"idle", "loaded", "update"}, read : Seq(Nat)]

\* A trail in the order of its events, which are numbered up to n.
Ordered(t, n) ==
  /\ t \in Seq(Nat) /\ Len(t) <= MaxEvents
  /\ \A i \in DOMAIN t : t[i] \in 1 .. n
  /\ \A i, j \in DOMAIN t : i < j => t[i] < t[j]

\* Event e is in the trail, or is older than all of a full one.
Told(t, e) ==
  \/ \E i \in DOMAIN t : t[i] = e
  \/ Len(t) = MaxEvents /\ \A i \in DOMAIN t : t[i] > e

\* Nothing is missing from it but what was stored in spite of a reader.
Complete(t) == \A e \in DOMAIN applied : applied[e] => Told(t, e)

\* What a call has read is as good as the trail: the event that made it old was not
\* stored undisturbed.
AuditInv ==
  /\ applied \in Seq(BOOLEAN)
  /\ call \in [Replicas -> [Handlers -> Call]]
  /\ Ordered(trail, Len(applied)) /\ Complete(trail)
  /\ \A r \in Replicas, h \in Handlers :
       call[r][h].at # "idle" => /\ Ordered(call[r][h].read, Len(applied))
                                 /\ Complete(call[r][h].read)

\* Appending keeps a trail within its cap.
LEMMA AppendedFacts ==
  ASSUME NEW t \in Seq(Nat), Len(t) <= MaxEvents, NEW e \in Nat
  PROVE  /\ Appended(t, e) \in Seq(Nat) /\ Len(Appended(t, e)) <= MaxEvents
         /\ Len(t) < MaxEvents => Appended(t, e) = Append(t, e)
         /\ Len(t) = MaxEvents => /\ Len(Appended(t, e)) = MaxEvents
                                  /\ \A i \in 1 .. MaxEvents :
                                       Appended(t, e)[i] = Append(t, e)[i + 1]
<1> DEFINE u == Append(t, e)
<1>1. u \in Seq(Nat) /\ Len(u) = Len(t) + 1 /\ Len(t) \in Nat /\ MaxEvents \in Nat \ {0}
  BY AppendProperties, LeadershipAssumption
<1> HIDE DEF u
<1>2. CASE Len(t) < MaxEvents
  <2>1. Appended(t, e) = u
    BY <1>1, <1>2 DEF Appended, u
  <2> QED BY <2>1, <1>1, <1>2 DEF u
<1>3. CASE Len(t) = MaxEvents
  <2> DEFINE w == SubSeq(u, 2, MaxEvents + 1)
  <2>1. Appended(t, e) = w
    BY <1>1, <1>3 DEF Appended, u
  <2>2. \A i \in 2 .. MaxEvents + 1 : u[i] \in Nat
    BY <1>1, <1>3, ElementOfSeq
  <2>3. /\ w \in Seq(Nat)
        /\ Len(w) = IF 2 <= MaxEvents + 1 THEN MaxEvents + 1 - 2 + 1 ELSE 0
        /\ \A i \in 1 .. MaxEvents + 1 - 2 + 1 : w[i] = u[2 + i - 1]
    BY <1>1, <2>2, SubSeqProperties
  <2> HIDE DEF w
  <2>4. Len(w) = MaxEvents /\ \A i \in 1 .. MaxEvents : w[i] = u[i + 1]
    BY <2>3, <1>1
  <2>5. Appended(t, e) \in Seq(Nat) /\ Len(Appended(t, e)) = MaxEvents
    BY <2>1, <2>3, <2>4
  <2>6. \A i \in 1 .. MaxEvents : Appended(t, e)[i] = Append(t, e)[i + 1]
    <3> SUFFICES ASSUME NEW i \in 1 .. MaxEvents PROVE Appended(t, e)[i] = Append(t, e)[i + 1]
      OBVIOUS
    <3>1. Appended(t, e)[i] = u[i + 1]
      BY <2>1, <2>4
    <3> QED BY <3>1, Zenon DEF u
  <2>7. MaxEvents <= MaxEvents /\ ~(Len(t) < MaxEvents)
    BY <1>1, <1>3
  <2> QED BY <2>5, <2>6, <2>7, Zenon
<1>4. Len(t) < MaxEvents \/ Len(t) = MaxEvents
  BY <1>1
<1> QED BY <1>2, <1>3, <1>4, Zenon

\* Appending the newest event keeps the order, and shows it.
LEMMA AppendedOrdered ==
  ASSUME NEW n \in Nat, NEW t, Ordered(t, n)
  PROVE  Ordered(Appended(t, n + 1), n + 1) /\ Told(Appended(t, n + 1), n + 1)
<1> DEFINE e == n + 1
           u == Append(t, e)
           v == Appended(t, e)
<1>1. /\ t \in Seq(Nat) /\ Len(t) \in Nat /\ Len(t) <= MaxEvents /\ e \in Nat
      /\ MaxEvents \in Nat \ {0}
      /\ \A i \in 1 .. Len(t) : t[i] \in 1 .. n
      /\ \A i, j \in 1 .. Len(t) : i < j => t[i] < t[j]
  BY LenProperties, LeadershipAssumption DEF Ordered
<1>2. /\ u \in Seq(Nat) /\ Len(u) = Len(t) + 1 /\ u[Len(t) + 1] = e
      /\ \A i \in 1 .. Len(t) : u[i] = t[i]
  BY <1>1, AppendProperties
<1> HIDE DEF u
<1>3. /\ v \in Seq(Nat) /\ Len(v) <= MaxEvents
      /\ Len(t) < MaxEvents => v = u
      /\ Len(t) = MaxEvents => Len(v) = MaxEvents /\ \A i \in 1 .. MaxEvents : v[i] = u[i + 1]
  BY <1>1, AppendedFacts DEF u
<1> HIDE DEF e, v
<1>4. /\ \A i \in 1 .. Len(t) + 1 : u[i] \in 1 .. e
      /\ \A i, j \in 1 .. Len(t) + 1 : i < j => u[i] < u[j]
  <2>1. \A i \in 1 .. Len(t) + 1 :
          \/ i = Len(t) + 1 /\ u[i] = e
          \/ i \in 1 .. Len(t) /\ u[i] = t[i] /\ t[i] \in 1 .. n
    BY <1>1, <1>2
  <2>2. e = n + 1
    BY DEF e
  <2>3. \A i \in 1 .. Len(t) + 1 : u[i] \in 1 .. e
    BY <2>1, <2>2, <1>1
  <2>4. ASSUME NEW i \in 1 .. Len(t) + 1, NEW j \in 1 .. Len(t) + 1, i < j
        PROVE  u[i] < u[j]
    <3>1. i \in 1 .. Len(t) /\ u[i] = t[i] /\ t[i] \in 1 .. n
      BY <2>1, <2>4, <1>1
    <3>2. CASE j = Len(t) + 1
      BY <3>1, <3>2, <2>2, <1>2
    <3>3. CASE j \in 1 .. Len(t)
      BY <3>1, <3>3, <2>4, <1>1, <1>2
    <3> QED BY <3>2, <3>3, <1>1
  <2> QED BY <2>3, <2>4
<1>5. /\ \A i \in 1 .. Len(v) : v[i] \in 1 .. e
      /\ \A i, j \in 1 .. Len(v) : i < j => v[i] < v[j]
      /\ Len(v) \in 1 .. Len(v) /\ v[Len(v)] = e
  <2>1. CASE Len(t) < MaxEvents
    BY <2>1, <1>1, <1>2, <1>3, <1>4
  <2>2. CASE Len(t) = MaxEvents
    <3>1. Len(v) = MaxEvents /\ \A i \in 1 .. Len(v) : v[i] = u[i + 1] /\ i + 1 \in 1 .. Len(t) + 1
      BY <2>2, <1>1, <1>3
    <3>2. \A i, j \in 1 .. Len(v) : i < j => i + 1 < j + 1
      BY <1>1, <3>1
    <3>3. Len(v) \in 1 .. Len(v) /\ Len(v) + 1 = Len(t) + 1
      BY <2>2, <3>1, <1>1
    <3> QED BY <3>1, <3>2, <3>3, <1>2, <1>4
  <2> QED BY <2>1, <2>2, <1>1
<1>6. DOMAIN v = 1 .. Len(v)
  BY <1>3, LenProperties
<1> QED BY <1>3, <1>5, <1>6 DEF Ordered, Told, e, v

\* Appending the newest event takes nothing away but what a full trail drops.
LEMMA AppendedTells ==
  ASSUME NEW n \in Nat, NEW t, Ordered(t, n), NEW d \in 1 .. n, Told(t, d)
  PROVE  Told(Appended(t, n + 1), d)
<1> DEFINE e == n + 1
           u == Append(t, e)
           v == Appended(t, e)
<1>0. Len(t) \in Nat /\ Len(t) <= MaxEvents /\ e \in Nat /\ MaxEvents \in Nat \ {0}
  BY LenProperties, LeadershipAssumption DEF Ordered
<1>1. /\ t \in Seq(Nat) /\ DOMAIN t = 1 .. Len(t)
      /\ \A i, j \in 1 .. Len(t) : i < j => t[i] < t[j]
  BY LenProperties DEF Ordered
<1>2. /\ u \in Seq(Nat) /\ Len(u) = Len(t) + 1 /\ u[Len(t) + 1] = e
      /\ \A i \in 1 .. Len(t) : u[i] = t[i]
  BY <1>0, <1>1, AppendProperties
<1> HIDE DEF u
<1>3. /\ v \in Seq(Nat) /\ Len(v) <= MaxEvents
      /\ Len(t) < MaxEvents => v = u
      /\ Len(t) = MaxEvents => Len(v) = MaxEvents /\ \A i \in 1 .. MaxEvents : v[i] = u[i + 1]
  BY <1>0, <1>1, AppendedFacts DEF u
<1>4. d < e
  OBVIOUS
<1> HIDE DEF e, v
<1>5. DOMAIN v = 1 .. Len(v)
  BY <1>3, LenProperties
<1>6. CASE Len(t) < MaxEvents
  <2>0. Len(t) # MaxEvents
    BY <1>0, <1>6
  <2>1. PICK i \in 1 .. Len(t) : t[i] = d
    BY <2>0, <1>1, Zenon DEF Told
  <2>2. i \in 1 .. Len(v) /\ v[i] = d
    <3>1. v = u /\ u[i] = d
      BY <2>1, <1>2, <1>3, <1>6
    <3>2. Len(v) = Len(t) + 1
      BY <3>1, <1>2
    <3> QED BY <3>1, <3>2, <1>0
  <2> QED BY <2>2, <1>5 DEF Told, v, e
<1>7. CASE Len(t) = MaxEvents
  <2>1. /\ Len(v) = MaxEvents
        /\ \A i \in 1 .. MaxEvents : v[i] = u[i + 1] /\ u[i + 1] = IF i < MaxEvents THEN t[i + 1] ELSE e
    BY <1>0, <1>1, <1>2, <1>3, <1>7
  <2>2. CASE \A i \in 1 .. Len(t) : t[i] > d
    <3>1. ASSUME NEW i \in 1 .. MaxEvents
          PROVE  v[i] > d
      <4>1. CASE i < MaxEvents
        <5>1. i + 1 \in 1 .. Len(t) /\ v[i] = t[i + 1]
          BY <4>1, <2>1, <1>0, <1>7
        <5> QED BY <5>1, <2>2
      <4>2. CASE ~(i < MaxEvents)
        <5>1. v[i] = e
          BY <4>2, <2>1
        <5> QED BY <5>1, <1>0, <1>4
      <4> QED BY <4>1, <4>2
    <3> QED BY <3>1, <2>1, <1>5 DEF Told, v, e
  <2>3. ASSUME NEW i \in 1 .. Len(t), t[i] = d
        PROVE  Told(v, d)
    <3>1. CASE i = 1
      <4>1. \A j \in 1 .. MaxEvents : j < MaxEvents => t[j + 1] > d
        BY <2>3, <3>1, <1>0, <1>1, <1>7
      <4>2. \A j \in 1 .. MaxEvents : v[j] > d
        BY <4>1, <2>1, <1>0, <1>4
      <4> QED BY <4>2, <2>1, <1>5 DEF Told
    <3>2. CASE i # 1
      <4>1. i - 1 \in 1 .. MaxEvents /\ i - 1 < MaxEvents /\ (i - 1) + 1 = i
        BY <3>2, <1>0, <1>7
      <4>2. v[i - 1] = d
        BY <4>1, <2>1, <2>3
      <4> QED BY <4>1, <4>2, <2>1, <1>5 DEF Told
    <3> QED BY <3>1, <3>2
  <2> QED BY <2>2, <2>3, <1>1, Zenon DEF Told, v, e
<1>8. Len(t) < MaxEvents \/ Len(t) = MaxEvents
  BY <1>0
<1> QED BY <1>6, <1>7, <1>8

\* An idle handler is one.
LEMMA IdleFacts == Idle \in Call /\ Idle.at = "idle"
BY EmptySeq DEF Idle, Call

\* It holds at the start.
LEMMA InitAudit == Init => AuditInv
<1> SUFFICES ASSUME Init PROVE AuditInv
  OBVIOUS
<1>1. /\ trail = <<>> /\ applied = <<>>
      /\ call = [r \in Replicas |-> [h \in Handlers |-> Idle]]
  BY DEF Init
<1>2. /\ trail \in Seq(Nat) /\ Len(trail) = 0 /\ DOMAIN trail = {}
      /\ applied \in Seq(BOOLEAN) /\ DOMAIN applied = {}
  BY <1>1, EmptySeq
<1>3. Ordered(trail, Len(applied))
  BY <1>2, LeadershipAssumption DEF Ordered
<1>4. Complete(trail)
  BY <1>2 DEF Complete
<1>5. /\ call \in [Replicas -> [Handlers -> Call]]
      /\ \A r \in Replicas, h \in Handlers : call[r][h].at = "idle"
  BY <1>1, IdleFacts
<1> QED BY <1>2, <1>3, <1>4, <1>5 DEF AuditInv

\* What leaves the stored events alone, and has read nothing but what another call
\* has, or the trail.
LEMMA CallsChange ==
  ASSUME AuditInv, UNCHANGED <<trail, applied>>,
         call' \in [Replicas -> [Handlers -> Call]],
         \A r \in Replicas, h \in Handlers :
           call'[r][h].at # "idle" =>
             \/ call'[r][h].read = trail
             \/ call[r][h].at # "idle" /\ call'[r][h].read = call[r][h].read
  PROVE  AuditInv'
<1>1. \A t : Complete(t)' <=> Complete(t)
  BY DEF Complete
<1>2. \A t : Ordered(t, Len(applied))' <=> Ordered(t, Len(applied))
  BY DEF Ordered
<1> QED BY <1>1, <1>2 DEF AuditInv

\* A handler's call changes and the others' do not.
LEMMA SetFacts ==
  ASSUME AuditInv, NEW r \in Replicas, NEW h \in Handlers, NEW c \in Call, Set(r, h, c)
  PROVE  /\ call' \in [Replicas -> [Handlers -> Call]] /\ call'[r][h] = c
         /\ \A q \in Replicas, g \in Handlers :
              q # r \/ g # h => call'[q][g] = call[q][g]
BY DEF AuditInv, Set

\* A trail is stored: every other call that is about to store one meets a conflict, and
\* one that has only read the trail makes the event a disturbed one.
LEMMA AuditUpdateInv ==
  ASSUME AuditInv, NEW r \in Replicas, NEW h \in Handlers, AuditUpdate(r, h)
  PROVE  AuditInv'
<1> DEFINE n == Len(applied)
           t == call[r][h].read
<1>1. /\ call[r][h].at = "update"
      /\ trail' = Appended(t, n + 1) /\ applied' = Append(applied, ~Reading)
      /\ call' = [q \in Replicas |-> [g \in Handlers |->
                    IF call[q][g].at = "update" THEN Idle ELSE call[q][g]]]
  BY DEF AuditUpdate
<1>2. /\ applied \in Seq(BOOLEAN) /\ n \in Nat /\ DOMAIN applied = 1 .. n
      /\ Ordered(t, n) /\ Complete(t)
  BY <1>1, LenProperties DEF AuditInv
<1>3. /\ applied' \in Seq(BOOLEAN) /\ Len(applied') = n + 1 /\ DOMAIN applied' = 1 .. n + 1
      /\ applied'[n + 1] = ~Reading /\ \A e \in 1 .. n : applied'[e] = applied[e]
  <2>1. (~Reading) \in BOOLEAN
    OBVIOUS
  <2>2. applied' \in Seq(BOOLEAN) /\ Len(applied') = n + 1
    BY <2>1, <1>1, <1>2, AppendProperties
  <2>3. applied'[n + 1] = ~Reading /\ \A e \in 1 .. n : applied'[e] = applied[e]
    BY <2>1, <1>1, <1>2, AppendProperties
  <2> QED BY <2>2, <2>3, LenProperties
<1>4. /\ call' \in [Replicas -> [Handlers -> Call]]
      /\ \A q \in Replicas, g \in Handlers :
           call'[q][g].at # "idle" => call'[q][g] = call[q][g] /\ call[q][g].at = "loaded"
  <2>1. \A q \in Replicas, g \in Handlers : call[q][g] \in Call
    BY DEF AuditInv
  <2>2. \A q \in Replicas, g \in Handlers :
          call'[q][g] = IF call[q][g].at = "update" THEN Idle ELSE call[q][g]
    BY <1>1
  <2> QED BY <2>1, <2>2, <1>1, IdleFacts DEF Call
<1>5. Ordered(trail', n + 1)
  BY <1>1, <1>2, AppendedOrdered
<1>6. ASSUME NEW e \in 1 .. n + 1, applied'[e]
      PROVE  Told(trail', e)
  <2>1. CASE e = n + 1
    BY <2>1, <1>1, <1>2, AppendedOrdered
  <2>2. CASE e \in 1 .. n
    <3>1. Told(t, e)
      BY <2>2, <1>2, <1>3, <1>6 DEF Complete
    <3> QED BY <3>1, <2>2, <1>1, <1>2, AppendedTells
  <2> QED BY <2>1, <2>2, <1>2
<1> HIDE DEF n, t
<1>7. ASSUME NEW q \in Replicas, NEW g \in Handlers, call'[q][g].at # "idle"
      PROVE  /\ Ordered(call'[q][g].read, n + 1)
             /\ \A e \in 1 .. n + 1 : applied'[e] => Told(call'[q][g].read, e)
  <2> DEFINE s == call[q][g].read
  <2>1. call[q][g].at = "loaded" /\ call'[q][g].read = s
    BY <1>4, <1>7
  <2>2. Ordered(s, n) /\ Complete(s)
    BY <2>1 DEF AuditInv, n
  <2>3. ~applied'[n + 1]
    BY <2>1, <1>3 DEF Reading
  <2> HIDE DEF s
  <2>4. Ordered(s, n + 1)
    <3>1. 1 .. n \subseteq 1 .. n + 1
      BY <1>2
    <3> QED BY <3>1, <2>2 DEF Ordered
  <2>5. ASSUME NEW e \in 1 .. n + 1, applied'[e]
        PROVE  Told(s, e)
    <3>1. e # n + 1
      BY <2>3, <2>5
    <3>2. e \in 1 .. n
      BY <3>1, <1>2
    <3> QED BY <3>2, <2>2, <2>5, <1>2, <1>3 DEF Complete
  <2> QED BY <2>1, <2>4, <2>5
<1>8. Complete(trail)'
  BY <1>3, <1>6 DEF Complete
<1>9. \A q \in Replicas, g \in Handlers :
        call'[q][g].at # "idle" => /\ Ordered(call'[q][g].read, n + 1)
                                   /\ Complete(call[q][g].read)'
  BY <1>3, <1>7 DEF Complete
<1> QED BY <1>3, <1>4, <1>5, <1>8, <1>9 DEF AuditInv

\* Every step keeps it.
LEMMA NextAudit == AuditInv /\ [Next]_vars => AuditInv'
<1> SUFFICES ASSUME AuditInv, [Next]_vars PROVE AuditInv'
  OBVIOUS
<1>1. CASE UNCHANGED audit
  BY <1>1, CallsChange DEF audit, AuditInv
<1>2. CASE Tick \/ NextSlot \/ UNCHANGED vars
  BY <1>2, <1>1 DEF Tick, NextSlot, vars
<1>3. ASSUME NEW r \in Replicas,
             \/ Renew(r) \/ Acquire(r) \/ GiveUp(r) \/ Release(r) \/ Cancel(r) \/ Start(r)
             \/ Loop(r) \/ PersistGet(r)
      PROVE  AuditInv'
  BY <1>3, <1>1 DEF Renew, Acquire, GiveUp, Release, Cancel, Start, Loop, LoadIncidents,
     PersistSkip, PersistUpdate, MaybeDigest, SweepAgain, PersistGet
<1>4. ASSUME NEW r \in Replicas, Stop(r)
      PROVE  AuditInv'
  <2>1. /\ call' = [call EXCEPT ![r] = [h \in Handlers |-> Idle]]
        /\ UNCHANGED <<trail, applied>>
    BY <1>4 DEF Stop
  <2>2. /\ call' \in [Replicas -> [Handlers -> Call]]
        /\ \A q \in Replicas, h \in Handlers : call'[q][h] \in {call[q][h], Idle}
    BY <2>1, IdleFacts DEF AuditInv
  <2> QED BY <2>1, <2>2, IdleFacts, CallsChange
<1>5. ASSUME NEW r \in Replicas, NEW h \in Handlers,
             AuditLoad(r, h) \/ AuditGet(r, h) \/ AuditFail(r, h)
      PROVE  AuditInv'
  <2>1. PICK c \in {[at |-> "loaded", read |-> trail], [call[r][h] EXCEPT !.at = "update"], Idle} :
          /\ Set(r, h, c) /\ UNCHANGED <<trail, applied>>
          /\ c.at # "idle" => \/ c.read = trail
                              \/ call[r][h].at # "idle" /\ c.read = call[r][h].read
    <3>1. call[r][h] \in Call
      BY DEF AuditInv
    <3> QED BY <3>1, <1>5, IdleFacts DEF AuditLoad, AuditGet, AuditFail, Call
  <2>2. c \in Call
    BY IdleFacts DEF AuditInv, Call, Ordered
  <2>3. /\ call' \in [Replicas -> [Handlers -> Call]] /\ call'[r][h] = c
        /\ \A q \in Replicas, g \in Handlers : q # r \/ g # h => call'[q][g] = call[q][g]
    BY <2>1, <2>2, SetFacts
  <2> QED BY <2>1, <2>3, CallsChange
<1>6. ASSUME NEW r \in Replicas, NEW h \in Handlers, AuditUpdate(r, h)
      PROVE  AuditInv'
  BY <1>6, AuditUpdateInv
<1> QED BY <1>2, <1>3, <1>4, <1>5, <1>6 DEF Next

\* So it always holds.
LEMMA AuditHolds == Spec => []AuditInv
BY InitAudit, NextAudit, PTL DEF Spec

\* Through failed requests, handovers, overlapping Appends and processes that stop in
\* the middle, the trail is in the order in which its events were stored, and nothing
\* is missing but what a full trail drops and what was stored beside a reader.
THEOREM TrailIsExact == Spec => []TrailExact
<1>1. AuditInv => TrailExact
  <2> SUFFICES ASSUME AuditInv PROVE TrailExact
    OBVIOUS
  <2>1. DOMAIN applied = 1 .. Len(applied)
    BY LenProperties DEF AuditInv
  <2> QED BY <2>1 DEF AuditInv, TrailExact, Ordered, Complete, Told
<1> QED BY <1>1, AuditHolds, PTL

\* Election, digest and trail keep their types, and the trail its cap.
THEOREM TypeCorrect == Spec => []TypeOK
<1>1. DigestInv /\ AuditInv => TypeOK
  BY DEF DigestInv, Election, ElectionTypes, Phase, DigestTypes, AuditInv, Ordered, TypeOK
<1> QED BY <1>1, DigestHolds, AuditHolds, PTL
=============================================================================
