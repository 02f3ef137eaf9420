---------------------------- MODULE PlaybookProofs ----------------------------
(***************************************************************************)
(* What the playbook promises for every set of pairs, limits, horizon and  *)
(* number of restarts.  A restart replaces the live book by the saved one,   *)
(* so no invariant of the live book is inductive alone: IInv asks each of  *)
(* them of the saved book as well, at the present time.                    *)
(***************************************************************************)
EXTENDS Playbook, FiniteSetTheorems, TLAPS

\* Each safety property, of any book.
Fits(es) == Cardinality(Remembered(es)) <= MaxEntries
Replayable(es, ss, t) == \A p \in Pair : Barred(ss[p], t) => es[p] = 0

\* Only a scar with a failure on it holds a quarantine.
Earned(ss) == \A p \in Pair : ss[p].until # 0 => ss[p].failures # 0

BothFit == Fits(entries) /\ Fits(saved.entries)
BothReplayable ==
  /\ Replayable(entries, scars, now)
  /\ Replayable(saved.entries, saved.scars, now)
BothEarned == Earned(scars) /\ Earned(saved.scars)

\* After retirement, until the next sweep, nothing in the book is too old.
Retired ==
  phase \in {"persist", "handle"} /\ MaxAge # 0 =>
    \A p \in Remembered(entries) : now - entries[p] <= MaxAge

IInv ==
  /\ TypeOK /\ BothFit /\ BothReplayable /\ BothEarned /\ NoFailedRemedy
  /\ CleanMeansSaved /\ Retired

-----------------------------------------------------------------------------
\* Facts about the operators.

\* A quarantine lasts a sweep at least, and the cap at most.
LEMMA WaitType ==
  ASSUME NEW failures
  PROVE  Wait(failures) \in 1 .. MaxQuarantine
<1> DEFINE doubled == QuarantineFor * 2 ^ (failures - MaxFailures)
<1>1. Wait(failures) = IF doubled \in 1 .. MaxQuarantine THEN doubled ELSE MaxQuarantine
  BY DEF Wait
<1> HIDE DEF doubled
<1> QED BY <1>1, PlaybookAssumption

\* One more failure makes a scar of a scar, and counts.
LEMMA FailedType ==
  ASSUME NEW s \in Scar, NEW t \in 1 .. Horizon
  PROVE  Failed(s, t) \in Scar /\ Failed(s, t).failures # 0
<1> DEFINE n == IF s.failures # 0 /\ t - s.last > FailureDecay THEN 1 ELSE s.failures + 1
<1>1. n \in Nat /\ n # 0
  BY DEF Scar
<1>2. Failed(s, t) = [failures |-> n, last |-> t,
                      until |-> IF n >= MaxFailures THEN t + Wait(n) ELSE s.until]
  BY DEF Failed
<1> HIDE DEF n
<1>3. Wait(n) \in 1 .. MaxQuarantine
  BY WaitType
<1>4. (IF n >= MaxFailures THEN t + Wait(n) ELSE s.until) \in 0 .. Horizon + MaxQuarantine
  BY <1>1, <1>3, PlaybookAssumption DEF Scar
<1> QED BY <1>1, <1>2, <1>4, PlaybookAssumption DEF Scar, Times

\* A pair that never failed has the scar of no failures.
LEMMA NoScarType == NoScar \in Scar
BY PlaybookAssumption DEF NoScar, Scar, Times

\* The empty book is a book.
LEMMA EmptyType == Empty \in Book
BY NoScarType, PlaybookAssumption
   DEF Empty, Book, NoEntries, NoScars, Times

\* The empty book has every property a book should have.
LEMMA EmptyBook ==
  /\ Fits(Empty.entries) /\ Replayable(Empty.entries, Empty.scars, now)
  /\ Earned(Empty.scars)
<1>1. Remembered(NoEntries) = {}
  BY DEF Remembered, NoEntries
<1>2. Fits(Empty.entries)
  BY <1>1, FS_EmptySet, PlaybookAssumption DEF Fits, Empty
<1> QED BY <1>2 DEF Replayable, Earned, Empty, NoEntries, NoScars, NoScar

\* A book that remembers fewer pairs fits as well.
LEMMA FewerFit ==
  ASSUME NEW es, NEW fs, Remembered(fs) \subseteq Remembered(es), Fits(es)
  PROVE  Fits(fs)
<1>1. IsFiniteSet(Remembered(es))
  BY PlaybookAssumption, FS_Subset DEF Remembered
<1>2. /\ Cardinality(Remembered(fs)) \in Nat /\ Cardinality(Remembered(es)) \in Nat
      /\ Cardinality(Remembered(fs)) <= Cardinality(Remembered(es))
  BY <1>1, FS_Subset, FS_CardinalityType
<1> QED BY <1>2, PlaybookAssumption DEF Fits

-----------------------------------------------------------------------------
\* The invariant.

\* The inductive invariant holds at the start.
LEMMA InitIInv == Init => IInv
<1> SUFFICES ASSUME Init PROVE IInv
  OBVIOUS
<1>1. entries = Empty.entries /\ scars = Empty.scars
  BY DEF Init, Empty
<1>2. TypeOK
  <2>1. entries \in [Pair -> Times] /\ scars \in [Pair -> Scar]
    BY <1>1, EmptyType DEF Book
  <2>2. dirty \in BOOLEAN /\ verdict \in [Pair -> Verdict] /\ unsaved = {} /\ lost = {}
    BY DEF Init, Verdict
  <2>3. now \in 1 .. Horizon /\ crashes \in 0 .. MaxCrashes
    BY PlaybookAssumption DEF Init
  <2> QED BY <2>1, <2>2, <2>3, EmptyType DEF Init, TypeOK
<1>3. BothFit /\ BothReplayable /\ BothEarned /\ NoFailedRemedy
  BY <1>1, EmptyBook DEF Init, BothFit, BothReplayable, BothEarned, NoFailedRemedy
<1>4. CleanMeansSaved /\ Retired
  BY DEF Init, CleanMeansSaved, Retired
<1> QED BY <1>2, <1>3, <1>4 DEF IInv

\* Learning a remedy, failing one and restoring a book keep the types.
LEMMA NextTypeOK == TypeOK /\ [Next]_vars => TypeOK'
<1> SUFFICES ASSUME TypeOK, [Next]_vars PROVE TypeOK'
  OBVIOUS
<1> USE DEF TypeOK
<1>0. 0 \in Times /\ now \in Times
  BY PlaybookAssumption DEF Times
<1>1. ASSUME NEW p \in Pair, Verified(p) PROVE TypeOK'
  <2>1. Learn(p) /\ verdict' = [verdict EXCEPT ![p] = "held"]
        /\ unsaved' = unsaved \ {p} /\ lost' = lost \ {p}
        /\ judged' = judged \cup {p}
        /\ UNCHANGED <<now, phase, scars, saved, crashes>>
    BY <1>1 DEF Verified
  <2>2. entries' \in [Pair -> Times] /\ dirty' \in BOOLEAN
    BY <1>0, <2>1 DEF Learn
  <2>3. verdict' \in [Pair -> Verdict]
    BY <2>1 DEF Verdict
  <2> QED BY <2>1, <2>2, <2>3
<1>2. ASSUME NEW p \in Pair, RolledBack(p) PROVE TypeOK'
  <2>1. Fail(p) /\ verdict' = [verdict EXCEPT ![p] = "failed"]
        /\ unsaved' = unsaved \cup {p} /\ lost' = lost \ {p}
        /\ judged' = judged \cup {p}
        /\ UNCHANGED <<now, phase, saved, crashes>>
    BY <1>2 DEF RolledBack
  <2>2. entries' \in [Pair -> Times] /\ dirty' \in BOOLEAN
    BY <1>0, <2>1 DEF Fail
  <2>3. scars' \in [Pair -> Scar]
    <3>1. Failed(scars[p], now) \in Scar /\ Failed(NoScar, now) \in Scar /\ NoScar \in Scar
      BY FailedType, NoScarType
    <3> QED BY <2>1, <3>1 DEF Fail
  <2>4. verdict' \in [Pair -> Verdict]
    BY <2>1 DEF Verdict
  <2> QED BY <2>1, <2>2, <2>3, <2>4
<1>3. ASSUME Retire PROVE TypeOK'
  <2>1. entries' \in [Pair -> Times]
    BY <1>0, <1>3 DEF Retire
  <2>2. scars' \in [Pair -> Scar]
    BY <1>3, NoScarType DEF Retire
  <2> QED BY <1>3, <2>1, <2>2 DEF Retire, history
<1>4. ASSUME Persist PROVE TypeOK'
  <2>1. saved' \in Book /\ unsaved' \in SUBSET Pair
    BY <1>4 DEF Persist, Book
  <2> QED BY <1>4, <2>1 DEF Persist
<1>5. ASSUME PersistFails PROVE TypeOK'
  BY <1>5 DEF PersistFails, history
<1>6. ASSUME NEW p \in Pair, Replay(p) PROVE TypeOK'
  BY <1>6 DEF Replay, history
<1>7. ASSUME NEW p \in Pair, Evict(p) PROVE TypeOK'
  BY <1>0, <1>7 DEF Evict, history
<1>8. ASSUME NextSweep PROVE TypeOK'
  BY <1>8, PlaybookAssumption DEF NextSweep, history
<1>9. ASSUME NEW STATE s, s \in Book, RestoreFrom(s), crashes < MaxCrashes PROVE TypeOK'
  <2>1. s.entries \in [Pair -> Times] /\ s.scars \in [Pair -> Scar]
    BY <1>9 DEF Book
  <2>2. dirty' \in BOOLEAN
    BY <1>9 DEF RestoreFrom
  <2>3. now' \in 1 .. Horizon /\ crashes' \in 0 .. MaxCrashes
    BY <1>9, PlaybookAssumption DEF RestoreFrom
  <2>4. lost' \in SUBSET Pair /\ unsaved' \in SUBSET Pair
    BY <1>9 DEF RestoreFrom
  <2> QED BY <1>9, <2>1, <2>2, <2>3, <2>4 DEF RestoreFrom
<1>10. CASE UNCHANGED vars
  BY <1>10 DEF vars, history
<1> QED
  BY <1>1, <1>2, <1>3, <1>4, <1>5, <1>6, <1>7, <1>8, <1>9, <1>10, EmptyType
  DEF Next, Crash

\* What a step does to the live book: a pair enters it only by Learn, which makes
\* room first.
LEMMA NextBothFit == TypeOK /\ BothFit /\ [Next]_vars => BothFit'
<1> SUFFICES ASSUME TypeOK, BothFit, [Next]_vars PROVE BothFit'
  OBVIOUS
<1> USE DEF BothFit
<1>0. /\ now # 0 /\ entries \in [Pair -> Times]
      /\ IsFiniteSet(Remembered(entries))
      /\ Cardinality(Remembered(entries)) \in Nat
  <2>1. IsFiniteSet(Remembered(entries))
    BY PlaybookAssumption, FS_Subset DEF Remembered
  <2> QED BY <2>1, FS_CardinalityType DEF TypeOK
<1>1. ASSUME NEW p \in Pair, Verified(p) PROVE BothFit'
  <2>1. Learn(p) /\ saved' = saved
    BY <1>1 DEF Verified
  <2>2. CASE entries' = entries
    BY <2>1, <2>2
  <2>3. CASE \E q \in Oldest(entries) :
               entries[p] = 0 /\ entries' = [entries EXCEPT ![q] = 0, ![p] = now]
    <3>1. PICK q \in Oldest(entries) :
                 entries[p] = 0 /\ entries' = [entries EXCEPT ![q] = 0, ![p] = now]
      BY <2>3
    <3> DEFINE R == Remembered(entries) \ {q}
    <3>2. q \in Remembered(entries) /\ p \notin Remembered(entries)
      BY <3>1 DEF Oldest, Remembered
    <3>3. Remembered(entries') = R \cup {p}
      BY <1>0, <3>1, <3>2 DEF Remembered
    <3>4. IsFiniteSet(R) /\ Cardinality(R) = Cardinality(Remembered(entries)) - 1
      BY <1>0, <3>2, FS_RemoveElement
    <3>5. Cardinality(R \cup {p}) = Cardinality(Remembered(entries))
      <4>1. p \notin R
        BY <3>2
      <4> HIDE DEF R
      <4>2. Cardinality(R \cup {p}) = Cardinality(R) + 1
        BY <3>4, <4>1, FS_AddElement
      <4> QED BY <1>0, <3>4, <4>2
    <3> QED BY <2>1, <3>3, <3>5 DEF Fits
  <2>4. CASE /\ entries' = [entries EXCEPT ![p] = now]
             /\ entries[p] = 0 => Cardinality(Remembered(entries)) < MaxEntries
    <3>1. Remembered(entries') = Remembered(entries) \cup {p}
      BY <1>0, <2>4 DEF Remembered
    <3>2. Cardinality(Remembered(entries')) =
            IF p \in Remembered(entries) THEN Cardinality(Remembered(entries))
            ELSE Cardinality(Remembered(entries)) + 1
      BY <1>0, <3>1, FS_AddElement
    <3>3. entries[p] # 0 <=> p \in Remembered(entries)
      BY DEF Remembered
    <3> QED BY <3>3, <1>0, <2>1, <2>4, <3>2, PlaybookAssumption DEF Fits
  <2> QED BY <1>0, <2>1, <2>2, <2>3, <2>4, PlaybookAssumption DEF Learn
<1>2. CASE Remembered(entries') \subseteq Remembered(entries) /\ saved' = saved
  BY <1>2, FewerFit
<1>3. ASSUME NEW p \in Pair, RolledBack(p) PROVE BothFit'
  BY <1>0, <1>2, <1>3 DEF RolledBack, Fail, Remembered
<1>4. ASSUME Retire PROVE BothFit'
  BY <1>0, <1>2, <1>4 DEF Retire, Remembered
<1>5. ASSUME NEW p \in Pair, Evict(p) PROVE BothFit'
  BY <1>0, <1>2, <1>5 DEF Evict, Remembered
<1>6. ASSUME Persist PROVE BothFit'
  BY <1>6 DEF Persist
<1>7. CASE UNCHANGED <<entries, saved>>
  BY <1>7
<1>8. ASSUME Crash PROVE BothFit'
  BY <1>8, EmptyBook DEF Crash, RestoreFrom
<1> QED
  BY <1>1, <1>3, <1>4, <1>5, <1>6, <1>7, <1>8
  DEF Next, PersistFails, Replay, NextSweep, vars

\* No step leaves a quarantine on a pair without failures.
LEMMA NextBothEarned == TypeOK /\ BothEarned /\ [Next]_vars => BothEarned'
<1> SUFFICES ASSUME TypeOK, BothEarned, [Next]_vars PROVE BothEarned'
  OBVIOUS
<1> USE DEF BothEarned
<1>0. scars \in [Pair -> Scar] /\ now \in 1 .. Horizon
  BY DEF TypeOK
<1>1. ASSUME NEW p \in Pair, RolledBack(p) PROVE BothEarned'
  <2>1. Failed(scars[p], now).failures # 0 /\ Failed(NoScar, now).failures # 0
    BY <1>0, FailedType, NoScarType
  <2>2. Fail(p) /\ saved' = saved
    BY <1>1 DEF RolledBack
  <2>3. \A r \in Pair : scars'[r] \in {scars[r], NoScar, Failed(scars[p], now), Failed(NoScar, now)}
    BY <1>0, <2>2 DEF Fail
  <2> QED BY <2>1, <2>2, <2>3 DEF Earned, NoScar
<1>2. ASSUME Retire PROVE BothEarned'
  <2>1. \A r \in Pair : scars'[r] \in {scars[r], NoScar}
    BY <1>2 DEF Retire
  <2> QED BY <1>2, <2>1 DEF Retire, Earned, NoScar
<1>3. ASSUME Persist PROVE BothEarned'
  BY <1>3 DEF Persist
<1>4. CASE UNCHANGED <<scars, saved>>
  BY <1>4
<1>5. ASSUME Crash PROVE BothEarned'
  BY <1>5, EmptyBook DEF Crash, RestoreFrom
<1> QED
  BY <1>1, <1>2, <1>3, <1>4, <1>5
  DEF Next, Verified, PersistFails, Replay, Evict, NextSweep, vars

\* A quarantine is only ever imposed with the removal of its remedy, and runs out
\* with time.
LEMMA NextBothReplayable ==
  TypeOK /\ BothReplayable /\ [Next]_vars => BothReplayable'
<1> SUFFICES ASSUME TypeOK, BothReplayable, [Next]_vars PROVE BothReplayable'
  OBVIOUS
<1> USE DEF BothReplayable
<1>0. /\ entries \in [Pair -> Times] /\ scars \in [Pair -> Scar] /\ now \in 1 .. Horizon
      /\ saved.scars \in [Pair -> Scar]
  BY DEF TypeOK, Book
<1>1. ASSUME NEW p \in Pair, Verified(p) PROVE BothReplayable'
  <2>1. Learn(p) /\ UNCHANGED <<now, scars, saved>>
    BY <1>1 DEF Verified
  <2>2. \A r \in Pair : Barred(scars[r], now) => entries'[r] \in {0, entries[r]}
    BY <1>0, <2>1 DEF Learn, Oldest, Remembered
  <2> QED BY <2>1, <2>2 DEF Replayable
<1>2. ASSUME NEW p \in Pair, RolledBack(p) PROVE BothReplayable'
  <2>1. Fail(p) /\ UNCHANGED <<now, saved>>
    BY <1>2 DEF RolledBack
  <2>2. entries' = [entries EXCEPT ![p] = 0]
    BY <2>1 DEF Fail
  <2>3. \A r \in Pair \ {p} : scars'[r] \in {scars[r], NoScar}
    BY <1>0, <2>1 DEF Fail
  <2>4. ~Barred(NoScar, now)
    BY <1>0 DEF Barred, NoScar
  <2> QED BY <1>0, <2>1, <2>2, <2>3, <2>4 DEF Replayable
<1>3. ASSUME Retire PROVE BothReplayable'
  <2>1. /\ UNCHANGED <<now, saved>>
        /\ \A r \in Pair : entries'[r] \in {0, entries[r]}
        /\ \A r \in Pair : scars'[r] \in {scars[r], NoScar}
    BY <1>3 DEF Retire
  <2>2. ~Barred(NoScar, now)
    BY <1>0 DEF Barred, NoScar
  <2> QED BY <2>1, <2>2 DEF Replayable
<1>4. ASSUME Persist PROVE BothReplayable'
  BY <1>4 DEF Persist
<1>5. ASSUME NEW p \in Pair, Evict(p) PROVE BothReplayable'
  BY <1>0, <1>5 DEF Evict, Replayable
<1>6. ASSUME NextSweep PROVE BothReplayable'
  <2>1. now' = now + 1 /\ UNCHANGED <<entries, scars, saved>>
    BY <1>6 DEF NextSweep
  <2>2. ASSUME NEW s \in Scar, Barred(s, now + 1) PROVE Barred(s, now)
    BY <1>0, <2>2 DEF Barred, Scar
  <2> QED BY <1>0, <2>1, <2>2 DEF Replayable
<1>7. ASSUME Crash PROVE BothReplayable'
  <2>1. now' = now /\ saved' = saved
    BY <1>7 DEF Crash, RestoreFrom
  <2> QED BY <1>7, <2>1, EmptyBook DEF Crash, RestoreFrom
<1>8. CASE UNCHANGED <<now, entries, scars, saved>>
  BY <1>8
<1> QED
  BY <1>1, <1>2, <1>3, <1>4, <1>5, <1>6, <1>7, <1>8
  DEF Next, PersistFails, Replay, vars

\* No step leaves a remedy whose latest verdict is a failure: a save writes the book
\* without it, and a restart before that save makes its pair one of the lost ones.
LEMMA NextNoFailedRemedy ==
  TypeOK /\ NoFailedRemedy /\ [Next]_vars => NoFailedRemedy'
<1> SUFFICES ASSUME TypeOK, NoFailedRemedy, [Next]_vars PROVE NoFailedRemedy'
  OBVIOUS
<1> USE DEF NoFailedRemedy
<1>0. entries \in [Pair -> Times] /\ verdict \in [Pair -> Verdict]
  BY DEF TypeOK
<1>1. ASSUME NEW p \in Pair, Verified(p) PROVE NoFailedRemedy'
  <2>1. /\ Learn(p) /\ verdict' = [verdict EXCEPT ![p] = "held"] /\ saved' = saved
        /\ unsaved' = unsaved \ {p} /\ lost' = lost \ {p}
    BY <1>1 DEF Verified
  <2>2. \A r \in Pair \ {p} : entries'[r] \in {0, entries[r]}
    BY <1>0, <2>1 DEF Learn
  <2> QED BY <1>0, <2>1, <2>2
<1>2. ASSUME NEW p \in Pair, RolledBack(p) PROVE NoFailedRemedy'
  BY <1>0, <1>2 DEF RolledBack, Fail
<1>3. ASSUME Retire PROVE NoFailedRemedy'
  <2>1. \A r \in Pair : entries'[r] \in {0, entries[r]}
    BY <1>3 DEF Retire
  <2> QED BY <1>3, <2>1 DEF Retire, history
<1>4. ASSUME Persist PROVE NoFailedRemedy'
  <2>1. UNCHANGED <<entries, verdict, lost>>
    BY <1>4 DEF Persist
  <2>2. saved'.entries = entries \/ UNCHANGED <<saved, unsaved>>
    BY <1>4 DEF Persist
  <2> QED BY <2>1, <2>2
<1>5. ASSUME NEW p \in Pair, Evict(p) PROVE NoFailedRemedy'
  BY <1>0, <1>5 DEF Evict, history
<1>6. ASSUME Crash PROVE NoFailedRemedy'
  <2>1. /\ UNCHANGED <<saved, verdict>> /\ lost' = lost \cup unsaved
        /\ entries' = saved.entries \/ entries' = NoEntries
    BY <1>6 DEF Crash, RestoreFrom, Empty
  <2>2. \A p \in Pair : verdict'[p] = "failed" /\ p \notin lost' => saved.entries[p] = 0
    BY <2>1
  <2> QED BY <2>1, <2>2 DEF NoEntries
<1>7. CASE UNCHANGED <<entries, saved, history>>
  BY <1>7 DEF history
<1> QED
  BY <1>1, <1>2, <1>3, <1>4, <1>5, <1>6, <1>7
  DEF Next, PersistFails, Replay, NextSweep, vars

\* Every change of the book is marked, and only a save or a restart takes the
\* mark away.
LEMMA NextCleanMeansSaved == CleanMeansSaved /\ [Next]_vars => CleanMeansSaved'
<1> SUFFICES ASSUME CleanMeansSaved, [Next]_vars PROVE CleanMeansSaved'
  OBVIOUS
<1> USE DEF CleanMeansSaved
<1>1. CASE dirty'
  BY <1>1
<1>2. CASE UNCHANGED <<entries, scars, dirty, saved>>
  BY <1>2
<1>3. ASSUME Persist PROVE CleanMeansSaved'
  <2>1. UNCHANGED <<entries, scars>>
    BY <1>3 DEF Persist
  <2>2. CASE dirty
    <3>1. saved'.entries = entries /\ saved'.scars = scars
      BY <1>3, <2>2 DEF Persist
    <3> QED BY <2>1, <3>1
  <2>3. CASE ~dirty
    BY <1>3, <2>1, <2>3 DEF Persist
  <2> QED BY <2>2, <2>3
<1>4. ASSUME Crash PROVE CleanMeansSaved'
  BY <1>4 DEF Crash, RestoreFrom, Empty
<1> QED
  BY <1>1, <1>2, <1>3, <1>4
  DEF Next, Verified, Learn, RolledBack, Fail, Retire, PersistFails, Replay, Evict,
      NextSweep, vars

\* Retirement is the last step before handlers that can let a remedy grow old.
LEMMA NextRetired == TypeOK /\ Retired /\ [Next]_vars => Retired'
<1> SUFFICES ASSUME TypeOK, Retired, [Next]_vars PROVE Retired'
  OBVIOUS
<1> USE DEF Retired
<1>0. entries \in [Pair -> Times]
  BY DEF TypeOK
<1>1. CASE phase' = "verify"
  BY <1>1
<1>2. ASSUME Retire PROVE Retired'
  <2> SUFFICES ASSUME MaxAge # 0, NEW p \in Remembered(entries')
               PROVE  now - entries'[p] <= MaxAge
    BY <1>2 DEF Retire
  <2>1. p \in Pair /\ entries'[p] # 0
    BY DEF Remembered
  <2>2. p \notin Expired /\ entries'[p] = entries[p]
    BY <1>2, <2>1 DEF Retire
  <2>3. now - entries[p] \in Int /\ MaxAge \in Int
    BY <1>0, <2>1, PlaybookAssumption DEF TypeOK, Times
  <2> QED BY <2>1, <2>2, <2>3 DEF Expired, Remembered
<1>3. ASSUME NEW p \in Pair, Evict(p) PROVE Retired'
  BY <1>0, <1>3 DEF Evict, Remembered
<1>4. CASE /\ UNCHANGED <<now, entries>>
           /\ phase' \in {"persist", "handle"} => phase \in {"persist", "handle"}
  BY <1>4
<1>5. ASSUME NEW p \in Pair, Verified(p) \/ RolledBack(p) PROVE phase' = "verify"
  BY <1>5 DEF Verified, RolledBack
<1>6. ASSUME Crash \/ NextSweep PROVE phase' = "verify"
  BY <1>6 DEF Crash, RestoreFrom, NextSweep
<1> QED
  BY <1>1, <1>2, <1>3, <1>4, <1>5, <1>6
  DEF Next, Persist, PersistFails, Replay, vars

\* Every step keeps the inductive invariant.
LEMMA NextIInv == IInv /\ [Next]_vars => IInv'
BY NextTypeOK, NextBothFit, NextBothReplayable, NextBothEarned, NextNoFailedRemedy,
   NextCleanMeansSaved, NextRetired DEF IInv

\* The inductive invariant holds in every behaviour.
LEMMA Invariance == Spec => []IInv
<1>1. Init => IInv
  BY InitIInv
<1>2. IInv /\ [Next]_vars => IInv'
  BY NextIInv
<1> QED BY <1>1, <1>2, PTL DEF Spec

-----------------------------------------------------------------------------
\* The results.

\* The playbook's variables keep their types; in particular no quarantine ends
\* later than the cap allows (playbook.go, Fail).
THEOREM TypeCorrect == Spec => []TypeOK
<1>1. IInv => TypeOK
  BY DEF IInv
<1> QED BY <1>1, Invariance, PTL

\* The book never outgrows MaxEntries, whatever is learned, evicted, retired and
\* restored (playbook.go, Record and evictOldest).
THEOREM Bounded == Spec => []BookBounded
<1>1. IInv => BookBounded
  BY DEF IInv, BothFit, Fits, BookBounded
<1> QED BY <1>1, Invariance, PTL

\* No handler finds a remedy for a quarantined pair, across any number of
\* crashes, failed saves and unreadable ConfigMaps (playbook.go, Record and Fail).
THEOREM NeverReplaysQuarantined == Spec => []QuarantinedNotReplayable
<1>1. IInv => QuarantinedNotReplayable
  BY DEF IInv, BothReplayable, Replayable, QuarantinedNotReplayable
<1> QED BY <1>1, Invariance, PTL

\* A remedy that was last rolled back is in no later book: it is in neither the live one
\* nor, after one successful save, the ConfigMap, across any number of failed saves and
\* of restarts after that save (playbook.go, Fail; agent.go, persistPlaybook).
THEOREM NeverRemembersFailed == Spec => []NoFailedRemedy
<1>1. IInv => NoFailedRemedy
  BY DEF IInv
<1> QED BY <1>1, Invariance, PTL

\* No change of the book escapes the dirty mark that has it saved (playbook.go,
\* Dirty and MarkClean).
THEOREM ChangesAreMarked == Spec => []CleanMeansSaved
<1>1. IInv => CleanMeansSaved
  BY DEF IInv
<1> QED BY <1>1, Invariance, PTL

\* Handlers replay no remedy older than MaxAge (playbook.go, Retire, and its call
\* before the sweep's handlers in agent.go).
THEOREM ReplaysFresh == Spec => []RemediesFresh
<1>1. IInv => RemediesFresh
  BY DEF IInv, Retired, RemediesFresh
<1> QED BY <1>1, Invariance, PTL

\* While the process runs no quarantine in force is forgotten, whichever scars
\* eviction and retirement drop (playbook.go, forgetStalestScar and Retire).
THEOREM QuarantinesKept == Spec => QuarantineKept
<1> DEFINE Kept == crashes' = crashes =>
                     \A p \in Pair : Barred(scars[p], now) => scars'[p].failures # 0
<1>1. ASSUME IInv, [Next]_vars PROVE Kept
  <2> SUFFICES ASSUME crashes' = crashes,
                      NEW p \in Pair, Barred(scars[p], now)
               PROVE  scars'[p].failures # 0
    OBVIOUS
  <2>0. /\ scars \in [Pair -> Scar] /\ now \in 1 .. Horizon
        /\ scars[p].failures # 0 /\ crashes \in Nat
    BY <1>1 DEF IInv, TypeOK, BothEarned, Earned, Barred, Scar
  <2>1. ASSUME NEW q \in Pair, RolledBack(q) PROVE scars'[p].failures # 0
    <3>1. Failed(scars[q], now).failures # 0 /\ Failed(NoScar, now).failures # 0
      BY <2>0, FailedType, NoScarType
    <3>2. p \notin Stalest(scars, now)
      BY DEF Stalest
    <3>3. scars'[p] \in {scars[p], Failed(scars[q], now), Failed(NoScar, now)}
      BY <2>0, <2>1, <3>2 DEF RolledBack, Fail
    <3> QED BY <2>0, <3>1, <3>3
  <2>2. ASSUME Retire PROVE scars'[p].failures # 0
    BY <2>0, <2>2 DEF Retire
  <2>3. ~Crash
    BY <2>0 DEF Crash, RestoreFrom, PersistFails
  <2>4. CASE scars' = scars
    BY <2>0, <2>4
  <2> QED
    BY <1>1, <2>1, <2>2, <2>3, <2>4
    DEF Next, Verified, Persist, PersistFails, Replay, Evict, NextSweep, vars
<1>2. IInv /\ [Next]_vars => [Kept]_vars
  BY <1>1
<1> QED BY <1>2, Invariance, PTL DEF Spec, QuarantineKept
=============================================================================
