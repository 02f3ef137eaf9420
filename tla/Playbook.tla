------------------------------- MODULE Playbook -------------------------------
(***************************************************************************)
(* The playbook of verified remedies (internal/playbook/playbook.go), its  *)
(* quarantine of remedies that keep failing, and its persistence by the    *)
(* agent: verifyHeals reports verdicts, the sweep then retires and saves,  *)
(* and only then do handlers replay.  The process may crash anywhere; the  *)
(* next one starts from what was saved.                                    *)
(*                                                                         *)
(* A tick is a sweep.  The remedy itself is opaque to the book: an entry   *)
(* is the time it was last verified, and 0 is a missing map entry.         *)
(***************************************************************************)
EXTENDS Integers, FiniteSets

CONSTANTS
  Pair,           \* workload controller + problem kind
  MaxEntries,     \* Options.MaxEntries
  MaxFailures,    \* Options.MaxFailures
  QuarantineFor,  \* Options.QuarantineFor, in sweeps
  MaxQuarantine,  \* maxQuarantine, in sweeps
  FailureDecay,   \* Options.FailureDecay, in sweeps
  MaxAge,         \* Options.MaxAge, in sweeps; 0 never retires
  Horizon,        \* the last sweep: bounds the model
  MaxCrashes      \* restarts: bounds the model

ASSUME PlaybookAssumption ==
  /\ IsFiniteSet(Pair)
  /\ MaxEntries \in Nat \ {0} /\ MaxFailures \in Nat \ {0}
  /\ QuarantineFor \in Nat \ {0} /\ MaxQuarantine \in Nat \ {0}
  /\ FailureDecay \in Nat \ {0} /\ MaxAge \in Nat
  /\ Horizon \in Nat \ {0} /\ MaxCrashes \in Nat

VARIABLES
  now,      \* the sweep's number, for its clock
  phase,    \* where the sweep is: "verify", "persist" or "handle"
  judged,   \* the pairs verifyHeals has judged this sweep
  entries,  \* Book.entries: when each remedy was last verified
  scars,    \* Book.scars
  dirty,    \* Book.dirty
  saved,    \* the ConfigMap
  verdict,  \* history: the last verdict on each pair, whichever process gave it
  unsaved,  \* history: the pairs that failed since the last save that succeeded
  lost,     \* history: those of them whose process died before it saved
  crashes   \* restarts so far

\* What the world saw of each remedy; no restart takes it back.
history == <<verdict, unsaved, lost>>
vars == <<now, phase, judged, entries, scars, dirty, saved, history, crashes>>

NoEntries == [p \in Pair |-> 0]
NoScar == [failures |-> 0, last |-> 0, until |-> 0]
NoScars == [p \in Pair |-> NoScar]
Empty == [entries |-> NoEntries, scars |-> NoScars]

Remembered(es) == {p \in Pair : es[p] # 0}
Scarred(ss) == {p \in Pair : ss[p].failures # 0}

\* Scar.Quarantined.
Barred(s, t) == t < s.until

\* The candidates of evictOldest: map order breaks a tie.
Oldest(es) == {p \in Remembered(es) : \A q \in Remembered(es) : es[p] <= es[q]}

\* Mutant: a quarantined scar can be forgotten.
StalestOfAll(ss, t) ==
  {p \in Scarred(ss) : \A q \in Scarred(ss) : ss[p].last <= ss[q].last}

\* The candidates of forgetStalestScar: never a quarantined pair.
Stalest(ss, t) ==
  LET idle == {p \in Scarred(ss) : ~Barred(ss[p], t)}
  IN {p \in idle : \A q \in idle : ss[p].last <= ss[q].last}

\* The quarantine doubles with each failure past the limit, up to a cap.
Wait(failures) ==
  LET doubled == QuarantineFor * 2 ^ (failures - MaxFailures)
  IN IF doubled \in 1 .. MaxQuarantine THEN doubled ELSE MaxQuarantine

\* One more failure on a scar; old trouble does not count.
Failed(s, t) ==
  LET n == IF s.failures # 0 /\ t - s.last > FailureDecay THEN 1 ELSE s.failures + 1
  IN [failures |-> n,
      last     |-> t,
      until    |-> IF n >= MaxFailures THEN t + Wait(n) ELSE s.until]

-----------------------------------------------------------------------------

Init ==
  /\ now = 1 /\ phase = "verify" /\ judged = {}
  /\ entries = NoEntries /\ scars = NoScars
  /\ verdict = [p \in Pair |-> "none"] /\ unsaved = {} /\ lost = {}
  /\ dirty = FALSE
  /\ saved = Empty
  /\ crashes = 0

\* Mutant: a quarantined pair is learned as well.
LearnAlways(p) == entries' = [entries EXCEPT ![p] = now] /\ dirty' = TRUE

\* Record, of a heal that held: a quarantined pair is refused, a known one
\* refreshed, and a full book makes room first.
Learn(p) ==
  \/ /\ Barred(scars[p], now)
     /\ UNCHANGED <<entries, dirty>>
  \/ /\ ~Barred(scars[p], now)
     /\ IF entries[p] = 0 /\ Cardinality(Remembered(entries)) >= MaxEntries
        THEN \E q \in Oldest(entries) : entries' = [entries EXCEPT ![q] = 0, ![p] = now]
        ELSE entries' = [entries EXCEPT ![p] = now]
     /\ dirty' = TRUE

\* verifyHeals finds that the heal held.
Verified(p) ==
  /\ phase = "verify" /\ p \notin judged
  /\ judged' = judged \cup {p}
  /\ Learn(p)
  /\ verdict' = [verdict EXCEPT ![p] = "held"]
  /\ unsaved' = unsaved \ {p} /\ lost' = lost \ {p}
  /\ UNCHANGED <<now, phase, scars, saved, crashes>>

\* Mutant: the entry of a remedy that failed stays in the book.
FailKeeps(p) ==
  /\ scars' = [scars EXCEPT ![p] = Failed(@, now)]
  /\ dirty' = TRUE
  /\ UNCHANGED entries

\* Fail: the remedy goes, and a scar is added; a full scar map makes room for a
\* new scar when it can.
Fail(p) ==
  /\ entries' = [entries EXCEPT ![p] = 0]
  /\ IF /\ scars[p].failures = 0
        /\ Cardinality(Scarred(scars)) >= MaxEntries
        /\ Stalest(scars, now) # {}
     THEN \E q \in Stalest(scars, now) :
            scars' = [scars EXCEPT ![q] = NoScar, ![p] = Failed(NoScar, now)]
     ELSE scars' = [scars EXCEPT ![p] = Failed(@, now)]
  /\ dirty' = TRUE

\* verifyHeals rolls the heal back.
RolledBack(p) ==
  /\ phase = "verify" /\ p \notin judged
  /\ judged' = judged \cup {p}
  /\ Fail(p)
  /\ verdict' = [verdict EXCEPT ![p] = "failed"]
  /\ unsaved' = unsaved \cup {p} /\ lost' = lost \ {p}
  /\ UNCHANGED <<now, phase, saved, crashes>>

\* Mutant: nothing expires.
NotExpired == {}

\* The remedies nothing has confirmed within MaxAge.
Expired ==
  IF MaxAge = 0 THEN {} ELSE {p \in Remembered(entries) : now - entries[p] > MaxAge}

\* Retire: scars nobody holds open are dropped too, but only when a remedy was.
Retire ==
  /\ phase = "verify"
  /\ phase' = "persist"
  /\ IF Expired = {} THEN UNCHANGED <<entries, scars, dirty>>
     ELSE /\ entries' = [p \in Pair |-> IF p \in Expired THEN 0 ELSE entries[p]]
          /\ scars' = [p \in Pair |->
                         IF ~Barred(scars[p], now) /\ now - scars[p].last > MaxAge
                         THEN NoScar ELSE scars[p]]
          /\ dirty' = TRUE
  /\ UNCHANGED <<now, judged, saved, history, crashes>>

\* persistPlaybook: a clean book is not written.
Persist ==
  /\ phase = "persist"
  /\ phase' = "handle"
  /\ IF dirty THEN saved' = [entries |-> entries, scars |-> scars] /\ unsaved' = {}
     ELSE UNCHANGED <<saved, unsaved>>
  /\ dirty' = FALSE
  /\ UNCHANGED <<now, judged, entries, scars, verdict, lost, crashes>>

\* The write fails: the book stays dirty and the next sweep tries again.
PersistFails ==
  /\ phase = "persist" /\ dirty
  /\ phase' = "handle"
  /\ UNCHANGED <<now, judged, entries, scars, dirty, saved, history, crashes>>

\* A handler looks the remedy up, applies it and calls MarkHit.
Replay(p) ==
  /\ phase = "handle" /\ entries[p] # 0
  /\ dirty' = TRUE
  /\ UNCHANGED <<now, phase, judged, entries, scars, saved, history, crashes>>

\* Mutant: an eviction is not marked for saving.
EvictClean(p) ==
  /\ phase = "handle" /\ entries[p] # 0
  /\ entries' = [entries EXCEPT ![p] = 0]
  /\ UNCHANGED <<now, phase, judged, scars, dirty, saved, history, crashes>>

\* A handler cannot decode the remedy it looked up: Evict, without a scar.
Evict(p) ==
  /\ phase = "handle" /\ entries[p] # 0
  /\ entries' = [entries EXCEPT ![p] = 0]
  /\ dirty' = TRUE
  /\ UNCHANGED <<now, phase, judged, scars, saved, history, crashes>>

NextSweep ==
  /\ phase = "handle" /\ now < Horizon
  /\ now' = now + 1
  /\ phase' = "verify" /\ judged' = {}
  /\ UNCHANGED <<entries, scars, dirty, saved, history, crashes>>

\* loadPlaybook and Restore, in the process that starts next.
RestoreFrom(s) ==
  /\ entries' = s.entries /\ scars' = s.scars
  /\ dirty' = FALSE
  /\ lost' = lost \cup unsaved /\ unsaved' = {}
  /\ phase' = "verify" /\ judged' = {}
  /\ crashes' = crashes + 1
  /\ UNCHANGED <<now, saved, verdict>>

\* A restart; when the ConfigMap cannot be read the book starts empty.
Crash ==
  /\ crashes < MaxCrashes
  /\ \/ RestoreFrom(saved)
     \/ RestoreFrom(Empty)

Next ==
  \/ \E p \in Pair : Verified(p) \/ RolledBack(p) \/ Replay(p) \/ Evict(p)
  \/ Retire
  \/ Persist
  \/ PersistFails
  \/ NextSweep
  \/ Crash

Spec == Init /\ [][Next]_vars

-----------------------------------------------------------------------------

Times == 0 .. Horizon
Scar == [failures : Nat, last : Times, until : 0 .. Horizon + MaxQuarantine]
Verdict == {"none", "held", "failed"}
Book == [entries : [Pair -> Times], scars : [Pair -> Scar]]

\* Every variable keeps its type; no quarantine outlasts the cap.
TypeOK ==
  /\ now \in 1 .. Horizon
  /\ phase \in {"verify", "persist", "handle"}
  /\ judged \in SUBSET Pair
  /\ entries \in [Pair -> Times]
  /\ scars \in [Pair -> Scar]
  /\ dirty \in BOOLEAN
  /\ saved \in Book
  /\ verdict \in [Pair -> Verdict]
  /\ unsaved \in SUBSET Pair /\ lost \in SUBSET Pair
  /\ crashes \in 0 .. MaxCrashes

\* The book never outgrows its limit, whatever is learned, evicted and restored.
BookBounded == Cardinality(Remembered(entries)) <= MaxEntries

\* No remedy is replayable while its pair is quarantined: not one that was in
\* the book before, and not one restored from the ConfigMap.
QuarantinedNotReplayable ==
  \A p \in Pair : Barred(scars[p], now) => entries[p] = 0

\* A remedy whose last verdict was a rollback is not in the book: not in the process
\* that rolled it back, and not in any later one, nor in the ConfigMap once a save has
\* succeeded.  It comes back only if the process died before it could save at all.
NoFailedRemedy ==
  \A p \in Pair : verdict[p] = "failed" /\ p \notin lost =>
    /\ entries[p] = 0
    /\ p \notin unsaved => saved.entries[p] = 0

\* A book that is not dirty is the one saved, or the empty one of a process that
\* could not read it: no operation changes the book and forgets to say so.
CleanMeansSaved ==
  ~dirty => /\ entries \in {saved.entries, NoEntries}
            /\ scars \in {saved.scars, NoScars}

\* Handlers only ever replay a remedy that was confirmed within MaxAge.
RemediesFresh ==
  phase = "handle" /\ MaxAge # 0 =>
    \A p \in Remembered(entries) : now - entries[p] <= MaxAge

\* While the process runs, a quarantine in force is never forgotten: not to make
\* room for another scar, and not with the scars that retirement drops.
QuarantineKept ==
  [][crashes' = crashes =>
       \A p \in Pair : Barred(scars[p], now) => scars'[p].failures # 0]_vars

=============================================================================
