--------------------------- MODULE IncidentsProofs ----------------------------
(***************************************************************************)
(* Proofs about the incident store, for any containers, symptoms, alert    *)
(* cap and number of faults.  A restart swaps the open incidents for the   *)
(* saved ones, so the invariant relates the two for every key the          *)
(* ConfigMap is right about.                                               *)
(***************************************************************************)
EXTENDS Incidents, TLAPS

\* An incident is handled only in the sweep that opened it, before any heal.
Handled ==
  /\ phase \in {"idle", "down"} => fresh = {}
  /\ phase # "handle" => notifying = {}
  /\ phase = "down" => open = Nothing
  /\ fresh \cap notifying = {}
  /\ \A k \in fresh : ~open[k].proposal /\ ~open[k].healed
  /\ phase = "observe" => \A k \in fresh : open[k].quiet = 0

\* What has been opened in this sweep will be saved; once it has been saved, what
\* the ConfigMap holds is open.
Saving ==
  /\ phase \in {"observe", "persist"} /\ ~dirty => fresh = {}
  /\ phase = "handle" => fresh \cup notifying \subseteq DOMAIN saved \cup slipped
  /\ phase # "down" /\ (phase = "persist" => ~dirty) =>
       DOMAIN saved \ slipped \subseteq DOMAIN open

\* Only an incident that is open, and saved or about to be, has been alerted.
Alerted ==
  /\ AlertedOnce
  /\ \A k \in (fresh \cup notifying) \ slipped : alerts[k] = 0
  /\ phase # "down" => \A k \in Key \ (DOMAIN open \cup slipped) : alerts[k] = 0
  /\ \A k \in Key \ (DOMAIN saved \cup slipped) : alerts[k] = 0

\* A saved incident is the open one as it was, and would not be untold either.
Told ==
  /\ NothingUntold
  /\ \A k \in fresh \cup notifying : told[k] = {}
  /\ \A k \in DOMAIN saved \ slipped :
       saved[k].trigger \in told[k] => saved[k].kinds \subseteq told[k]
  /\ \A k \in (DOMAIN saved \cap DOMAIN open) \ slipped :
       saved[k].trigger = open[k].trigger /\ saved[k].kinds \subseteq open[k].kinds

\* A patch is marked on the incident; a process that starts knows the saved marks.
Marked ==
  /\ PatchedOnce
  /\ phase # "down" => \A k \in Key : patches[k] # 0 => k \in DOMAIN open /\ open[k].healed
  /\ phase = "down" => \A k \in Key : patches[k] # 0 => k \in DOMAIN saved /\ saved[k].healed

SavedListed == \A k \in DOMAIN saved : saved[k].trigger \in saved[k].kinds

IInv == TypeOK /\ SavedListed /\ Handled /\ Saving /\ Alerted /\ Told /\ Marked

-----------------------------------------------------------------------------
\* Stores.

\* A store is a function from some keys to incidents.
LEMMA StoreElim ==
  ASSUME NEW s \in Store
  PROVE  /\ DOMAIN s \in SUBSET Key /\ s \in [DOMAIN s -> Incident]
         /\ \A k \in DOMAIN s : s[k] \in Incident
BY DEF Store

\* And every such function is one.
LEMMA StoreIntro ==
  ASSUME NEW S \in SUBSET Key, NEW s \in [S -> Incident]
  PROVE  s \in Store /\ DOMAIN s = S
BY DEF Store

\* The store without incidents is one.
LEMMA NothingStore == Nothing \in Store /\ DOMAIN Nothing = {}
<1>1. Nothing \in [{} -> Incident]
  BY DEF Nothing, Restrict
<1> QED BY <1>1, StoreIntro

\* The fields of an incident.
LEMMA IncidentFields ==
  ASSUME NEW i \in Incident
  PROVE  /\ i.trigger \in Kind /\ i.kinds \in SUBSET Kind /\ i.quiet \in Age
         /\ i.proposal \in BOOLEAN /\ i.healed \in BOOLEAN
         /\ i = [trigger |-> i.trigger, kinds |-> i.kinds, quiet |-> i.quiet,
                 proposal |-> i.proposal, healed |-> i.healed]
BY DEF Incident

\* Two stores that differ in how long their incidents have been quiet.
SameButQuiet(s, t) ==
  /\ DOMAIN t = DOMAIN s
  /\ \A k \in DOMAIN s :
       /\ t[k].trigger = s[k].trigger /\ t[k].kinds = s[k].kinds
       /\ t[k].proposal = s[k].proposal /\ t[k].healed = s[k].healed

\* Aging changes nothing else.
LEMMA AgedStore ==
  ASSUME NEW s \in Store, NEW n \in Nat
  PROVE  Aged(s, n) \in Store /\ SameButQuiet(s, Aged(s, n))
<1> DEFINE q(k) == IF s[k].quiet + n > ResolveAfter THEN ResolveAfter + 1 ELSE s[k].quiet + n
           f == [k \in DOMAIN s |-> [s[k] EXCEPT !.quiet = q(k)]]
<1>1. Aged(s, n) = f
  BY DEF Aged
<1>2. ASSUME NEW k \in DOMAIN s
      PROVE  /\ f[k] \in Incident
             /\ f[k].trigger = s[k].trigger /\ f[k].kinds = s[k].kinds
             /\ f[k].proposal = s[k].proposal /\ f[k].healed = s[k].healed
  <2>1. s[k] \in Incident /\ s[k].quiet \in Age
    BY StoreElim, IncidentFields
  <2>2. q(k) \in Age
    BY <2>1, IncidentsAssumption DEF Age
  <2> HIDE DEF q
  <2> QED BY <2>1, <2>2 DEF Incident
<1>3. f \in [DOMAIN s -> Incident] /\ DOMAIN f = DOMAIN s
  BY <1>2
<1> HIDE DEF f
<1>4. f \in Store
  BY <1>3, StoreElim, StoreIntro
<1> QED BY <1>1, <1>2, <1>3, <1>4 DEF SameButQuiet

-----------------------------------------------------------------------------
\* The inductive invariant.

\* It holds at the start.
LEMMA InitIInv == Init => IInv
<1> SUFFICES ASSUME Init PROVE IInv
  OBVIOUS
<1>1. TypeOK
  <2>1. open \in Store /\ saved \in Store /\ DOMAIN open = {}
    BY NothingStore DEF Init
  <2>2. faults \in 0 .. MaxFaults
    BY IncidentsAssumption DEF Init
  <2>3. alerts \in [Key -> Nat] /\ patches \in [Key -> Nat] /\ told \in [Key -> SUBSET Kind]
    BY DEF Init
  <2>4. /\ phase \in {"down", "idle", "observe", "persist", "handle"} /\ dirty \in BOOLEAN
        /\ todo \in SUBSET Problem /\ slipped \in SUBSET Key
        /\ fresh \in SUBSET DOMAIN open /\ notifying \in SUBSET DOMAIN open
    BY DEF Init
  <2> QED BY <2>1, <2>2, <2>3, <2>4 DEF TypeOK
<1> QED
  BY <1>1, NothingStore DEF Init, IInv, SavedListed, Handled, Saving, Alerted, AlertedOnce,
     Told, NothingUntold, Marked, PatchedOnce

\* A restart that can read the ConfigMap keeps it.
LEMMA LoadIInv == IInv /\ Load => IInv'
<1> SUFFICES ASSUME IInv, Load PROVE IInv'
  OBVIOUS
<1>1. PICK n \in Age : saved' = Aged(saved, n) /\ open' = saved'
  BY DEF Load
<1>2. n \in Nat
  BY <1>1, IncidentsAssumption DEF Age
<1>3. saved \in Store /\ saved' \in Store /\ SameButQuiet(saved, saved')
  BY <1>1, <1>2, AgedStore DEF IInv, TypeOK
<1>4. /\ phase = "down" /\ phase' = "idle" /\ dirty' = FALSE
      /\ UNCHANGED <<todo, fresh, notifying, faults, slipped, alerts, told, patches>>
  BY DEF Load, history
<1>5. fresh = {} /\ notifying = {}
  BY <1>4 DEF IInv, Handled
<1>6. TypeOK'
  BY <1>1, <1>3, <1>4, <1>5 DEF IInv, TypeOK, SavedListed, SameButQuiet
<1>7. SavedListed' /\ Handled' /\ Saving'
  BY <1>1, <1>3, <1>4, <1>5 DEF IInv, SavedListed, Handled, Saving, SameButQuiet
<1>8. Alerted'
  BY <1>1, <1>3, <1>4, <1>5 DEF IInv, Alerted, AlertedOnce, SameButQuiet
<1>9. Told'
  BY <1>1, <1>3, <1>4, <1>5 DEF IInv, Told, NothingUntold, SameButQuiet
<1>10. Marked'
  BY <1>1, <1>3, <1>4, <1>5 DEF IInv, Marked, PatchedOnce, SameButQuiet
<1> QED BY <1>6, <1>7, <1>8, <1>9, <1>10 DEF IInv

\* One that cannot read it distrusts every saved key.
LEMMA LoadFailsIInv == IInv /\ LoadFails => IInv'
<1> SUFFICES ASSUME IInv, LoadFails PROVE IInv'
  OBVIOUS
<1>1. /\ phase = "down" /\ phase' = "idle" /\ dirty' = FALSE /\ faults < MaxFaults
      /\ open' = Nothing /\ faults' = faults + 1 /\ slipped' = slipped \cup DOMAIN saved
      /\ patches' = [k \in Key |-> 0]
      /\ UNCHANGED <<todo, fresh, notifying, saved, alerts, told>>
  BY DEF LoadFails
<1>2. fresh = {} /\ notifying = {}
  BY <1>1 DEF IInv, Handled
<1>3. open' \in Store /\ DOMAIN open' = {} /\ DOMAIN saved \in SUBSET Key
  BY <1>1, NothingStore, StoreElim DEF IInv, TypeOK
<1>4. faults' \in 0 .. MaxFaults
  BY <1>1, IncidentsAssumption DEF IInv, TypeOK
<1>5. TypeOK'
  BY <1>1, <1>2, <1>3, <1>4 DEF IInv, TypeOK
<1>6. SavedListed' /\ Handled' /\ Saving'
  BY <1>1, <1>2, <1>3 DEF IInv, SavedListed, Handled, Saving
<1>7. Alerted' /\ Told' /\ Marked'
  BY <1>1, <1>2, <1>3 DEF IInv, Alerted, AlertedOnce, Told, NothingUntold, Marked, PatchedOnce
<1> QED BY <1>5, <1>6, <1>7 DEF IInv

\* What a crash leaves is what the ConfigMap knows.
LEMMA CrashIInv == IInv /\ Crash => IInv'
<1> SUFFICES ASSUME IInv, Crash PROVE IInv'
  OBVIOUS
<1>1. /\ phase # "down" /\ phase' = "down" /\ faults < MaxFaults /\ faults' = faults + 1
      /\ todo' = {} /\ open' = Nothing /\ dirty' = FALSE /\ fresh' = {} /\ notifying' = {}
      /\ patches' = [k \in Key |-> IF k \in DOMAIN saved /\ saved[k].healed
                                   THEN patches[k] ELSE 0]
      /\ UNCHANGED <<saved, slipped, alerts, told>>
  BY DEF Crash
<1>2. open' \in Store /\ DOMAIN open' = {}
  BY <1>1, NothingStore
<1>3. faults' \in 0 .. MaxFaults
  BY <1>1, IncidentsAssumption DEF IInv, TypeOK
<1>4. patches' \in [Key -> Nat]
  BY <1>1 DEF IInv, TypeOK
<1>5. TypeOK'
  BY <1>1, <1>2, <1>3, <1>4 DEF IInv, TypeOK
<1>6. SavedListed' /\ Handled' /\ Saving'
  BY <1>1, <1>2 DEF IInv, SavedListed, Handled, Saving
<1>7. Alerted' /\ Told'
  BY <1>1, <1>2 DEF IInv, Alerted, AlertedOnce, Told, NothingUntold
<1>8. Marked'
  BY <1>1 DEF IInv, Marked, PatchedOnce
<1> QED BY <1>5, <1>6, <1>7, <1>8 DEF IInv

\* A sweep starts with nothing to handle.
LEMMA StartSweepIInv == IInv /\ StartSweep => IInv'
<1> SUFFICES ASSUME IInv, StartSweep PROVE IInv'
  OBVIOUS
<1>1. /\ phase = "idle" /\ phase' = "observe" /\ todo' \in SUBSET Problem
      /\ open' = Aged(open, 1) /\ saved' = Aged(saved, 1)
      /\ UNCHANGED <<dirty, fresh, notifying, faults, slipped, alerts, told, patches>>
  BY DEF StartSweep, env, history
<1>2. fresh = {} /\ notifying = {}
  BY <1>1 DEF IInv, Handled
<1>3. /\ open' \in Store /\ SameButQuiet(open, open')
      /\ saved' \in Store /\ SameButQuiet(saved, saved')
  BY <1>1, AgedStore DEF IInv, TypeOK
<1>4. TypeOK'
  BY <1>1, <1>2, <1>3 DEF IInv, TypeOK, SameButQuiet
<1>5. SavedListed' /\ Handled' /\ Saving'
  BY <1>1, <1>2, <1>3 DEF IInv, SavedListed, Handled, Saving, SameButQuiet
<1>6. Alerted'
  BY <1>1, <1>2, <1>3 DEF IInv, Alerted, AlertedOnce, SameButQuiet
<1>7. Told'
  BY <1>1, <1>2, <1>3 DEF IInv, Told, NothingUntold, SameButQuiet
<1>8. Marked'
  BY <1>1, <1>3 DEF IInv, Marked, PatchedOnce, SameButQuiet
<1> QED BY <1>4, <1>5, <1>6, <1>7, <1>8 DEF IInv

\* A first sighting is of a key the ConfigMap does not hold, unless a fault misled it.
LEMMA ObserveNewIInv == IInv /\ ObserveNew => IInv'
<1> SUFFICES ASSUME IInv, ObserveNew PROVE IInv'
  OBVIOUS
<1>1. PICK p \in todo :
        /\ p[1] \notin DOMAIN open
        /\ todo' = todo \ {p}
        /\ open' = With(open, p[1], Opened(p[2]))
        /\ fresh' = fresh \cup {p[1]}
        /\ told' = [told EXCEPT ![p[1]] = {}]
  BY DEF ObserveNew
<1> DEFINE k == p[1]
<1>2. /\ phase = "observe" /\ phase' = "observe" /\ dirty' = TRUE
      /\ UNCHANGED <<notifying, saved, faults, slipped, alerts, patches>>
  BY DEF ObserveNew, env
<1>3. k \in Key /\ p[2] \in Kind /\ notifying = {}
  BY <1>2, IncidentsAssumption DEF IInv, TypeOK, Handled
<1>4. Opened(p[2]) \in Incident /\ Opened(p[2]).trigger \in Opened(p[2]).kinds
  BY <1>3, IncidentsAssumption DEF Opened, Incident, Age
<1>5. /\ DOMAIN open' = DOMAIN open \cup {k}
      /\ open'[k] = Opened(p[2])
      /\ \A j \in DOMAIN open : open'[j] = open[j]
  BY <1>1 DEF With
<1>6. open' \in Store
  <2>1. open' \in [DOMAIN open \cup {k} -> Incident]
    BY <1>1, <1>4, StoreElim DEF IInv, TypeOK, With
  <2>2. DOMAIN open \cup {k} \in SUBSET Key
    BY <1>3, StoreElim DEF IInv, TypeOK
  <2> HIDE DEF k
  <2> QED BY <2>1, <2>2, StoreIntro
<1> HIDE DEF k
<1>7. TypeOK'
  <2>1. \A j \in DOMAIN open' : open'[j].trigger \in open'[j].kinds
    BY <1>4, <1>5 DEF IInv, TypeOK
  <2>2. told' \in [Key -> SUBSET Kind]
    BY <1>1 DEF IInv, TypeOK, k
  <2>3. todo' \in SUBSET Problem /\ fresh' \in SUBSET DOMAIN open'
    BY <1>1, <1>5 DEF IInv, TypeOK, k
  <2> QED BY <2>1, <2>2, <2>3, <1>2, <1>3, <1>5, <1>6 DEF IInv, TypeOK
<1>8. SavedListed' /\ Handled' /\ Saving'
  <2>1. ~open'[k].proposal /\ ~open'[k].healed /\ open'[k].quiet = 0
    BY <1>5 DEF Opened
  <2>2. fresh' = fresh \cup {k} /\ fresh \in SUBSET DOMAIN open
    BY <1>1 DEF k, IInv, TypeOK
  <2> QED BY <2>1, <2>2, <1>2, <1>3, <1>5 DEF IInv, SavedListed, Handled, Saving
<1>9. fresh' = fresh \cup {k} /\ k \notin DOMAIN open /\ (k \in slipped \/ k \notin DOMAIN saved)
  BY <1>1, <1>2 DEF k, IInv, Saving
<1>10. Alerted'
  BY <1>2, <1>3, <1>5, <1>9 DEF IInv, Alerted, AlertedOnce
<1>11. Told'
  <2>1. told'[k] = {} /\ \A j \in Key : j # k => told'[j] = told[j]
    BY <1>1, <1>3 DEF k, IInv, TypeOK
  <2>2. fresh \in SUBSET DOMAIN open /\ DOMAIN saved \in SUBSET Key /\ DOMAIN open \in SUBSET Key
    BY StoreElim DEF IInv, TypeOK
  <2> QED BY <2>1, <2>2, <1>2, <1>3, <1>5, <1>9 DEF IInv, Told, NothingUntold
<1>12. Marked'
  BY <1>2, <1>5, <1>9 DEF IInv, Marked, PatchedOnce
<1> QED BY <1>7, <1>8, <1>10, <1>11, <1>12 DEF IInv

\* An incident that changes stays in its place.
LEMMA ExceptStore ==
  ASSUME NEW s \in Store, NEW k \in DOMAIN s, NEW i \in Incident,
         NEW t, t = [s EXCEPT ![k] = i]
  PROVE  /\ t \in Store /\ DOMAIN t = DOMAIN s /\ t[k] = i
         /\ \A j \in DOMAIN s : j # k => t[j] = s[j]
<1>1. t \in [DOMAIN s -> Incident] /\ DOMAIN s \in SUBSET Key
  BY StoreElim
<1> QED BY <1>1, StoreIntro

\* A heal is retried only for an incident no heal of which has landed.
LEMMA ObserveKnownIInv == IInv /\ ObserveKnown => IInv'
<1> SUFFICES ASSUME IInv, ObserveKnown PROVE IInv'
  OBVIOUS
<1>1. PICK p \in todo : p[1] \in DOMAIN open /\
        \E k \in DOMAIN open, kind \in Kind, lands \in BOOLEAN :
          /\ lands => open[k].proposal /\ ~open[k].healed
          /\ todo' = todo \ {p}
          /\ open' = [open EXCEPT ![k] = SeenAgain(@, kind, lands)]
          /\ patches' = [patches EXCEPT ![k] = IF lands THEN @ + 1 ELSE @]
          /\ told' = [told EXCEPT ![k] = IF kind \in open[k].kinds \/ k \in fresh
                                         THEN @ ELSE @ \cup {kind}]
  <2>1. PICK p \in todo :
          /\ p[1] \in DOMAIN open
          /\ todo' = todo \ {p}
          /\ \E lands \in IF open[p[1]].proposal /\ ~open[p[1]].healed
                         THEN BOOLEAN ELSE {FALSE} :
               /\ open' = [open EXCEPT ![p[1]] = SeenAgain(@, p[2], lands)]
               /\ patches' = [patches EXCEPT ![p[1]] = IF lands THEN @ + 1 ELSE @]
          /\ told' = [told EXCEPT ![p[1]] = IF p[2] \in open[p[1]].kinds \/ p[1] \in fresh
                                            THEN @ ELSE @ \cup {p[2]}]
    BY DEF ObserveKnown, Folded
  <2>2. PICK lands \in BOOLEAN :
          /\ lands => open[p[1]].proposal /\ ~open[p[1]].healed
          /\ open' = [open EXCEPT ![p[1]] = SeenAgain(@, p[2], lands)]
          /\ patches' = [patches EXCEPT ![p[1]] = IF lands THEN @ + 1 ELSE @]
    BY <2>1
  <2>3. p[2] \in Kind
    BY <2>1, IncidentsAssumption DEF IInv, TypeOK
  <2> QED BY <2>1, <2>2, <2>3, Zenon
<1>2. PICK k \in DOMAIN open, kind \in Kind, lands \in BOOLEAN :
        /\ lands => open[k].proposal /\ ~open[k].healed
        /\ todo' = todo \ {p}
        /\ open' = [open EXCEPT ![k] = SeenAgain(@, kind, lands)]
        /\ patches' = [patches EXCEPT ![k] = IF lands THEN @ + 1 ELSE @]
        /\ told' = [told EXCEPT ![k] = IF kind \in open[k].kinds \/ k \in fresh
                                       THEN @ ELSE @ \cup {kind}]
  BY <1>1
<1>3. /\ phase = "observe" /\ phase' = "observe" /\ dirty' = TRUE
      /\ UNCHANGED <<fresh, notifying, saved, faults, slipped, alerts>>
  BY DEF ObserveKnown, env
<1> DEFINE inc == SeenAgain(open[k], kind, lands)
<1>4. k \in Key /\ notifying = {}
  BY <1>3, StoreElim DEF IInv, TypeOK, Handled
<1>5. lands => open[k].proposal /\ ~open[k].healed
  BY <1>2
<1>6. open[k] \in Incident
  BY <1>4, StoreElim DEF IInv, TypeOK
<1>7. /\ inc \in Incident /\ inc.quiet = 0 /\ inc.kinds = open[k].kinds \cup {kind}
      /\ inc.trigger = open[k].trigger /\ inc.proposal = open[k].proposal
      /\ inc.healed <=> open[k].healed \/ lands
  <2>1. 0 \in Age
    BY IncidentsAssumption DEF Age
  <2>2. open[k].kinds \cup {kind} \in SUBSET Kind
    BY <1>4, <1>6 DEF Incident
  <2>3. (open[k].healed \/ lands) \in BOOLEAN
    OBVIOUS
  <2>4. inc \in Incident
    BY <2>1, <2>2, <2>3, <1>6 DEF Incident, SeenAgain
  <2>5. /\ inc.quiet = 0 /\ inc.kinds = open[k].kinds \cup {kind}
        /\ inc.trigger = open[k].trigger /\ inc.proposal = open[k].proposal
    BY <1>6 DEF Incident, SeenAgain
  <2>6. inc.healed <=> open[k].healed \/ lands
    BY <1>4, <1>6 DEF Incident, SeenAgain
  <2> QED BY <2>4, <2>5, <2>6
<1>8. open' = [open EXCEPT ![k] = inc]
  BY <1>2
<1> HIDE DEF inc
<1>9. /\ open' \in Store /\ DOMAIN open' = DOMAIN open /\ open'[k] = inc
      /\ \A j \in DOMAIN open : j # k => open'[j] = open[j]
  BY <1>4, <1>7, <1>8, ExceptStore DEF IInv, TypeOK
<1>10. k \in fresh => ~lands
  BY <1>5 DEF IInv, Handled
<1>12. TypeOK'
  <2>1. \A j \in DOMAIN open' : open'[j].trigger \in open'[j].kinds
    BY <1>7, <1>9 DEF IInv, TypeOK
  <2>2. told' \in [Key -> SUBSET Kind] /\ patches' \in [Key -> Nat] /\ todo' \in SUBSET Problem
    BY <1>2, <1>4 DEF IInv, TypeOK
  <2> QED BY <2>1, <2>2, <1>3, <1>9 DEF IInv, TypeOK
<1>13. SavedListed' /\ Handled' /\ Saving'
  <2>1. \A j \in fresh : ~open'[j].proposal /\ ~open'[j].healed /\ open'[j].quiet = 0
    BY <1>3, <1>7, <1>9, <1>10 DEF IInv, TypeOK, Handled
  <2>2. SavedListed' /\ Handled'
    BY <2>1, <1>3, <1>4 DEF IInv, SavedListed, Handled
  <2>3. Saving'
    BY <1>3, <1>9 DEF IInv, Saving
  <2> QED BY <2>2, <2>3
<1>14. Alerted'
  BY <1>3, <1>9 DEF IInv, Alerted, AlertedOnce
<1>15. Told'
  <2>1. /\ told'[k] = IF kind \in open[k].kinds \/ k \in fresh THEN told[k] ELSE told[k] \cup {kind}
        /\ \A j \in Key : j # k => told'[j] = told[j]
    BY <1>2, <1>4 DEF IInv, TypeOK
  <2>2. fresh \in SUBSET DOMAIN open /\ DOMAIN saved \in SUBSET Key /\ DOMAIN open \in SUBSET Key
    BY StoreElim DEF IInv, TypeOK
  <2>3. open[k].trigger \in open[k].kinds
    BY <1>4 DEF IInv, TypeOK
  <2>4. \A j \in DOMAIN saved \ slipped : j \in DOMAIN open
    BY <1>3 DEF IInv, Saving
  <2>5. NothingUntold'
    <3>1. CASE k \in fresh
      BY <3>1, <2>1, <2>2, <1>3, <1>7, <1>9 DEF IInv, Told, NothingUntold
    <3>2. CASE k \notin fresh
      BY <3>2, <2>1, <2>2, <2>3, <1>3, <1>7, <1>9 DEF IInv, Told, NothingUntold
    <3> QED BY <3>1, <3>2
  <2>6. \A j \in fresh' \cup notifying' : told'[j] = {}
    BY <2>1, <2>2, <1>3, <1>4 DEF IInv, Told
  <2>7. ASSUME NEW j \in DOMAIN saved' \ slipped', saved'[j].trigger \in told'[j]
        PROVE  saved'[j].kinds \subseteq told'[j]
    <3>1. CASE j = k
      <4>1. saved[k].trigger = open[k].trigger /\ saved[k].kinds \subseteq open[k].kinds
        BY <3>1, <2>7, <1>3, <1>4 DEF IInv, Told
      <4> QED BY <4>1, <3>1, <2>1, <2>3, <2>7, <1>3 DEF IInv, Told
    <3>2. CASE j # k
      BY <3>2, <2>1, <2>2, <2>7, <1>3 DEF IInv, Told
    <3> QED BY <3>1, <3>2
  <2>8. \A j \in (DOMAIN saved' \cap DOMAIN open') \ slipped' :
          saved'[j].trigger = open'[j].trigger /\ saved'[j].kinds \subseteq open'[j].kinds
    BY <1>3, <1>7, <1>9 DEF IInv, Told
  <2> QED BY <2>5, <2>6, <2>7, <2>8 DEF Told
<1>16. Marked'
  <2>1. patches[k] = 0 \/ ~lands
    BY <1>3, <1>4, <1>5 DEF IInv, Marked
  <2>2. /\ patches'[k] = (IF lands THEN patches[k] + 1 ELSE patches[k])
        /\ \A j \in Key : j # k => patches'[j] = patches[j]
    BY <1>2, <1>4 DEF IInv, TypeOK
  <2>3. ASSUME NEW j \in Key, patches'[j] # 0
        PROVE  j \in DOMAIN open' /\ open'[j].healed
    BY <2>2, <2>3, <1>3, <1>4, <1>7, <1>9 DEF IInv, Marked
  <2>4. PatchedOnce'
    BY <2>1, <2>2, <1>4 DEF IInv, Marked, PatchedOnce
  <2> QED BY <2>3, <2>4, <1>3 DEF Marked
<1> QED BY <1>12, <1>13, <1>14, <1>15, <1>16 DEF IInv

\* What is reaped is forgotten, and what this sweep opened is not reaped.
LEMMA ReapIInv == IInv /\ Reap => IInv'
<1> SUFFICES ASSUME IInv, Reap PROVE IInv'
  OBVIOUS
<1> DEFINE gone == {k \in DOMAIN open : Quiet(open[k])}
<1>1. /\ phase = "observe" /\ phase' = "persist"
      /\ open' = Restrict(open, DOMAIN open \ gone)
      /\ dirty' = (dirty \/ gone # {})
      /\ alerts' = [k \in Key |-> IF k \in gone THEN 0 ELSE alerts[k]]
      /\ patches' = [k \in Key |-> IF k \in gone THEN 0 ELSE patches[k]]
      /\ UNCHANGED <<todo, fresh, notifying, saved, faults, slipped, told>>
  BY DEF Reap, env
<1>2. gone \subseteq DOMAIN open /\ \A k \in fresh : k \notin gone
  BY <1>1, IncidentsAssumption DEF IInv, TypeOK, Handled, Quiet
<1> HIDE DEF gone
<1>3. DOMAIN open' = DOMAIN open \ gone /\ \A k \in DOMAIN open' : open'[k] = open[k]
  BY <1>1 DEF Restrict
<1>4. open' \in Store
  <2>1. open' \in [DOMAIN open \ gone -> Incident]
    BY <1>1, StoreElim DEF IInv, TypeOK, Restrict
  <2>2. DOMAIN open \ gone \in SUBSET Key
    BY StoreElim DEF IInv, TypeOK
  <2> QED BY <2>1, <2>2, StoreIntro
<1>5. notifying = {} /\ fresh \in SUBSET DOMAIN open
  BY <1>1 DEF IInv, TypeOK, Handled
<1>6. TypeOK'
  <2>1. dirty' \in BOOLEAN
    BY <1>1 DEF IInv, TypeOK
  <2>2. alerts' \in [Key -> Nat] /\ patches' \in [Key -> Nat]
    BY <1>1 DEF IInv, TypeOK
  <2> QED BY <2>1, <2>2, <1>1, <1>2, <1>3, <1>4, <1>5 DEF IInv, TypeOK
<1>7. SavedListed' /\ Handled' /\ Saving'
  BY <1>1, <1>2, <1>3, <1>5 DEF IInv, SavedListed, Handled, Saving
<1>8. Alerted'
  <2>1. \A k \in Key : alerts'[k] = 0 \/ (k \notin gone /\ alerts'[k] = alerts[k])
    BY <1>1
  <2>2. DOMAIN open \in SUBSET Key /\ DOMAIN saved \in SUBSET Key
    BY StoreElim DEF IInv, TypeOK
  <2> QED BY <2>1, <2>2, <1>1, <1>2, <1>3, <1>5 DEF IInv, Alerted, AlertedOnce
<1>9. Told'
  BY <1>1, <1>3 DEF IInv, Told, NothingUntold
<1>10. Marked'
  <2>1. \A k \in Key : patches'[k] = 0 \/ (k \notin gone /\ patches'[k] = patches[k])
    BY <1>1
  <2>2. \A k \in Key : patches[k] # 0 /\ k \notin gone => k \in DOMAIN open' /\ open'[k].healed
    BY <1>1, <1>3 DEF IInv, Marked
  <2>3. PatchedOnce'
    BY <2>1 DEF IInv, Marked, PatchedOnce
  <2> QED BY <2>1, <2>2, <2>3, <1>1 DEF Marked
<1> QED BY <1>6, <1>7, <1>8, <1>9, <1>10 DEF IInv

\* What is handed to the handlers is what the sweep opened, or less.
LEMMA ToHandlersFacts ==
  ASSUME IInv, phase = "persist", ToHandlers
  PROVE  /\ phase' = "handle" /\ fresh' \subseteq fresh /\ notifying = {}
         /\ UNCHANGED <<todo, open, notifying, alerts, told, patches>>
         /\ fresh \in SUBSET DOMAIN open /\ DOMAIN open \in SUBSET Key
         /\ DOMAIN saved \in SUBSET Key
BY StoreElim DEF ToHandlers, history, IInv, TypeOK, Handled

\* A store that is clean after the sweep's observations opened nothing.
LEMMA UnchangedIInv == IInv /\ Unchanged => IInv'
<1> SUFFICES ASSUME IInv, Unchanged PROVE IInv'
  OBVIOUS
<1>1. /\ phase = "persist" /\ ~dirty /\ ToHandlers
      /\ UNCHANGED <<dirty, saved, faults, slipped>>
  BY DEF Unchanged, env
<1>2. /\ phase' = "handle" /\ fresh' \subseteq fresh /\ notifying = {}
      /\ UNCHANGED <<todo, open, notifying, alerts, told, patches>>
      /\ fresh \in SUBSET DOMAIN open
  BY <1>1, ToHandlersFacts
<1>3. TypeOK'
  BY <1>1, <1>2 DEF IInv, TypeOK
<1>4. SavedListed' /\ Handled' /\ Saving'
  BY <1>1, <1>2 DEF IInv, SavedListed, Handled, Saving
<1>5. Alerted' /\ Told' /\ Marked'
  BY <1>1, <1>2 DEF IInv, Alerted, AlertedOnce, Told, NothingUntold, Marked, PatchedOnce
<1> QED BY <1>3, <1>4, <1>5 DEF IInv

\* A save makes the ConfigMap right about everything that is open.
LEMMA PersistIInv == IInv /\ Persist => IInv'
<1> SUFFICES ASSUME IInv, Persist PROVE IInv'
  OBVIOUS
<1>1. /\ phase = "persist" /\ ToHandlers /\ saved' = open /\ dirty' = FALSE
      /\ slipped' = {k \in slipped : k \in DOMAIN open \/ alerts[k] > 0}
      /\ UNCHANGED faults
  BY DEF Persist
<1>2. /\ phase' = "handle" /\ fresh' \subseteq fresh /\ notifying = {}
      /\ UNCHANGED <<todo, open, notifying, alerts, told, patches>>
      /\ fresh \in SUBSET DOMAIN open /\ DOMAIN open \in SUBSET Key
  BY <1>1, ToHandlersFacts
<1>3. \A k \in Key : k \in slipped /\ k \notin slipped' => k \notin DOMAIN open /\ alerts[k] = 0
  BY <1>1 DEF IInv, TypeOK
<1>4. slipped' \subseteq slipped /\ \A k \in DOMAIN open : k \in slipped => k \in slipped'
  BY <1>1
<1>5. TypeOK'
  BY <1>1, <1>2, <1>4 DEF IInv, TypeOK
<1>6. SavedListed' /\ Handled' /\ Saving'
  BY <1>1, <1>2 DEF IInv, TypeOK, SavedListed, Handled, Saving
<1>7. Alerted'
  BY <1>1, <1>2, <1>3, <1>4 DEF IInv, Alerted, AlertedOnce
<1>8. Told'
  BY <1>1, <1>2, <1>4 DEF IInv, Told, NothingUntold
<1>9. Marked'
  BY <1>1, <1>2 DEF IInv, Marked, PatchedOnce
<1> QED BY <1>5, <1>6, <1>7, <1>8, <1>9 DEF IInv

\* A save that fails leaves it in doubt.
LEMMA PersistFailsIInv == IInv /\ PersistFails => IInv'
<1> SUFFICES ASSUME IInv, PersistFails PROVE IInv'
  OBVIOUS
<1>1. /\ phase = "persist" /\ dirty /\ faults < MaxFaults /\ ToHandlers
      /\ saved' \in {saved, open} /\ faults' = faults + 1
      /\ slipped' = slipped \cup DOMAIN open \cup DOMAIN saved
      /\ UNCHANGED dirty
  BY DEF PersistFails
<1>2. /\ phase' = "handle" /\ fresh' \subseteq fresh /\ notifying = {}
      /\ UNCHANGED <<todo, open, notifying, alerts, told, patches>>
      /\ fresh \in SUBSET DOMAIN open /\ DOMAIN open \in SUBSET Key
      /\ DOMAIN saved \in SUBSET Key
  BY <1>1, ToHandlersFacts
<1>3. faults' \in 0 .. MaxFaults
  BY <1>1, IncidentsAssumption DEF IInv, TypeOK
<1>4. saved' \in Store /\ DOMAIN saved' \subseteq slipped' /\ DOMAIN open \subseteq slipped'
  BY <1>1 DEF IInv, TypeOK
<1>5. TypeOK'
  BY <1>1, <1>2, <1>3, <1>4 DEF IInv, TypeOK
<1>6. SavedListed' /\ Handled' /\ Saving'
  BY <1>1, <1>2, <1>4 DEF IInv, TypeOK, SavedListed, Handled, Saving
<1>7. Alerted'
  BY <1>1, <1>2, <1>4 DEF IInv, Alerted, AlertedOnce
<1>8. Told'
  BY <1>1, <1>2, <1>4 DEF IInv, Told, NothingUntold
<1>9. Marked'
  BY <1>1, <1>2 DEF IInv, Marked, PatchedOnce
<1> QED BY <1>5, <1>6, <1>7, <1>8, <1>9 DEF IInv

\* Whoever gives up an incident leaves the rest as it was.
LEMMA LeaveIInv == IInv /\ (GiveUp \/ NotifyFails \/ EndSweep) => IInv'
<1> SUFFICES ASSUME IInv, GiveUp \/ NotifyFails \/ EndSweep PROVE IInv'
  OBVIOUS
<1>1. /\ phase = "handle" /\ phase' \in {"handle", "idle"}
      /\ fresh' \subseteq fresh /\ notifying' \subseteq notifying
      /\ phase' = "idle" => fresh' = {} /\ notifying' = {}
      /\ UNCHANGED <<todo, open, dirty, saved, faults, slipped, alerts, told, patches>>
  BY DEF GiveUp, NotifyFails, EndSweep, env, history
<1>2. TypeOK'
  BY <1>1 DEF IInv, TypeOK
<1>3. SavedListed' /\ Handled' /\ Saving'
  BY <1>1 DEF IInv, SavedListed, Handled, Saving
<1>4. Alerted' /\ Told' /\ Marked'
  BY <1>1 DEF IInv, Alerted, AlertedOnce, Told, NothingUntold, Marked, PatchedOnce
<1> QED BY <1>2, <1>3, <1>4 DEF IInv

\* The heal of a new incident is its first.
LEMMA HandleIInv == IInv /\ Handle => IInv'
<1> SUFFICES ASSUME IInv, Handle PROVE IInv'
  OBVIOUS
<1>1. PICK k \in fresh, lands \in BOOLEAN :
        /\ fresh' = fresh \ {k}
        /\ open' = [open EXCEPT ![k] = Remembered(@, lands)]
        /\ patches' = [patches EXCEPT ![k] = IF lands THEN @ + 1 ELSE @]
        /\ notifying' = notifying \cup {k}
  BY DEF Handle
<1>2. /\ phase = "handle" /\ phase' = "handle" /\ dirty' = TRUE
      /\ UNCHANGED <<todo, saved, faults, slipped, alerts, told>>
  BY DEF Handle, env
<1>3. k \in DOMAIN open /\ k \in Key /\ DOMAIN open \in SUBSET Key
  BY <1>1, StoreElim DEF IInv, TypeOK
<1> DEFINE inc == Remembered(open[k], lands)
<1>4. /\ inc \in Incident /\ inc.kinds = open[k].kinds /\ inc.trigger = open[k].trigger
      /\ lands => inc.healed
  <2>1. open[k] \in Incident
    BY <1>3, StoreElim DEF IInv, TypeOK
  <2>2. (open[k].healed \/ lands) \in BOOLEAN
    OBVIOUS
  <2>3. inc \in Incident
    BY <2>1, <2>2 DEF Incident, Remembered
  <2>4. inc.kinds = open[k].kinds /\ inc.trigger = open[k].trigger
    BY <2>1 DEF Incident, Remembered
  <2>5. lands => inc.healed
    BY <2>1, <1>1 DEF Incident, Remembered
  <2> QED BY <2>3, <2>4, <2>5
<1>5. open' = [open EXCEPT ![k] = inc]
  BY <1>1
<1> HIDE DEF inc
<1>6. /\ open' \in Store /\ DOMAIN open' = DOMAIN open /\ open'[k] = inc
      /\ \A j \in DOMAIN open : j # k => open'[j] = open[j]
  BY <1>3, <1>4, <1>5, ExceptStore DEF IInv, TypeOK
<1>7. /\ patches'[k] = (IF lands THEN patches[k] + 1 ELSE patches[k])
      /\ \A j \in Key : j # k => patches'[j] = patches[j]
      /\ patches' \in [Key -> Nat]
  BY <1>1, <1>3 DEF IInv, TypeOK
<1>8. patches[k] = 0
  BY <1>1, <1>2, <1>3 DEF IInv, Handled, Marked
<1>9. TypeOK'
  <2>1. \A j \in DOMAIN open' : open'[j].trigger \in open'[j].kinds
    BY <1>4, <1>6 DEF IInv, TypeOK
  <2>2. fresh' \in SUBSET DOMAIN open' /\ notifying' \in SUBSET DOMAIN open'
    BY <1>1, <1>3, <1>6 DEF IInv, TypeOK
  <2> QED BY <2>1, <2>2, <1>2, <1>6, <1>7 DEF IInv, TypeOK
<1>10. SavedListed' /\ Handled' /\ Saving'
  <2>1. \A j \in fresh' : ~open'[j].proposal /\ ~open'[j].healed
    BY <1>1, <1>6 DEF IInv, TypeOK, Handled
  <2> QED BY <2>1, <1>1, <1>2, <1>6 DEF IInv, SavedListed, Handled, Saving
<1>11. Alerted'
  BY <1>1, <1>2, <1>6 DEF IInv, Alerted, AlertedOnce
<1>12. Told'
  BY <1>1, <1>2, <1>4, <1>6 DEF IInv, Told, NothingUntold
<1>13. Marked'
  <2>1. ASSUME NEW j \in Key, patches'[j] # 0
        PROVE  j \in DOMAIN open' /\ open'[j].healed
    BY <2>1, <1>2, <1>3, <1>4, <1>6, <1>7, <1>8 DEF IInv, Marked
  <2>2. PatchedOnce'
    BY <1>7, <1>8 DEF IInv, Marked, PatchedOnce
  <2> QED BY <2>1, <2>2, <1>2 DEF Marked
<1> QED BY <1>9, <1>10, <1>11, <1>12, <1>13 DEF IInv

\* The alert of an incident is its first, and lists every kind of it.
LEMMA NotifyIInv == IInv /\ Notify => IInv'
<1> SUFFICES ASSUME IInv, Notify PROVE IInv'
  OBVIOUS
<1>1. PICK k \in notifying :
        /\ notifying' = notifying \ {k}
        /\ alerts' = [alerts EXCEPT ![k] = @ + 1]
        /\ told' = [told EXCEPT ![k] = @ \cup open[k].kinds]
  BY DEF Notify
<1>2. /\ phase = "handle" /\ phase' = "handle"
      /\ UNCHANGED <<todo, open, dirty, fresh, saved, faults, slipped, patches>>
  BY DEF Notify, env
<1>3. /\ k \in DOMAIN open /\ DOMAIN open \in SUBSET Key /\ DOMAIN saved \in SUBSET Key
      /\ open[k].kinds \in SUBSET Kind
  BY <1>1, StoreElim, IncidentFields DEF IInv, TypeOK
<1>4. /\ alerts'[k] = alerts[k] + 1 /\ told'[k] = open[k].kinds
      /\ \A j \in Key : j # k => alerts'[j] = alerts[j] /\ told'[j] = told[j]
      /\ alerts' \in [Key -> Nat] /\ told' \in [Key -> SUBSET Kind]
  <2>1. told[k] = {} /\ k \in Key
    BY <1>1, <1>3 DEF IInv, Told
  <2>2. alerts'[k] = alerts[k] + 1 /\ alerts' \in [Key -> Nat]
    BY <2>1, <1>1 DEF IInv, TypeOK
  <2>3. told'[k] = open[k].kinds /\ told' \in [Key -> SUBSET Kind]
    BY <2>1, <1>1, <1>3 DEF IInv, TypeOK
  <2>4. \A j \in Key : j # k => alerts'[j] = alerts[j] /\ told'[j] = told[j]
    BY <1>1 DEF IInv, TypeOK
  <2> QED BY <2>2, <2>3, <2>4
<1>5. k \notin fresh /\ (k \in slipped \/ (k \in DOMAIN saved /\ alerts[k] = 0))
  BY <1>1, <1>2 DEF IInv, Handled, Saving, Alerted
<1>6. TypeOK'
  BY <1>1, <1>2, <1>4 DEF IInv, TypeOK
<1>7. SavedListed' /\ Handled' /\ Saving'
  BY <1>1, <1>2 DEF IInv, SavedListed, Handled, Saving
<1>8. Alerted'
  <2>1. AlertedOnce'
    BY <1>2, <1>4, <1>5 DEF IInv, Alerted, AlertedOnce
  <2>2. fresh \in SUBSET Key /\ notifying \in SUBSET Key
    BY <1>3 DEF IInv, TypeOK
  <2>3. \A j \in (fresh' \cup notifying') \ slipped' : alerts'[j] = 0
    BY <2>2, <1>1, <1>2, <1>4, <1>5 DEF IInv, Alerted
  <2>4. \A j \in Key \ (DOMAIN open' \cup slipped') : alerts'[j] = 0
    BY <1>2, <1>3, <1>4 DEF IInv, Alerted
  <2>5. \A j \in Key \ (DOMAIN saved' \cup slipped') : alerts'[j] = 0
    BY <1>2, <1>4, <1>5 DEF IInv, Alerted
  <2> QED BY <2>1, <2>3, <2>4, <2>5 DEF Alerted
<1>9. Told'
  <2>1. NothingUntold'
    BY <1>2, <1>3, <1>4 DEF IInv, Told, NothingUntold
  <2>2. fresh \in SUBSET Key /\ notifying \in SUBSET Key
    BY <1>3 DEF IInv, TypeOK
  <2>3. \A j \in fresh' \cup notifying' : told'[j] = {}
    BY <2>2, <1>1, <1>2, <1>4, <1>5 DEF IInv, Told
  <2>4. \A j \in DOMAIN saved' \ slipped' :
          saved'[j].trigger \in told'[j] => saved'[j].kinds \subseteq told'[j]
    BY <1>2, <1>3, <1>4 DEF IInv, Told
  <2>5. \A j \in (DOMAIN saved' \cap DOMAIN open') \ slipped' :
          saved'[j].trigger = open'[j].trigger /\ saved'[j].kinds \subseteq open'[j].kinds
    BY <1>2 DEF IInv, Told
  <2> QED BY <2>1, <2>3, <2>4, <2>5 DEF Told
<1>10. Marked'
  BY <1>2 DEF IInv, Marked, PatchedOnce
<1> QED BY <1>6, <1>7, <1>8, <1>9, <1>10 DEF IInv

\* Every step keeps it.
LEMMA NextIInv == IInv /\ [Next]_vars => IInv'
<1>1. IInv /\ Next => IInv'
  BY LoadIInv, LoadFailsIInv, CrashIInv, StartSweepIInv, ObserveNewIInv, ObserveKnownIInv,
     ReapIInv, UnchangedIInv, PersistIInv, PersistFailsIInv, LeaveIInv, HandleIInv, NotifyIInv
  DEF Next
<1>2. IInv /\ UNCHANGED vars => IInv'
  BY DEF vars, env, history, IInv, TypeOK, SavedListed, Handled, Saving, Alerted, AlertedOnce,
     Told, NothingUntold, Marked, PatchedOnce
<1> QED BY <1>1, <1>2

\* So it always holds.
LEMMA Invariance == Spec => []IInv
BY InitIInv, NextIInv, PTL DEF Spec

-----------------------------------------------------------------------------
\* Every variable keeps its type, and only open incidents are handled.
THEOREM TypeCorrect == Spec => []TypeOK
<1>1. IInv => TypeOK
  BY DEF IInv
<1> QED BY <1>1, Invariance, PTL

\* However often the process crashes, an incident the ConfigMap is right about is
\* alerted once (agent.go:473).
THEOREM OneAlert == Spec => []AlertedOnce
<1>1. IInv => AlertedOnce
  BY DEF IInv, Alerted
<1> QED BY <1>1, Invariance, PTL

\* A process never patches twice for an incident whose heal it can know of
\* (incident.go:170).
THEOREM OnePatch == Spec => []PatchedOnce
<1>1. IInv => PatchedOnce
  BY DEF IInv, Marked
<1> QED BY <1>1, Invariance, PTL

\* No symptom of an alerted incident is kept from the reader by a restart.
THEOREM AllTold == Spec => []NothingUntold
<1>1. IInv => NothingUntold
  BY DEF IInv, Told
<1> QED BY <1>1, Invariance, PTL
=============================================================================
