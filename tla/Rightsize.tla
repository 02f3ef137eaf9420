----------------------------- MODULE Rightsize ------------------------------
(***************************************************************************)
(* The sizing report: internal/rightsize's Tracker, which accumulates what *)
(* each container uses over days, its Findings, and the agent's part       *)
(* (agent/rightsizing.go): sampling at every sweep, saving the history in  *)
(* a ConfigMap and restoring it after a restart.                           *)
(*                                                                         *)
(* One resource is modelled: CPU and memory are judged alike, each with    *)
(* its own rounding step and smallest saving.  A history is a function     *)
(* from the tracked containers to records [samples, peak, request, window, *)
(* idle, most]: "window" is the time from the first to the last sample,    *)
(* "idle" the time since the last one, and "most", which the code has not, *)
(* the highest usage folded in.                                            *)
(***************************************************************************)
EXTENDS Integers, Sequences, FiniteSets

CONSTANTS
  Pods,        \* the pods in list order, each by its workload's container
  Unowned,     \* stands for the pods without a controller
  Usages,      \* what a container may use
  Requests,    \* what manifests declare
  MaxTracked, MinSamples, MinWindow,
  Headroom,    \* factor on the peak, as a fraction <<numerator, denominator>>
  OverRatio,   \* share of the request below which it is too large, likewise
  Step,        \* recommendations are multiples of this
  MinSaving

Containers == {Pods[i] : i \in DOMAIN Pods} \ {Unowned}

ASSUME RightsizeAssumption ==
  /\ Len(Pods) \in Nat /\ DOMAIN Pods = 1 .. Len(Pods)
  /\ Usages \subseteq Nat /\ Requests \subseteq Nat
  /\ {MaxTracked, MinSamples, MinWindow, Step} \subseteq Nat \ {0} /\ MinSaving \in Nat
  /\ {Headroom, OverRatio} \subseteq Nat \X (Nat \ {0})
  /\ Headroom[1] >= Headroom[2]   \* withDefaults

VARIABLES
  obs,       \* Tracker.obs
  dirty,     \* Tracker.dirty
  stored,    \* the ConfigMap
  spec,      \* what each container's manifest requests now
  phase,     \* "idle", "sweep" while a sweep folds its samples in, or "down"
  read,      \* the pods whose usage the sweep could read
  todo       \* those among them not folded in yet

vars == <<obs, dirty, stored, spec, phase, read, todo>>

-----------------------------------------------------------------------------
\* Findings.

\* Mutant: down.
RoundDown(v) == (v \div Step) * Step

RoundUp(v) == ((v + Step - 1) \div Step) * Step

Scaled(v) == (v * Headroom[1]) \div Headroom[2]

Recommended(peak) == RoundUp(Scaled(peak))

Finding(kind, o) == [kind |-> kind, recommended |-> Recommended(o.peak),
                     delta |-> Recommended(o.peak) - o.request]

Oversized(o) ==
  /\ o.request > 0 /\ o.peak * OverRatio[2] < o.request * OverRatio[1]
  /\ Recommended(o.peak) < o.request
  /\ o.request - Recommended(o.peak) >= MinSaving

Judge(o) ==
  CASE o.request = 0 -> {Finding("NoRequests", o)}
    [] o.request > 0 /\ o.peak > o.request -> {Finding("Undersized", o)}
    [] Oversized(o) -> {Finding("Oversized", o)}
    [] OTHER -> {}

Evidence(o) == o.samples >= MinSamples /\ o.window >= MinWindow

Findings(h) == UNION {{[container |-> c, finding |-> f] : f \in Judge(h[c])} :
                      c \in {x \in DOMAIN h : Evidence(h[x])}}

-----------------------------------------------------------------------------
\* The history.

Limit(n, m) == IF n < m THEN n ELSE m
Higher(n, m) == IF n < m THEN m ELSE n
Fresh == [samples |-> 0, peak |-> 0, request |-> 0, window |-> 0, idle |-> 0, most |-> 0]

\* Mutant: an edited manifest starts the measurement over.
AddedAnew(o, s) ==
  [samples |-> Limit(o.samples + 1, MinSamples),
   peak |-> IF s.used > o.peak \/ s.request # o.request THEN s.used ELSE o.peak,
   request |-> s.request, window |-> Limit(o.window + o.idle, MinWindow), idle |-> 0,
   most |-> Higher(o.most, s.used)]

\* Mutant: the time of the last sample is set only for the first.
AddedLate(o, s) ==
  [AddedAnew(o, s) EXCEPT !.peak = Higher(o.peak, s.used), !.window = o.window, !.idle = o.idle]

\* One sample folded in; counts and windows beyond the thresholds make no
\* difference.
Added(o, s) ==
  [samples |-> Limit(o.samples + 1, MinSamples),
   peak |-> Higher(o.peak, s.used),
   request |-> s.request, window |-> Limit(o.window + o.idle, MinWindow), idle |-> 0,
   most |-> Higher(o.most, s.used)]

Without(h, c) == [x \in DOMAIN h \ {c} |-> h[x]]
With(h, c, o) == [x \in DOMAIN h \cup {c} |-> IF x = c THEN o ELSE h[x]]

Stalest(h) == {c \in DOMAIN h : \A d \in DOMAIN h : h[d].idle <= h[c].idle}

\* The histories after making room; which of several equally stale containers
\* goes is left to the iteration order of a map.
RoomMade(h) ==
  IF Cardinality(DOMAIN h) < MaxTracked THEN {h} ELSE {Without(h, c) : c \in Stalest(h)}

Observed(h, c, s) ==
  IF c \in DOMAIN h THEN {With(h, c, Added(h[c], s))}
  ELSE {With(g, c, Added(Fresh, s)) : g \in RoomMade(h)}

Forget(h) == [c \in {x \in DOMAIN h : h[x].idle <= 2 * MinWindow} |-> h[c]]

-----------------------------------------------------------------------------
\* The agent.

Init ==
  /\ obs = <<>> /\ stored = <<>> /\ dirty = FALSE /\ phase = "idle"
  /\ spec \in [Containers -> Requests] /\ read = {} /\ todo = {}

\* The sweep has listed the pods and read the usage of some of them.
StartSweep ==
  /\ phase = "idle" /\ phase' = "sweep"
  /\ read' \in SUBSET (DOMAIN Pods) /\ todo' = read'
  /\ UNCHANGED <<obs, dirty, stored, spec>>

\* The next sample, in the order of the list.
Observe == \E i \in todo : \E used \in Usages :
  /\ phase = "sweep" /\ \A j \in todo : i <= j
  /\ todo' = todo \ {i} /\ dirty' = TRUE
  /\ IF Pods[i] = Unowned THEN obs' = obs
     ELSE obs' \in Observed(obs, Pods[i], [used |-> used, request |-> spec[Pods[i]]])
  /\ UNCHANGED <<stored, spec, phase, read>>

\* What has long been gone is forgotten, and the history is saved when it changed;
\* the write may fail.
Persist ==
  /\ phase = "sweep" /\ todo = {} /\ phase' = "idle"
  /\ obs' = IF read = {} THEN obs ELSE Forget(obs)
  /\ \/ dirty' = FALSE /\ stored' = IF dirty THEN obs' ELSE stored
     \/ dirty' = dirty /\ stored' = stored
  /\ UNCHANGED <<spec, read, todo>>

Crash ==
  /\ phase # "down" /\ phase' = "down" /\ obs' = <<>> /\ dirty' = FALSE
  /\ read' = {} /\ todo' = {} /\ UNCHANGED <<stored, spec>>

\* The history is read back; when that fails the agent goes on without.
Load ==
  /\ phase = "down" /\ phase' = "idle" /\ obs' \in {stored, <<>>}
  /\ UNCHANGED <<dirty, stored, spec, read, todo>>

\* Time passes between sweeps; beyond the time a history is kept, it makes no
\* difference.
Older(h) == [c \in DOMAIN h |-> [h[c] EXCEPT !.idle = Limit(@ + 1, 2 * MinWindow + 1)]]
Tick ==
  /\ phase # "sweep" /\ <<Older(obs), Older(stored)>> # <<obs, stored>>
  /\ obs' = Older(obs) /\ stored' = Older(stored)
  /\ UNCHANGED <<dirty, spec, phase, read, todo>>

\* Someone edits a manifest, to what the report says or otherwise; a sweep that
\* has listed the pods does not see it.
Edit == \E c \in Containers :
  /\ phase # "sweep"
  /\ \E r \in Requests \cup {x.finding.recommended : x \in {y \in Findings(obs) : y.container = c}} :
       r # spec[c] /\ spec' = [spec EXCEPT ![c] = r]
  /\ UNCHANGED <<obs, dirty, stored, phase, read, todo>>

Next == StartSweep \/ Observe \/ Persist \/ Crash \/ Load \/ Tick \/ Edit

\* The agent sweeps at its interval, time passes between the sweeps, and it is
\* started again after a crash.
Spec == Init /\ [][Next]_vars /\ WF_vars(StartSweep) /\ WF_vars(Observe)
             /\ WF_vars(Persist) /\ WF_vars(Load) /\ SF_vars(Tick)

-----------------------------------------------------------------------------
Advice == Requests \cup {Recommended(u) : u \in Usages}

Observation == [samples : 1..MinSamples, peak : Usages, request : Advice,
                window : 0..MinWindow, idle : 0..(2 * MinWindow + 1), most : Usages]

History(h) ==
  /\ DOMAIN h \subseteq Containers /\ Cardinality(DOMAIN h) <= MaxTracked
  /\ \A c \in DOMAIN h : h[c] \in Observation

\* The histories are well formed and within their bound (New, Observe).
TypeOK ==
  /\ History(obs) /\ History(stored)
  /\ dirty \in BOOLEAN /\ spec \in [Containers -> Advice]
  /\ phase \in {"idle", "sweep", "down"} /\ todo \subseteq read /\ read \subseteq DOMAIN Pods

(***************************************************************************)
(* Taking the advice settles the matter: a container whose manifest        *)
(* requests what the report recommended, and whose usage stays within the  *)
(* peak it was judged on, is not reported again with another value.  Only  *)
(* a recommendation of nothing is repeated (judge).                        *)
(***************************************************************************)
AdviceSettles ==
  \A x \in Findings(obs) :
    LET r == x.finding.recommended
    IN r > 0 => Judge([obs[x.container] EXCEPT !.request = r]) = {}

(***************************************************************************)
(* No recommendation is below a usage the container has been seen to have  *)
(* as long as its history was kept, whatever was edited, saved, lost and   *)
(* restored in between (Observe, Persist, Restore).                        *)
(***************************************************************************)
AdviceCoversUsage ==
  \A x \in Findings(obs) : x.finding.recommended >= obs[x.container].most

(***************************************************************************)
(* The report fills: containers that every sweep has usage of, and that    *)
(* together fit the history, are judged from some time on, although others *)
(* took their room before and restarts lost part of the history.  (With    *)
(* one container more than fit, none may ever be judged.)                  *)
(***************************************************************************)
ReportFills ==
  \A S \in SUBSET Containers : Cardinality(S) <= MaxTracked /\ S # {} =>
    (<>[](phase # "down" /\ {Pods[i] : i \in read} \ {Unowned} = S)
       => \A c \in S : <>[](c \in DOMAIN obs /\ Evidence(obs[c])))

=============================================================================
