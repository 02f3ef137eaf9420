------------------------------- MODULE Watch --------------------------------
(***************************************************************************)
(* A pod through its life, looked at twice: by the sweep, every interval   *)
(* (Agent.sweep with detect.Pods and predictProblems), and by the watch    *)
(* behind the live view (k8s.WatchPods with live.Transitions), whose       *)
(* informer may miss states in between.                                    *)
(*                                                                         *)
(* The scheduler and the kubelet move the pod.  Times are ages in ticks,   *)
(* which stop counting at MaxAge, beyond every grace period.               *)
(***************************************************************************)
EXTENDS Detection

CONSTANTS
  Options,      \* [minRestarts, restartWindow, notReadyGrace, volumeMountGrace,
                \*  minConsecutive]
  Limited,      \* the forecasts its container can have: resources with a limit
  Mounts,       \* whether the pod mounts a volume that has to be attached
  Waits,        \* why its container may not start
  Failures,     \* why it may fail as a whole: the reasons of its status
  Deaths,       \* how it may end
  MaxAge,       \* bound on ages
  MaxRestarts   \* bound on the restarts of a container

ASSUME WatchAssumption ==
  /\ MaxAge \in Nat /\ MaxRestarts \in Nat /\ Mounts \in BOOLEAN
  /\ Options.minConsecutive \in Nat \ {0} /\ Limited \subseteq Predictive
  /\ \A g \in {"restartWindow", "notReadyGrace", "volumeMountGrace"} :
       Options[g] \in Nat /\ Options[g] < MaxAge
  /\ Options.minRestarts \in Nat
  \* One reason stands for all that mean the same, and none is the condition Ready.
  /\ Waits \subseteq {"ContainerCreating", "PodInitializing", "ImagePullBackOff",
                     "CreateContainerConfigError"}
  /\ Failures \cap {"Ready", "NotReady"} = {}

VARIABLES
  pod,      \* the pod, as the API server has it
  known,    \* the informer's copy of a pod by its name, if any
  same,     \* whether that copy is of this pod, by its UID
  streak,   \* Predictor.prev of its container
  seen,     \* the problems a sweep has just found
  told,     \* history: the last readiness event since the pod appeared
  samples   \* history: what the last sweeps sampled as high

watchVars == <<pod, known, same, streak, seen, told, samples>>

NewPod ==
  [phase |-> "Pending", reason |-> "", placed |-> "unknown", mounts |-> Mounts, since |-> 0,
   ready |-> FALSE, unready |-> 0, cs |-> <<>>]

Created == [waiting |-> "ContainerCreating", dead |-> {}, last |-> {}, restarts |-> 0,
            ready |-> FALSE]

WatchInit ==
  /\ pod = NewPod /\ known = {} /\ same = FALSE
  /\ streak = [k \in Predictive |-> 0] /\ seen = {}
  /\ told = "" /\ samples = [i \in 1..Options.minConsecutive |-> {}]

-----------------------------------------------------------------------------
\* The scheduler, the kubelet and the clock.

Becomes(p) ==
  p # pod /\ pod' = p /\ seen' = {} /\ UNCHANGED <<known, same, streak, told, samples>>

App == pod.cs["app"]
HasApp == pod.cs # <<>>
Up == HasApp /\ App.waiting = "" /\ App.dead = {}

\* The pod with its container in this status: Ready follows the container.
WithStatus(cs) ==
  [pod EXCEPT !.cs = [c \in {"app"} |-> cs], !.ready = cs.ready,
              !.unready = IF cs.ready THEN 0 ELSE @]

Place == \E where \in {"no room", "no volume", "node"} :
  /\ pod.phase = "Pending" /\ pod.placed # "node"
  /\ where = "no volume" => pod.mounts
  /\ Becomes([pod EXCEPT !.placed = where, !.since = 0,
                !.cs = IF where = "node" THEN [c \in {"app"} |-> Created] ELSE <<>>])

\* The container cannot be created, or waits for the pod's init containers, whose own
\* statuses are left out; or it starts.
Pull == \E why \in Waits :
  /\ HasApp /\ pod.phase = "Pending" /\ Becomes(WithStatus([App EXCEPT !.waiting = why]))

Run ==
  /\ HasApp /\ pod.phase = "Pending"
  /\ Becomes([WithStatus([App EXCEPT !.waiting = ""]) EXCEPT
                !.phase = "Running", !.unready = 0, !.since = 0])

Probe == Up /\ Becomes(WithStatus([App EXCEPT !.ready = ~@]))

Die == \E why \in Deaths :
  Up /\ Becomes(WithStatus([App EXCEPT !.dead = {[reason |-> why, ago |-> 0]}, !.ready = FALSE]))

BackOff ==
  /\ HasApp /\ App.dead # {}
  /\ Becomes(WithStatus([App EXCEPT !.waiting = "CrashLoopBackOff", !.last = App.dead, !.dead = {}]))

Restart ==
  /\ HasApp /\ App.restarts < MaxRestarts
  /\ App.dead # {} \/ App.waiting = "CrashLoopBackOff"
  /\ Becomes(WithStatus([App EXCEPT !.waiting = "", !.last = Terminated(App), !.dead = {},
                     !.restarts = @ + 1]))

\* The record of the last termination is lost, the number of restarts is not.
Collected == Up /\ Becomes(WithStatus([App EXCEPT !.last = {}]))

\* The kubelet evicts the pod, does not admit it, or shuts down with it.
Fail == \E why \in Failures :
  /\ pod.phase = "Running" \/ (pod.phase = "Pending" /\ pod.placed = "node")
  /\ Becomes([pod EXCEPT !.phase = "Failed", !.reason = why, !.ready = FALSE, !.unready = 0,
                         !.since = 0, !.cs = <<>>])

\* The pod is deleted, and another one takes its name.
Replace ==
  /\ pod' = NewPod /\ same' = FALSE /\ seen' = {} /\ UNCHANGED <<known, streak, told, samples>>

Aged(n) == IF n < MaxAge THEN n + 1 ELSE n
ClockTick == Becomes(
  [pod EXCEPT !.since = IF pod.placed = "node" /\ pod.phase = "Pending" THEN Aged(@) ELSE @,
     !.unready = IF pod.phase = "Running" /\ ~pod.ready THEN Aged(@) ELSE @,
     !.cs = [c \in DOMAIN pod.cs |-> [pod.cs[c] EXCEPT
               !.last = {[d EXCEPT !.ago = Aged(@)] : d \in pod.cs[c].last},
               !.dead = {[d EXCEPT !.ago = Aged(@)] : d \in pod.cs[c].dead}]]])

-----------------------------------------------------------------------------
\* A sweep: the failures of the pod, and the forecasts from the usage samples of
\* a running container, if they can be read.
Sweep == \E high \in IF Up THEN SUBSET Limited ELSE {{}} :
  /\ streak' = [k \in Predictive |-> Streak(streak[k], k \in high, Options)]
  /\ seen' = PodProblems(pod, Options)
               \cup Predicted("app", streak', PodProblems(pod, Options), Options)
  /\ samples' = Tail(samples) \o <<high>>
  /\ UNCHANGED <<pod, known, same, told>>

\* What Transitions compares of a pod.
Look(p) ==
  [phase |-> p.phase, reason |-> p.reason, ready |-> p.ready,
   cs |-> [c \in DOMAIN p.cs |->
     [waiting |-> p.cs[c].waiting, restarts |-> p.cs[c].restarts,
      last |-> {d.reason : d \in p.cs[c].last} \cap {"OOMKilled"}]]]

\* The informer delivers the pod as it is now: as new, as changed, or as gone when
\* another pod has its name.
Notify(cur) ==
  LET events == Transitions(known, cur)
      flips == {e.reason : e \in events} \cap {"Ready", "NotReady"}
  IN /\ known' = cur /\ seen' = {}
     /\ IF cur = {} THEN told' = ""
        ELSE IF flips = {} THEN told' = told
        ELSE told' \in flips
     /\ UNCHANGED <<pod, streak, samples>>

Deliver == ~(same /\ known = {Look(pod)}) /\ same' = TRUE /\ Notify({Look(pod)})
DeliverGone == known # {} /\ ~same /\ same' = FALSE /\ Notify({})

Kubelet ==
  Place \/ Pull \/ Run \/ Probe \/ Die \/ BackOff \/ Restart \/ Collected \/ Fail \/ Replace
WatchNext == Kubelet \/ ClockTick \/ Sweep \/ Deliver \/ DeliverGone

\* Time passes, and the agent sweeps at its interval.
WatchSpec == WatchInit /\ [][WatchNext]_watchVars /\ WF_watchVars(ClockTick) /\ WF_watchVars(Sweep)

-----------------------------------------------------------------------------
Abnormal(ds) == \E d \in ds : d.reason # "Completed"

\* Broken as an operator would say it: the pod has no node, hangs on a volume, is
\* evicted, has been up without being ready for longer than the grace period, or
\* has a container that died and has not come back or that keeps dying.  The last
\* and the volume are looked for unless that is switched off (by 0).  Two things an
\* operator might add are never found, and are not asked for here: a pod that failed
\* for another reason than eviction, and one that hangs on a volume with the reason
\* PodInitializing, which the kubelet gives it if it has init containers.
Broken ==
  \/ pod.phase = "Pending" /\ pod.placed \in {"no room", "no volume"}
  \/ pod.phase = "Failed" /\ pod.reason = "Evicted"
  \/ pod.phase = "Running" /\ ~pod.ready /\ pod.unready > Options.notReadyGrace
  \/ HasApp /\ App.dead = {} /\ ~App.ready /\ Abnormal(App.last)
  \/ HasApp /\ Options.minRestarts > 0 /\ App.restarts >= Options.minRestarts
       /\ \E d \in App.last : d.ago <= Options.restartWindow
  \/ pod.phase = "Pending" /\ pod.mounts /\ HasApp
       /\ App.waiting \notin {"", "PodInitializing"}
       /\ Options.volumeMountGrace > 0 /\ pod.since > Options.volumeMountGrace

(***************************************************************************)
(* A pod that is broken in one of these ways has a problem in a sweep that *)
(* looks at it, whatever else its history has left in its status           *)
(* (detect.pod).                                                           *)
(***************************************************************************)
BrokenIsFound == Broken => PodProblems(pod, Options) # {}

(***************************************************************************)
(* A forecast rests on consecutive sweeps that all sampled high usage, and *)
(* never stands beside a failure of the same container (Predictor.Observe, *)
(* predictProblems).                                                       *)
(***************************************************************************)
ForecastsSustained == \A x \in seen : x.kind \in Predictive =>
  /\ \A i \in DOMAIN samples : x.kind \in samples[i]
  /\ \A y \in seen : y.container = x.container => y.kind \in Predictive

(***************************************************************************)
(* The live view's last word on a pod's readiness is right as of the       *)
(* informer's copy, whatever states the watch missed and although a pod    *)
(* may be replaced under its name (live.Transitions, WatchPods).           *)
(***************************************************************************)
ReadinessTold ==
  \A k \in known : told # "" => (told = "Ready") = k.ready

(***************************************************************************)
(* A pod that runs and never gets ready again is reported by the sweeps    *)
(* from some time on, whatever its containers do meanwhile.                *)
(***************************************************************************)
OutageReported == <>[](pod.phase = "Running" /\ ~pod.ready) => []<>(seen # {})

=============================================================================
