----------------------------- MODULE Detection ------------------------------
(***************************************************************************)
(* What is wrong with a pod, read off its status: internal/detect for the  *)
(* failures, internal/predict for the forecasts, and internal/live's       *)
(* Transitions for what changed between two looks at the same pod.         *)
(*                                                                         *)
(* A pod is a record [phase, reason, placed, mounts, since, ready,         *)
(* unready, cs]: "reason" is why a failed pod failed, if the kubelet says, *)
(* "placed" is the PodScheduled condition, "since" and "unready" are the   *)
(* times since the pod was placed and since it lost its Ready condition,   *)
(* and "cs" gives the status of each container the kubelet has reported:   *)
(* [waiting, dead, last, restarts, ready], where "dead" and "last" hold    *)
(* the current and the last termination, if there is one.                  *)
(***************************************************************************)
EXTENDS Integers, Sequences

Predictive == {"MemoryPressure", "CPUPressure"}

-----------------------------------------------------------------------------
\* Containers.

\* The most recent termination; it is historical unless it is the current state.
Terminated(cs) == IF cs.dead # {} THEN cs.dead ELSE cs.last
Historical(cs) == cs.dead = {}

DeathKind(d) == IF d.reason = "OOMKilled" THEN "OOMKilled" ELSE "ContainerError"

\* A past termination counts only while the container is not ready.
Died(cs) ==
  {DeathKind(d) : d \in {x \in Terminated(cs) :
     x.reason # "Completed" /\ ~(Historical(cs) /\ cs.ready)}}

WaitingKind(reason) ==
  CASE reason = "CrashLoopBackOff" -> {"CrashLoopBackOff"}
    [] reason = "ImagePullBackOff" -> {"ImagePullBackOff"}
    [] reason = "CreateContainerConfigError" -> {"CreateContainerError"}
    [] OTHER -> {}

RestartedRecently(cs, o) ==
  o.restartWindow = 0 \/ \E d \in cs.last : d.ago <= o.restartWindow

\* Up now, but flapping.
Storm(cs, o) ==
  /\ o.minRestarts > 0 /\ cs.restarts >= o.minRestarts
  /\ RestartedRecently(cs, o)

ContainerKinds(cs, o) ==
  LET acute == Died(cs) \cup WaitingKind(cs.waiting)
  IN IF acute = {} /\ Storm(cs, o) THEN {"RestartStorm"} ELSE acute

-----------------------------------------------------------------------------
\* Pods.  A problem of the pod itself has no container.

Problem(c, kinds) == {[container |-> c, kind |-> k] : k \in kinds}

\* Of the pods that failed, only the evicted ones.
Evicted(p) == p.phase = "Failed" /\ p.reason = "Evicted"

\* A volume that will not bind is told from too little room by the scheduler's
\* message.
Unplaced(p) ==
  IF p.phase # "Pending" THEN {}
  ELSE CASE p.placed = "no room" -> {"Unschedulable"}
         [] p.placed = "no volume" -> {"PVCPending"}
         [] OTHER -> {}

VolumeMountStuck(p, o) ==
  /\ p.phase = "Pending" /\ p.placed = "node"
  /\ o.volumeMountGrace > 0 /\ p.mounts
  /\ \E c \in DOMAIN p.cs : p.cs[c].waiting = "ContainerCreating"
  /\ p.since > o.volumeMountGrace

Acute(p, o) ==
  Problem("", (IF Evicted(p) THEN {"Evicted"} ELSE {}) \cup Unplaced(p)
                \cup (IF VolumeMountStuck(p, o) THEN {"VolumeMountFailed"} ELSE {}))
    \cup UNION {Problem(c, ContainerKinds(p.cs[c], o)) : c \in DOMAIN p.cs}

\* Mutant: only a pod whose containers never restarted is found not ready.
NotReadyFresh(p, o) ==
  /\ p.phase = "Running" /\ ~p.ready /\ p.unready > o.notReadyGrace
  /\ \A c \in DOMAIN p.cs : p.cs[c].restarts = 0

NotReady(p, o) == p.phase = "Running" /\ ~p.ready /\ p.unready > o.notReadyGrace

PodProblems(p, o) ==
  IF Acute(p, o) = {} /\ NotReady(p, o) THEN Problem("", {"NotReady"}) ELSE Acute(p, o)

-----------------------------------------------------------------------------
\* Forecasts.

\* Mutant: a sweep without high usage keeps the streak.
StreakKept(n, high, o) == IF high /\ n < o.minConsecutive THEN n + 1 ELSE n

\* A streak of sweeps with usage near the limit.  Observe counts on: a count beyond
\* the threshold makes no difference, and is a bound of the model.
Streak(n, high, o) ==
  IF ~high THEN 0 ELSE IF n < o.minConsecutive THEN n + 1 ELSE n

\* The forecasts for a container that has no real problem.
Predicted(c, streaks, real, o) ==
  IF \E x \in real : x.container = c THEN {}
  ELSE Problem(c, {k \in Predictive : streaks[k] >= o.minConsecutive})

-----------------------------------------------------------------------------
\* Changes between two looks at a pod, as the events of the live view; at most one
\* of them is about its readiness, so their order tells nothing here.

Event(class, reason) == {[class |-> class, reason |-> reason]}

\* A restart is named for what ended the last instance, when that is known.
RestartEvents(old, cur) ==
  UNION {IF "OOMKilled" \in cur.cs[c].last THEN Event("problem", "OOMKilled")
         ELSE Event("restart", "Restarted") :
         c \in {x \in DOMAIN cur.cs \cap DOMAIN old.cs : cur.cs[x].restarts > old.cs[x].restarts}}

\* Mutant: readiness counts only when nothing restarted.
ReadinessCalm(old, cur) ==
  IF RestartEvents(old, cur) # {} \/ old.ready = cur.ready THEN {}
  ELSE IF cur.ready THEN Event("recovery", "Ready") ELSE Event("problem", "NotReady")

ReadinessEvents(old, cur) ==
  IF old.ready = cur.ready THEN {}
  ELSE IF cur.ready THEN Event("recovery", "Ready") ELSE Event("problem", "NotReady")

Notable(reason) == reason \notin {"", "ContainerCreating", "PodInitializing"}

WaitingEvents(old, cur) ==
  LET before(c) == IF c \in DOMAIN old.cs THEN old.cs[c].waiting ELSE ""
      new == {c \in DOMAIN cur.cs : Notable(cur.cs[c].waiting) /\ cur.cs[c].waiting # before(c)}
  IN UNION {Event("problem", cur.cs[c].waiting) : c \in new}

FailedEvents(old, cur) ==
  IF cur.phase = "Failed" /\ old.phase # "Failed"
    THEN Event("problem", IF cur.reason = "" THEN "Failed" ELSE cur.reason) ELSE {}

\* old and cur are sets of at most one pod, whose "last" names the reasons alone.
Transitions(old, cur) ==
  IF old # {} /\ cur = {} THEN Event("gone", "Deleted")
  ELSE UNION {RestartEvents(o, c) \cup ReadinessEvents(o, c)
                \cup WaitingEvents(o, c) \cup FailedEvents(o, c) : o \in old, c \in cur}
=============================================================================
