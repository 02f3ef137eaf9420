----------------------------- MODULE HealContract -----------------------------
(***************************************************************************)
(* What the heal records promise (internal/heal/store.go, record.go and    *)
(* the README's "Verification and rollback"), without sweeps, handlers,    *)
(* ConfigMap calls or crashes: a heal that has been recorded is not        *)
(* forgotten.  Its record goes only after the verification window, or to a *)
(* later heal of the same workload, and a rollback restores a value the    *)
(* workload really had before the heal.                                    *)
(*                                                                         *)
(* Heals are numbered.  The number of a heal also names the value it       *)
(* wrote; 0 is the value a workload had before any of them.                *)
(***************************************************************************)
EXTENDS Integers, Sequences

CONSTANTS
  Workload,  \* controllers
  NoRecord   \* a workload with no heal awaiting verification

VARIABLES
  target,  \* the workload of each heal so far
  spec,    \* the value each workload is set to
  record,  \* the heal of each workload that awaits verification
  ripe     \* the verification window of the first `ripe` heals has elapsed

vars == <<target, spec, record, ripe>>

\* The values workload w can have had before heal i.
Before(w, i) == {0} \cup {j \in 1 .. i - 1 : target[j] = w}

Init ==
  /\ target = <<>>
  /\ spec = [w \in Workload |-> 0]
  /\ record = [w \in Workload |-> NoRecord]
  /\ ripe = 0

Due(w) == record[w] # NoRecord /\ record[w].id <= ripe

\* A heal lands on the cluster.
Heal(w) ==
  /\ target' = Append(target, w)
  /\ spec' = [spec EXCEPT ![w] = Len(target')]
  /\ UNCHANGED <<record, ripe>>

\* It is recorded, superseding any earlier heal of the workload.
Commit(w) ==
  \E i \in DOMAIN target : \E old \in Before(w, i) :
    /\ target[i] = w
    /\ record[w] # NoRecord => i > record[w].id
    /\ record' = [record EXCEPT ![w] = [id |-> i, old |-> old]]
    /\ UNCHANGED <<target, spec, ripe>>

\* A heal that did not hold is undone.
Undo(w) ==
  /\ Due(w)
  /\ spec' = [spec EXCEPT ![w] = record[w].old]
  /\ UNCHANGED <<target, record, ripe>>

\* A verified or undone heal is settled.
Settle(w) ==
  /\ Due(w)
  /\ record' = [record EXCEPT ![w] = NoRecord]
  /\ UNCHANGED <<target, spec, ripe>>

Ripen ==
  /\ ripe < Len(target)
  /\ ripe' = ripe + 1
  /\ UNCHANGED <<target, spec, record>>

Next ==
  \/ \E w \in Workload : Heal(w) \/ Commit(w) \/ Undo(w) \/ Settle(w)
  \/ Ripen

Spec == Init /\ [][Next]_vars
=============================================================================
