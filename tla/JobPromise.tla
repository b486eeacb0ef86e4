----------------------------- MODULE JobPromise -----------------------------
(***************************************************************************)
(* What the job table and its workers promise about one operation, without *)
(* naming ticks, claims or calls: it is executed once or given up once,    *)
(* it ends once, an execution that is still in possession ends it itself   *)
(* and is then silent, and one that has been dispossessed starts no more   *)
(* external effects than one assertion of its ownership may let go.        *)
(***************************************************************************)
EXTENDS Naturals

CONSTANT Stretch     \* the most effects between two assertions

VARIABLES
    phase,   \* where the operation is
    late     \* external effects started after the execution lost possession

vars == <<phase, late>>

Init == phase = "absent" /\ late = 0

Enqueue    == phase = "absent"    /\ phase' = "queued"     /\ UNCHANGED late
Start      == phase = "queued"    /\ phase' = "executing"  /\ UNCHANGED late
Dispossess == phase = "executing" /\ phase' = "orphaned"   /\ UNCHANGED late
End        == phase = "executing" /\ phase' = "executed"   /\ UNCHANGED late
Reconcile  == phase = "orphaned"  /\ phase' = "reconciled" /\ UNCHANGED late

LateEffect ==
    /\ phase \in {"orphaned", "reconciled"} /\ late < Stretch
    /\ late' = late + 1 /\ UNCHANGED phase

Next == Enqueue \/ Start \/ Dispossess \/ End \/ Reconcile \/ LateEffect

Spec == Init /\ [][Next]_vars
============================================================================
