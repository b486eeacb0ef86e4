---------------------------- MODULE MCAgentJobs ----------------------------
(***************************************************************************)
(* AgentJobs for TLC.  Ticks are interchangeable, and so are operations    *)
(* where they are all scheduled or all not.  The view merges states that   *)
(* differ only in copies of calls that nobody waits for and that no later  *)
(* row accepts with an effect: such a copy behaves as if it had been lost. *)
(***************************************************************************)
EXTENDS AgentJobs, TLC

Symmetry == Permutations(Tick) \cup Permutations(Op)

Matters(r) ==
    \/ \E p \in Tick : Waits(p, r)
    \/ r.kind = "claim" /\ r.mode = "execute" /\ job[r.op].state = "pending"
    \/ r.kind = "claim" /\ r.mode = "reconcile" /\ ~Ended(r.op) /\ job[r.op].ver = r.ver
    \/ r.kind = "finish" /\ ~Ended(r.op) /\ job[r.op].live
       /\ job[r.op].token = r.token /\ job[r.op].ver = r.ver

View == <<job, latest, shown, {r \in net : Matters(r)}, me, ghostVars>>
============================================================================
