---------------------------- MODULE MCPublication ----------------------------
(***************************************************************************)
(* Publication for TLC.  Executions are interchangeable.  The view merges  *)
(* states that differ only in what no later step looks at:                 *)
(*   - copies of calls that nobody waits for and that no later state of    *)
(*     the rows accepts with an effect: such a copy behaves as if lost;    *)
(*   - once there is an attempt, whose claim it came from and which fence  *)
(*     the calls and snapshots of claims carry: no call on a claim is      *)
(*     accepted any more;                                                  *)
(*   - the age of an attempt that is settled, and the lease of a claim     *)
(*     whose holder is past its preflight.                                 *)
(***************************************************************************)
EXTENDS Publication, TLC

Symmetry == Permutations(Cleared)

Matters(r) ==
    \/ Waits(r)
    \/ r.kind = "claim" /\ attempt.op = None
    \/ r.kind \in {"release", "begin"} /\ attempt.op = None /\ r.ver = intent.ver
    \/ r.kind \in {"accept", "reject", "unknown"} /\ Replay(r) /\ attempt.state = "dispatching"
    \/ r.kind = "resolve" /\ Replay(r) /\ attempt.state \in {"dispatching", "unknown"}

Dispatched == attempt.op # None
Unfenced(x) == IF Dispatched THEN [x EXCEPT !.ver = 0] ELSE x
Aged(a) == [a EXCEPT !.stale = @ /\ a.state = "dispatching"]
ViewedRow(p) == Unfenced([row[p] EXCEPT !.live = @ /\ pc[p] = "prepare"])
ViewedRead(p) ==
    [rd[p] EXCEPT !.attempt = Aged(@), !.intent = IF Dispatched THEN [@ EXCEPT !.ver = 0, !.token = None] ELSE @]

View == <<IF Dispatched THEN intent.state ELSE intent, Aged(attempt), {Unfenced(r) : r \in {x \in net : Matters(x)}},
          pc, [p \in Proc |-> ViewedRead(p)], [p \in Proc |-> ViewedRow(p)], try, outcome, providerVars, angle>>
============================================================================
