------------------------- MODULE PublicationPromise -------------------------
(***************************************************************************)
(* What the publication ledger and its executor promise about one queue    *)
(* item, without naming executions, calls or leases: a dispatch is put on  *)
(* record before the provider can act on it, there is at most one post,    *)
(* and a settled record tells the truth about that post for ever after.    *)
(***************************************************************************)

VARIABLES
    phase,   \* what the record says
    live     \* does the post exist at the provider?

vars == <<phase, live>>

Phase == {"open", "dispatched", "unknown", "published", "refused"}
InDoubt == {"dispatched", "unknown"}

TypeOK == phase \in Phase /\ live \in BOOLEAN

Init == phase = "open" /\ live = FALSE

Dispatch == phase = "open" /\ phase' = "dispatched" /\ UNCHANGED live

\* The provider may act late, when the record already says unknown.
Post == phase \in InDoubt /\ ~live /\ live' = TRUE /\ UNCHANGED phase

Doubt == phase = "dispatched" /\ phase' = "unknown" /\ UNCHANGED live

Publish == phase \in InDoubt /\ live /\ phase' = "published" /\ UNCHANGED live

Refuse == phase = "dispatched" /\ ~live /\ phase' = "refused" /\ UNCHANGED live

Next == Dispatch \/ Post \/ Doubt \/ Publish \/ Refuse

Spec == Init /\ [][Next]_vars
============================================================================
