---------------------------- MODULE MCScheduler ----------------------------
(* One tenant that drafts and posts, and one whose calls always fail and   *)
(* whose row a stays due.  Three beginnings keep apart what the tick keeps *)
(* apart: leases and intents to recover, recoveries to post, and a day to  *)
(* fill.  Every step of Next may follow each of them.                      *)
EXTENDS Scheduler

CONSTANTS w1, t1, t2, a, b, c, e, l1, l2, l3, i1, i2

MCOwner == [r \in Row |-> IF r = a THEN t2 ELSE t1]

Statuses(ofB, ofC, ofE) == row = (a :> "ready" @@ b :> ofB @@ c :> ofC @@ e :> ofE)

ToRecover ==
    /\ held = Lease /\ stale \in SetToSeqs(Intent)
    /\ down \in {{}, {"publications"}, {"jobs"}}
    /\ Statuses("skipped", "skipped", "skipped")
    /\ work = [t \in Tenant |-> "nothing"]
    /\ fetchDue = {} /\ round = [t \in Tenant |-> LastRound]

ToPost ==
    /\ held = {} /\ stale = <<>> /\ down \in {{}, {"fill"}}
    /\ Statuses("ready", "skipped", "ready")
    /\ work = [t \in Tenant |-> "nothing"]
    /\ fetchDue = {t2} /\ round = [t \in Tenant |-> LastRound]

ToFill ==
    /\ held = {} /\ stale = <<>> /\ down \in {{}, {"fetch"}}
    /\ Statuses("skipped", "none", "skipped")
    /\ \/ work = [t \in Tenant |-> "angles"] /\ fetchDue = Tenant
       \/ work = (t1 :> "nothing" @@ t2 :> "angles") /\ fetchDue = {t2}
    /\ round = [t \in Tenant |-> 0]

MCInit ==
    /\ ToRecover \/ ToPost \/ ToFill
    /\ at = [r \in Row |-> IF r \in {c, e} THEN 2 ELSE 1]
    /\ Init

MCSpec == MCInit /\ [][Next]_vars /\ Fairness
============================================================================
