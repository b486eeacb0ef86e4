------------------------------ MODULE JobTable ------------------------------
(***************************************************************************)
(* The agent_jobs table as src/agent-jobs.ts sees it: one row per durable  *)
(* operation, the projection of the newest scheduled job that the tenant   *)
(* is shown, and the stored procedures enqueue, claim, renew and finish.   *)
(* The procedures belong to the database project; what they do is taken    *)
(* from their callers and from test/agent-jobs-database.integration.ts.    *)
(***************************************************************************)
EXTENDS Naturals, FiniteSets

CONSTANTS
    Tick,        \* worker ticks that may overlap; a tick handles one job at a time
    Op,          \* operation keys
    OneRow,      \* the operations about one and the same queue row
    Scheduled,   \* operations enqueued by the scheduler
    None,        \* SQL NULL
    Stray,       \* the token of a claim whose caller has stopped waiting
    Tries,       \* attempts of a retry-safe RPC (3 in fetchSupabase)
    MaxVer       \* bound: the claim of this version meets no further fault

ASSUME TableAssumption ==
    /\ Scheduled \subseteq Op /\ OneRow \subseteq Op
    /\ None \notin Tick \cup Op /\ Stray \notin Tick \cup {None}
    /\ Tries \in Nat \ {0}
    /\ MaxVer \in Nat

VARIABLES
    job,         \* agent_jobs: operation -> row
    latest,      \* user_settings.last_scheduled_job_id
    shown,       \* user_settings.last_automation_result
    net          \* copies of claim and finish calls on the wire

tableVars == <<job, latest, shown>>

----------------------------------------------------------------------------
(* Rows and messages *)

\* What finishAgentJob may record; "blocked" is the result of failJob.
Verdict == {"completed", "failed", "blocked"}
Mode == {"none", "execute", "reconcile"}
Token == Tick \cup {None, Stray}

JobRow == [state : {"absent", "pending", "running"} \cup Verdict,
           token : Token,
           ver   : Nat,        \* claim_version
           mode  : Mode,       \* claim_mode
           live  : BOOLEAN]    \* claim_expires_at is ahead

Absent == [state |-> "absent", token |-> None, ver |-> 0, mode |-> "none", live |-> FALSE]

Ended(k) == job[k].state \in Verdict

\* ver is the expected version of a recovery claim, or the version that finishes.
Request == [kind : {"claim", "finish"}, op : Op, token : Token, ver : Nat,
            mode : Mode, verdict : Verdict \cup {"none"}, try : 1..Tries]

----------------------------------------------------------------------------
(* The stored procedures *)

\* Slip, for the runs to catch: a fence that looks at the version alone.
HoldsVersion(k, token, ver) == job[k].state = "running" /\ job[k].live /\ job[k].ver = ver

\* Slip: a fence that has forgotten state and lease.
HoldsForever(k, token, ver) == job[k].token = token /\ job[k].ver = ver

\* renew_agent_job answers this, and extends the lease if so.
Holds(k, token, ver) ==
    /\ job[k].state = "running" /\ job[k].live
    /\ job[k].token = token /\ job[k].ver = ver

\* The claim has been granted to this very token already.
Granted(r) ==
    /\ Holds(r.op, r.token, IF r.mode = "execute" THEN 1 ELSE r.ver + 1)
    /\ job[r.op].mode = r.mode

\* An execution claim takes a pending job only, a recovery claim only the
\* expired lease it was shown.
Free(r) ==
    \/ r.mode = "execute" /\ job[r.op].state = "pending"
    \/ /\ r.mode = "reconcile"
       /\ job[r.op].state = "running" /\ ~job[r.op].live /\ job[r.op].ver = r.ver

\* The identical outcome is on record already.
Repeated(r) ==
    LET row == job[r.op] IN
    row.state = r.verdict /\ row.token = r.token /\ row.ver = r.ver

Accepts(r) ==
    \/ r.kind = "claim"  /\ (Granted(r) \/ Free(r))
    \/ r.kind = "finish" /\ (Holds(r.op, r.token, r.ver) \/ Repeated(r))

Claim(r) ==
    /\ job' = [job EXCEPT ![r.op] = [state |-> "running", token |-> r.token,
                                     ver |-> @.ver + 1, mode |-> r.mode, live |-> TRUE]]
    /\ UNCHANGED <<latest, shown>>

\* Slip: whichever job ends last is shown.
FinishShows(r) ==
    /\ job' = [job EXCEPT ![r.op].state = r.verdict, ![r.op].live = FALSE]
    /\ shown' = IF r.op \in Scheduled THEN r.verdict ELSE shown
    /\ UNCHANGED latest

\* The projection commits with the outcome, unless a newer job owns it.
Finish(r) ==
    /\ job' = [job EXCEPT ![r.op].state = r.verdict, ![r.op].live = FALSE]
    /\ shown' = IF latest = r.op /\ r.op \in Scheduled THEN r.verdict ELSE shown
    /\ UNCHANGED latest

Effect(r) ==
    \/ r.kind = "claim"  /\ Granted(r)  /\ UNCHANGED tableVars
    \/ r.kind = "claim"  /\ ~Granted(r) /\ Free(r) /\ Claim(r)
    \/ r.kind = "finish" /\ Repeated(r) /\ UNCHANGED tableVars
    \/ r.kind = "finish" /\ ~Repeated(r) /\ Holds(r.op, r.token, r.ver) /\ Finish(r)

\* enqueue_worker_agent_job, or enqueue_agent_job for the browser: a known key
\* returns its job and changes nothing; a new one is refused while another job
\* of the row is active.
Enqueue(k) ==
    /\ job[k].state = "absent"
    /\ k \in OneRow => \A j \in OneRow : job[j].state \notin {"pending", "running"}
    /\ job' = [job EXCEPT ![k].state = "pending"]
    /\ latest' = IF k \in Scheduled THEN k ELSE latest
    /\ shown'  = IF k \in Scheduled THEN "pending" ELSE shown

----------------------------------------------------------------------------
(* Time *)

\* Faults stop at the last version, so that "every job ends" can be asked.
MayFail(k) == job[k].ver < MaxVer

\* The 120 s lease runs out: its owner is dead, or slower than its renewals.
Lapse(k) ==
    /\ job[k].state = "running" /\ job[k].live /\ MayFail(k)
    /\ job' = [job EXCEPT ![k].live = FALSE]
    /\ UNCHANGED <<latest, shown, net>>
============================================================================
