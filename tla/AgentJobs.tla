----------------------------- MODULE AgentJobs -----------------------------
(***************************************************************************)
(* src/agent-jobs.ts and its callers in src/supabase-worker.ts: worker     *)
(* ticks that overlap, list pending and expired jobs, claim them, run a    *)
(* handler (or, for an expired job, a reconciliation) under a renewed      *)
(* lease, and record the outcome, over the table of JobTable.              *)
(*                                                                         *)
(* A handler is what withAgentJobLease makes of it: it may start external  *)
(* effects, a stretch of them after each assertActiveAgentJob, and it      *)
(* returns or throws.  An effect is a paid request, what ends it (the      *)
(* upload of an image) or a post; the handler's own reads, its writes to   *)
(* Supabase and its token refreshes are none.                              *)
(***************************************************************************)
EXTENDS JobTable

\* Most effects that one assertActiveAgentJob lets go: one for an extraction or
\* for a post, for a draft the draft, its revision, the image's prompt, the image
\* and its upload.
CONSTANT Stretch
ASSUME StretchAssumption == Stretch \in Nat \ {0}

VARIABLES
    me,          \* what each tick is doing, for which job, as which owner
    runs,        \* how often the handler of an operation was entered
    late,        \* effects started when the execution's lease was gone already
    success      \* operations whose handler returned a completed result

ghostVars == <<runs, late, success>>
vars == <<job, latest, shown, net, me, runs, late, success>>

----------------------------------------------------------------------------
(* Ticks *)

\* "start": claimed, lease not renewed yet; "run": inside the handler; "act":
\* assertActiveAgentJob returned, and it may start "left" effects more
HandlerPC == {"start", "run", "act"}
OwnerPC == HandlerPC \cup {"finish"}

TickState == [pc : {"idle", "claim"} \cup OwnerPC,
              op : Op \cup {None}, ver : Nat, mode : Mode,
              left : 0..Stretch, lost : BOOLEAN,
              verdict : Verdict \cup {"none"}, try : 1..Tries]

Idle == [pc |-> "idle", op |-> None, ver |-> 0, mode |-> "none",
         left |-> 0, lost |-> FALSE, verdict |-> "none", try |-> 1]

Become(p, state) == me' = [me EXCEPT ![p] = state]

RequestOf(p, m) ==
    [kind |-> m.pc, op |-> m.op, token |-> p, ver |-> m.ver,
     mode |-> m.mode, verdict |-> m.verdict, try |-> m.try]

Call(p, m, gone) ==
    /\ Become(p, m)
    /\ net' = (net \ gone) \cup {RequestOf(p, m)}

\* Done with the job.  Claim copies still on the wire can no longer make p an
\* owner: their token is known to nobody.
Disowned(p, r) == IF r.kind = "claim" /\ r.token = p THEN [r EXCEPT !.token = Stray] ELSE r

Leave(p, gone) ==
    /\ Become(p, Idle)
    /\ net' = {Disowned(p, r) : r \in net \ gone}

CallFinish(p, verdict, gone) ==
    Call(p, [me[p] EXCEPT !.pc = "finish", !.verdict = verdict, !.try = 1], gone)

----------------------------------------------------------------------------
(* processPendingSupabaseJobs and cleanupStaleRunningJobs: list and claim *)

\* Slip: nobody lists expired jobs.
ListPending(p, k) ==
    /\ me[p] = Idle /\ job[k].state = "pending"
    /\ Call(p, [Idle EXCEPT !.pc = "claim", !.op = k, !.mode = "execute"], {})
    /\ UNCHANGED <<tableVars, ghostVars>>

List(p, k) ==
    /\ me[p] = Idle
    /\ \/ /\ job[k].state = "pending"
          /\ Call(p, [Idle EXCEPT !.pc = "claim", !.op = k, !.mode = "execute"], {})
       \/ /\ job[k].state = "running" /\ ~job[k].live
          /\ Call(p, [Idle EXCEPT !.pc = "claim", !.op = k, !.mode = "reconcile",
                                  !.ver = job[k].ver], {})
    /\ UNCHANGED <<tableVars, ghostVars>>

----------------------------------------------------------------------------
(* withAgentJobLease *)

Owns(p) == Holds(me[p].op, p, me[p].ver)

\* Slip: the recovery of a job enters its handler.
StartReexecutes(p) ==
    /\ me[p].pc = "start"
    /\ \/ Owns(p) /\ Become(p, [me[p] EXCEPT !.pc = "run"]) /\ UNCHANGED net
          /\ runs' = [runs EXCEPT ![me[p].op] = @ + 1]
       \/ ~Owns(p) /\ Leave(p, {}) /\ UNCHANGED runs
    /\ UNCHANGED <<tableVars, late, success>>

\* The lease is renewed before anything else; a tick that does not own the job
\* drops it, unheard.
Start(p) ==
    /\ me[p].pc = "start"
    /\ \/ Owns(p) /\ Become(p, [me[p] EXCEPT !.pc = "run"]) /\ UNCHANGED net
          /\ runs' = [runs EXCEPT ![me[p].op] = @ + (IF me[p].mode = "execute" THEN 1 ELSE 0)]
       \/ ~Owns(p) /\ Leave(p, {}) /\ UNCHANGED runs
    /\ UNCHANGED <<tableVars, late, success>>

\* The first renewal finds no network: the execution is reported as blocked, a
\* recovery is left to the next scan.
StartFails(p) ==
    /\ me[p].pc = "start" /\ MayFail(me[p].op)
    /\ IF me[p].mode = "execute" THEN CallFinish(p, "blocked", {}) ELSE Leave(p, {})
    /\ UNCHANGED <<tableVars, ghostVars>>

\* A renewal, by the timer or by assertActiveAgentJob, is refused or finds no
\* network.  The handler runs on; the flag is never cleared.
Doubt(p) ==
    /\ me[p].pc \in {"run", "act"} /\ ~me[p].lost /\ (~Owns(p) \/ MayFail(me[p].op))
    /\ Become(p, [me[p] EXCEPT !.lost = TRUE])
    /\ UNCHANGED <<tableVars, net, ghostVars>>

\* Slip: ownership is asserted from memory.
AssertRemembers(p) ==
    /\ me[p].pc = "run" /\ ~me[p].lost /\ me[p].mode = "execute"
    /\ Become(p, [me[p] EXCEPT !.pc = "act", !.left = Stretch])
    /\ UNCHANGED <<tableVars, net, ghostVars>>

\* assertActiveAgentJob returns: the table said so a moment ago.
AssertActive(p) ==
    /\ me[p].pc = "run" /\ ~me[p].lost /\ me[p].mode = "execute" /\ Owns(p)
    /\ Become(p, [me[p] EXCEPT !.pc = "act", !.left = Stretch])
    /\ UNCHANGED <<tableVars, net, ghostVars>>

\* The next effect is started: the post, or one of the requests of a draft,
\* which ai.draftPlatforms makes one after the other and does not assert between.
\* Then the next, or the handler is past this stretch: it was the last, it was
\* all this draft took, or it threw.
Act(p) ==
    /\ me[p].pc = "act"
    /\ \/ /\ me[p].left > 1
          /\ Become(p, [me[p] EXCEPT !.left = @ - 1])
       \/ Become(p, [me[p] EXCEPT !.pc = "run", !.left = 0])
    /\ late' = [late EXCEPT ![me[p].op] = @ + (IF Owns(p) THEN 0 ELSE 1)]
    /\ UNCHANGED <<tableVars, net, runs, success>>

\* Slip: a handler that threw is completed.
ThrowsCompletes(p) ==
    /\ me[p].pc = "run"
    /\ IF me[p].mode = "execute" THEN CallFinish(p, "completed", {}) ELSE Leave(p, {})
    /\ UNCHANGED <<tableVars, ghostVars>>

\* The handler throws an error of its own: failJob.  A recovery that throws is
\* logged and left to the next scan.
Throws(p) ==
    /\ me[p].pc = "run"
    /\ \/ me[p].mode = "execute" /\ CallFinish(p, "blocked", {})
       \/ me[p].mode = "reconcile" /\ MayFail(me[p].op) /\ Leave(p, {})
    /\ UNCHANGED <<tableVars, ghostVars>>

\* The handler or the reconciliation returns: completeJob, but a tick that has
\* lost its lease neither completes nor fails the job.
Returns(p, verdict) ==
    /\ me[p].pc = "run" /\ verdict \in {"completed", "failed"}
    /\ IF me[p].lost THEN Leave(p, {}) ELSE CallFinish(p, verdict, {})
    /\ success' = IF me[p].mode = "execute" /\ verdict = "completed"
                  THEN success \cup {me[p].op} ELSE success
    /\ UNCHANGED <<tableVars, runs, late>>

----------------------------------------------------------------------------
(* Procedure calls: applied, refused, retried, given up *)

Waits(p, r) == r = RequestOf(p, me[p])

\* The caller receives what r's procedure returned.
Reply(p, r) ==
    /\ Waits(p, r)
    /\ \/ /\ r.kind = "claim"
          /\ Become(p, [me[p] EXCEPT !.pc = "start", !.ver = job'[r.op].ver, !.try = 1])
          /\ net' = net \ {r}
       \/ r.kind = "finish" /\ Leave(p, {r})

Lost(r) == net' = net \ {r} /\ UNCHANGED me

\* A reply that is waited for and lost is a fault; so is a claim nobody knows of.
Forgotten(r) == r.kind = "claim" \/ (\E p \in Tick : Waits(p, r)) => job'[r.op].ver < MaxVer

Apply(r) ==
    /\ r \in net /\ Accepts(r) /\ Effect(r)
    /\ (Forgotten(r) /\ Lost(r)) \/ \E p \in Tick : Reply(p, r)
    /\ UNCHANGED ghostVars

\* No row, or false: the job has another owner, or none.  A copy may also just
\* get lost.
Refuse(r) ==
    /\ r \in net
    /\ \/ ~Accepts(r) /\ \E p \in Tick : Waits(p, r) /\ Leave(p, {r})
       \/ (~Accepts(r) \/ MayFail(r.op)) /\ Lost(r)
    /\ UNCHANGED <<tableVars, ghostVars>>

\* fetchSupabase sends the same body again.
Resend(p) ==
    /\ me[p].pc \in {"claim", "finish"} /\ me[p].try < Tries
    /\ Call(p, [me[p] EXCEPT !.try = @ + 1], {})
    /\ UNCHANGED <<tableVars, ghostVars>>

\* The call throws a network error.  A claim is dropped; completeJob's error is
\* handed to failJob, whatever became of the completion; failJob's is logged.
GiveUp(p) ==
    /\ me[p].pc \in {"claim", "finish"}
    /\ MayFail(me[p].op) \/ RequestOf(p, me[p]) \notin net
    /\ IF me[p].pc = "finish" /\ me[p].mode = "execute" /\ me[p].verdict # "blocked"
       THEN CallFinish(p, "blocked", {})
       ELSE Leave(p, {})
    /\ UNCHANGED <<tableVars, ghostVars>>

\* The isolate dies; what it put on the wire stays there.
Crash(p) ==
    /\ me[p] # Idle /\ MayFail(me[p].op)
    /\ Leave(p, {})
    /\ UNCHANGED <<tableVars, ghostVars>>

----------------------------------------------------------------------------
(* The specification *)

Init ==
    /\ job = [k \in Op |-> Absent] /\ latest = None /\ shown = "none" /\ net = {}
    /\ me = [p \in Tick |-> Idle]
    /\ runs = [k \in Op |-> 0] /\ late = [k \in Op |-> 0] /\ success = {}

Environment(k) ==
    \/ Enqueue(k) /\ UNCHANGED <<net, me, ghostVars>>
    \/ Lapse(k) /\ UNCHANGED <<me, ghostVars>>

TickStep(p) ==
    \/ \E k \in Op : List(p, k)
    \/ Start(p) \/ AssertActive(p) \/ Act(p)
    \/ \E v \in Verdict : Returns(p, v)

Fault(p) == StartFails(p) \/ Doubt(p) \/ Throws(p) \/ Crash(p)

Next ==
    \/ \E k \in Op : Environment(k)
    \/ \E p \in Tick : TickStep(p) \/ Fault(p) \/ Resend(p) \/ GiveUp(p)
    \/ \E r \in net : Apply(r) \/ Refuse(r)

Spec == Init /\ [][Next]_vars

\* Cron starts a tick every minute, and a tick lists every pending and every
\* expired job; handlers end; a fetch times out; a call repeated for ever is
\* answered in the end.
Fairness ==
    /\ \A p \in Tick :
        /\ WF_vars(Start(p)) /\ WF_vars(Act(p)) /\ WF_vars(GiveUp(p))
        /\ SF_vars(\E v \in Verdict : Returns(p, v))
        /\ \A k \in Op : SF_vars(List(p, k))
    /\ \A k \in Op :
        /\ WF_vars(Lapse(k) /\ UNCHANGED <<me, ghostVars>>)
        /\ SF_vars(\E r \in net : r.op = k /\ Apply(r))
        /\ WF_vars(\E r \in net : r.op = k /\ Refuse(r))

FairSpec == Spec /\ Fairness

----------------------------------------------------------------------------
(* Properties *)

\* Every variable stays within its type.
TypeOK ==
    /\ job \in [Op -> JobRow] /\ net \subseteq Request
    /\ latest \in Op \cup {None} /\ shown \in {"none", "pending"} \cup Verdict
    /\ me \in [Tick -> TickState]
    /\ runs \in [Op -> Nat] /\ late \in [Op -> Nat] /\ success \subseteq Op

\* The handler of a job is entered at most once, whatever ticks overlap, crash,
\* lose their lease or repeat their claim: recovery reconciles, it never runs it.
ExecutesOnce == \A k \in Op : runs[k] <= 1

\* A handler that has lost its job cannot be stopped, but what it starts after
\* the loss is of one stretch: what the assertActiveAgentJob before the loss had
\* let go.  It does not get past another.
LateEffectsAreOneStretch == \A k \in Op : late[k] <= Stretch

\* A recorded outcome is never replaced, by a late completion, by a failure
\* report that contradicts it, or by a recovery that was shown an older row.
OutcomeIsFinal ==
    [][\A k \in Op : Ended(k) => job'[k] = job[k]]_vars

\* "completed" by an execution means that its handler did return a completed
\* result, and that nobody had taken the job over.
CompletedTruthfully ==
    \A k \in Op : job[k].state = "completed" /\ job[k].mode = "execute" => k \in success

\* The tenant is shown the newest scheduled job, as it is: pending until it has
\* ended, then its outcome; older jobs that end later do not show through.
ShownIsLatest ==
    \A k \in Op : latest = k => shown = IF Ended(k) THEN job[k].state ELSE "pending"

\* Every enqueued job ends, if the faults do.
JobsEnd == \A k \in Op : job[k].state \in {"pending", "running"} ~> Ended(k)

----------------------------------------------------------------------------
(* The inductive invariant behind the safety properties *)

\* An execution is the first claim, and only the first.
First(mode, ver) == mode # "none" /\ (mode = "execute" <=> ver = 1)

RowsSound ==
    \A k \in Op :
        /\ job[k].state \in {"absent", "pending"} => job[k].ver = 0
        /\ job[k].state \in {"running"} \cup Verdict =>
               job[k].ver >= 1 /\ First(job[k].mode, job[k].ver)
        /\ job[k].live => job[k].state = "running"

\* What a tick believes of its job was true once, and the newest claim is its own.
TickSound(p) ==
    LET m == me[p] IN
    /\ m.pc = "idle" => m = Idle
    /\ m.pc # "idle" => m.op \in Op /\ m.ver <= job[m.op].ver
    /\ m.pc = "claim" => /\ m.verdict = "none"
                         /\ m.mode = "execute" <=> m.ver = 0
                         /\ m.mode # "none"
    /\ m.pc \in OwnerPC => /\ m.ver >= 1 /\ First(m.mode, m.ver)
                           /\ m.ver = job[m.op].ver => job[m.op].token = p
    /\ m.pc \in HandlerPC /\ m.ver = job[m.op].ver => job[m.op].state = "running"
    /\ m.pc = "act" => m.mode = "execute"
    /\ m.pc = "act" <=> m.left > 0
    /\ m.pc = "finish" => /\ m.verdict # "none"
                          /\ m.mode = "execute" /\ m.verdict = "completed" => m.op \in success

\* One claim has one owner.
OwnersApart ==
    \A p, q \in Tick :
        me[p].pc \in OwnerPC /\ me[q].pc \in OwnerPC /\ me[p].op = me[q].op
            /\ me[p].ver = me[q].ver => p = q

\* Copies on the wire: a claim in a tick's name is one it may still become the
\* owner by; a finish was sent by an owner who is past its handler.
ClaimSound(r) ==
    /\ r.verdict = "none" /\ r.mode # "none" /\ (r.mode = "execute" <=> r.ver = 0)
    /\ r.token \in Tick => me[r.token].pc # "idle"

FinishSound(r) ==
    /\ r.token \in Tick /\ r.verdict # "none"
    /\ 1 <= r.ver /\ r.ver <= job[r.op].ver /\ First(r.mode, r.ver)
    /\ r.mode = "execute" /\ r.verdict = "completed" => r.op \in success
    /\ LET m == me[r.token] IN
       m.op = r.op => /\ m.pc \in {"claim", "finish"} => r.ver <= m.ver
                      /\ m.pc \in HandlerPC => r.ver < m.ver

WireSound ==
    \A r \in net : /\ r.kind = "claim" => ClaimSound(r)
                   /\ r.kind = "finish" => FinishSound(r)

\* After the handler was entered, no tick is on its way into it.
RunOnce ==
    \A k \in Op :
        /\ runs[k] <= 1
        /\ runs[k] = 1 =>
               /\ job[k].ver >= 1
               /\ \A p \in Tick : me[p].op = k /\ me[p].mode = "execute" =>
                      /\ me[p].pc # "start"
                      /\ me[p].pc = "claim" /\ job[k].token = p => job[k].ver # 1

\* After a late effect, nothing is to come but the rest of its stretch.
Gone(k) == job[k].ver >= 2 \/ (job[k].ver = 1 /\ ~job[k].live)

LateBounded ==
    \A k \in Op :
        /\ late[k] <= Stretch
        /\ late[k] > 0 => Gone(k)
        /\ \A p \in Tick : me[p].op = k => late[k] + me[p].left <= Stretch

Shown ==
    /\ latest \in Scheduled \cup {None}
    /\ \A k \in Op : latest = k => job[k].state # "absent"

IInv == /\ TypeOK /\ RowsSound /\ (\A p \in Tick : TickSound(p)) /\ OwnersApart
        /\ WireSound /\ RunOnce /\ LateBounded /\ Shown /\ ShownIsLatest /\ CompletedTruthfully

----------------------------------------------------------------------------
(* What the table promises of each operation, and how its row shows it *)

PhaseOf(row) ==
    CASE row.state = "absent" -> "absent"
      [] row.state = "pending" -> "queued"
      [] row.state = "running" -> IF row.ver = 1 /\ row.live THEN "executing" ELSE "orphaned"
      [] row.state \in Verdict -> IF row.ver = 1 THEN "executed" ELSE "reconciled"

Promise(k) == INSTANCE JobPromise WITH phase <- PhaseOf(job[k]), late <- late[k]

\* Every operation starts and moves as the promise allows, or stays as it is.
KeepsPromise ==
    /\ \A k \in Op : Promise(k)!Init
    /\ [][\A k \in Op : [Promise(k)!Next]_(Promise(k)!vars)]_vars
============================================================================
