---------------------------- MODULE Publication ----------------------------
(***************************************************************************)
(* src/publication-executor.ts: any number of executions of                *)
(* executePublication and of reconcilePublication racing for one queue     *)
(* item, over the ledger of PublicationLedger and a social provider that   *)
(* neither deduplicates nor answers reliably.                              *)
(*                                                                         *)
(* A process is a program counter plus the snapshot it is reading.  A      *)
(* snapshot is three separate queries (intent, attempt, history), so a     *)
(* commit can fall between them.                                           *)
(***************************************************************************)
EXTENDS PublicationLedger

CONSTANTS
    Cleared,     \* executions whose platform has an enabled hosted publisher
    ClockSkew    \* may a recoverer's clock disagree with the lease?

ASSUME PublicationAssumption ==
    /\ Cleared \subseteq Exec
    /\ ClockSkew \in BOOLEAN

VARIABLES
    pc,          \* where each process is
    rd,          \* snapshot being read: step, intent, attempt
    row,         \* what the process holds of the intent: token, ver, live
    try,         \* copies of the current call sent so far
    outcome,     \* PublicationExecutionResult.outcome of each execution
    inbox, posted, refused,  \* provider: writes in transit, made, turned down
    writes,      \* provider write calls ever issued for this queue item
    angle        \* status of the angle record the draft came from

procVars     == <<pc, rd, row, try, outcome>>
providerVars == <<inbox, posted, refused, writes>>
vars == <<intent, attempt, net, pc, rd, row, try, outcome,
          inbox, posted, refused, writes, angle>>

----------------------------------------------------------------------------
(* Program counters, snapshots and what is concluded from them *)

\* reading a snapshot: the first load, or after a call whose fate is not known
ReadPC == {"load", "claimLost", "beginLost", "unknownLost", "raced"}
CallPC == Kind                   \* waiting for that procedure's reply
PC == ReadPC \cup CallPC \cup
      {"idle", "prepare", "send", "sent", "bookkeep", "done"}

Outcome == {"none", "accepted", "verified", "unknown", "rejected", "blocked", "retry_wait"}

\* agrees: the history row, if any, carries the post id of the attempt read
Snapshot == [intent : IntentRow, attempt : AttemptRow, agrees : BOOLEAN]
Partial  == [step : {"intent", "attempt", "history"}, intent : IntentRow, attempt : AttemptRow]

Unread  == [step |-> "intent", intent |-> NoIntent, attempt |-> NoAttempt]
Nothing == [intent |-> NoIntent, attempt |-> NoAttempt, agrees |-> TRUE]   \* {}

Held == [token : Exec \cup {None}, ver : Nat, live : BOOLEAN]
Fresh(p) == [token |-> IF p \in Exec THEN p ELSE None, ver |-> 0, live |-> FALSE]

\* validAttempt
Valid(s) == s.intent.state # "none" /\ s.agrees

Conclusive == {"accepted", "verified", "rejected"}

\* The latest attempt outranks the intent it was read after.
Status(s) == IF s.attempt.op = None THEN s.intent.state ELSE s.attempt.state

\* terminalResult; "none" when it returns undefined
Terminal(s) ==
    CASE s.intent.state = "none" -> "none"
      [] s.intent.state # "none" /\ ~s.agrees -> "unknown"
      [] Valid(s) /\ Status(s) \in Conclusive -> Status(s)
      [] Valid(s) /\ Status(s) \in {"unknown", "dispatching"} -> "unknown"
      [] Valid(s) /\ Status(s) \in {"scheduled", "claimed", "none"} -> "none"

\* Outcomes of send(): a post id, errors of the provider, or an error of the
\* Worker's own before the write.
Answer == {"created", "refusal", "conflict", "serverError", "timeout", "badReceipt"}

\* Slips (a conflict, or a broken receipt, taken for a refusal), for the runs to catch.
ConflictRefuses(answer) == IF answer \in {"refusal", "conflict"} THEN "reject" ELSE "unknown"
ReceiptRefuses(answer)  == IF answer \in {"refusal", "badReceipt"} THEN "reject" ELSE "unknown"

\* Only a definitive HTTP refusal of the post itself proves that there is none.
Classify(answer) == IF answer = "refusal" THEN "reject" ELSE "unknown"

----------------------------------------------------------------------------
(* Moves of one process *)

Goto(p, where) == pc' = [pc EXCEPT ![p] = where]

RequestOf(p, kind, held, n) ==
    [kind |-> kind, by |-> p, op |-> held.token,
     ver |-> IF kind \in {"release", "begin"} THEN held.ver ELSE 0, try |-> n]

\* Issue the first copy of a call; `gone' is the request being answered, if any.
Call(p, kind, held, gone) ==
    /\ Goto(p, kind)
    /\ row' = [row EXCEPT ![p] = held]
    /\ try' = [try EXCEPT ![p] = 1]
    /\ net' = (net \ gone) \cup {RequestOf(p, kind, held, 1)}
    /\ UNCHANGED outcome

\* Return a result: an execution is over, a recoverer may be called again.
Return(p, res, gone) ==
    /\ Goto(p, IF p \in Exec THEN "done" ELSE "idle")
    /\ outcome' = [x \in Exec |-> IF x = p THEN res ELSE outcome[x]]
    /\ row' = [row EXCEPT ![p] = Fresh(p)]
    /\ try' = [try EXCEPT ![p] = 1]
    /\ net' = net \ gone

\* Go and read the ledger before concluding anything.
Look(p, why, gone) ==
    /\ Goto(p, why)
    /\ net' = net \ gone
    /\ row' = [row EXCEPT ![p].ver = 0, ![p].live = FALSE]
    /\ try' = [try EXCEPT ![p] = 1]
    /\ UNCHANGED outcome

----------------------------------------------------------------------------
(* loadPublicationStateForQueueItem *)

\* The columns of the intent that decide anything for p.
Seen(p, i) == IF p \in Recoverer /\ i.state = "claimed"
              THEN i ELSE [NoIntent EXCEPT !.state = i.state]

SetRead(p, s) ==
    /\ rd' = [rd EXCEPT ![p] = s]
    /\ UNCHANGED <<ledgerVars, net, pc, row, try, outcome, providerVars, angle>>

ReadIntent(p) ==
    /\ pc[p] \in ReadPC /\ rd[p].step = "intent" /\ intent.state # "none"
    /\ SetRead(p, [Unread EXCEPT !.step = "attempt", !.intent = Seen(p, intent)])

ReadAttempt(p) ==
    /\ pc[p] \in ReadPC /\ rd[p].step = "attempt" /\ attempt.op # None
    /\ SetRead(p, [rd[p] EXCEPT !.step = "history", !.attempt = attempt])

\* The snapshots p's present query can complete: there is no intent, there is
\* no attempt, or the history row (written by the transaction that records
\* acceptance) is looked at.  readBestEffort turns an error into {}.
Complete(p) ==
    LET had(a, agrees) == [intent |-> rd[p].intent, attempt |-> a, agrees |-> agrees] IN
    {s \in {Nothing} : (rd[p].step = "intent" /\ intent.state = "none") \/ pc[p] # "load"}
    \cup {s \in {had(NoAttempt, TRUE)} : rd[p].step = "attempt" /\ attempt.op = None}
    \cup {s \in {had(rd[p].attempt, attempt.ext \in {None, rd[p].attempt.ext})} :
            rd[p].step = "history"}

\* Act on a complete snapshot and drop it.
Decide(p, at, s) ==
    /\ pc[p] = at /\ s \in Complete(p)
    /\ rd' = [rd EXCEPT ![p] = Unread]
    /\ UNCHANGED <<ledgerVars, providerVars, angle>>

\* A failed first load, or schema contract check, ends the call.
LoadFails(p) ==
    /\ pc[p] = "load"
    /\ rd' = [rd EXCEPT ![p] = Unread]
    /\ Return(p, IF p \in Exec THEN "blocked" ELSE "unknown", {})
    /\ UNCHANGED <<ledgerVars, providerVars, angle>>

----------------------------------------------------------------------------
(* executePublication up to the dispatch boundary *)

Loaded(e, s) ==
    /\ e \in Exec /\ Decide(e, "load", s)
    /\ \/ Terminal(s) # "none" /\ Return(e, Terminal(s), {})
       \/ Terminal(s) = "none" /\ e \notin Cleared /\ Return(e, "blocked", {})
       \/ Terminal(s) = "none" /\ e \in Cleared /\ Call(e, "claim", Fresh(e), {})

\* The claim call, or a recoverer's release, may or may not have committed.
NotOwner(p, s) ==
    /\ Decide(p, IF p \in Exec THEN "claimLost" ELSE "raced", s)
    /\ Return(p, IF Terminal(s) = "none" THEN "blocked" ELSE Terminal(s), {})

\* hooks.prepare: identity, entitlement, settings, schedule.  A lease that had
\* run out when the claim was returned fails the preflight.
Prepare(e) ==
    /\ pc[e] = "prepare"
    /\ \/ row[e].live /\ Call(e, "begin", row[e], {})
       \/ Call(e, "release", row[e], {})
    /\ UNCHANGED <<ledgerVars, rd, providerVars, angle>>

\* Slip: send when the ledger does not show the dispatch after all.
BeginLostSends(e, s) ==
    /\ Decide(e, "beginLost", s)
    /\ LET mine == Valid(s) /\ s.attempt.op = e IN
       \/ mine /\ Call(e, "unknown", Fresh(e), {})
       \/ ~mine /\ Look(e, "send", {})

\* The begin call may have committed: record doubt about this very operation,
\* never release and never send.
BeginLost(e, s) ==
    /\ Decide(e, "beginLost", s)
    /\ LET mine == Valid(s) /\ s.attempt.op = e IN
       \/ mine /\ Call(e, "unknown", Fresh(e), {})
       \/ ~mine /\ Return(e, "unknown", {})

----------------------------------------------------------------------------
(* The provider write and its answer *)

\* assertActiveAgentJob or the expiry of a controlled publish stops the send.
Stopped(e) ==
    /\ pc[e] = "send"
    /\ Call(e, "unknown", row[e], {})
    /\ UNCHANGED <<ledgerVars, rd, providerVars, angle>>

\* Slip: mark the angle published when the post is sent off.
WriteMarksAngle(e) ==
    /\ pc[e] = "send"
    /\ Goto(e, "sent")
    /\ inbox' = inbox \cup {e} /\ writes' = writes + 1 /\ angle' = "published"
    /\ UNCHANGED <<ledgerVars, net, rd, row, try, outcome, posted, refused>>

Write(e) ==
    /\ pc[e] = "send"
    /\ Goto(e, "sent")
    /\ inbox' = inbox \cup {e}
    /\ writes' = writes + 1
    /\ UNCHANGED <<ledgerVars, net, rd, row, try, outcome, posted, refused, angle>>

ProviderPost(e) ==
    /\ e \in inbox
    /\ inbox' = inbox \ {e} /\ posted' = posted \cup {e}
    /\ UNCHANGED <<ledgerVars, net, procVars, refused, writes, angle>>

ProviderRefuse(e) ==
    /\ e \in inbox
    /\ inbox' = inbox \ {e} /\ refused' = refused \cup {e}
    /\ UNCHANGED <<ledgerVars, net, procVars, posted, writes, angle>>

\* What the Worker may see of a write that is in transit, made or turned down.
Possible(e, answer) ==
    CASE answer \in {"created", "badReceipt"} -> e \in posted
      [] answer = "refusal" -> e \in refused
      [] answer \in {"conflict", "serverError", "timeout"} -> TRUE

\* Slip: send again after a timeout.
ReceiveResends(e, answer) ==
    /\ pc[e] = "sent" /\ Possible(e, answer)
    /\ \/ answer = "timeout" /\ Look(e, "send", {})
       \/ /\ answer # "timeout"
          /\ Call(e, IF answer = "created" THEN "accept" ELSE Classify(answer), row[e], {})
    /\ UNCHANGED <<ledgerVars, rd, providerVars, angle>>

Receive(e, answer) ==
    /\ pc[e] = "sent" /\ Possible(e, answer)
    /\ Call(e, IF answer = "created" THEN "accept" ELSE Classify(answer), row[e], {})
    /\ UNCHANGED <<ledgerVars, rd, providerVars, angle>>

\* afterAccepted: mark the angle published; its failure changes nothing else.
Bookkeep(e) ==
    /\ pc[e] = "bookkeep"
    /\ angle' \in {angle, "published"}
    /\ Return(e, outcome[e], {})
    /\ UNCHANGED <<ledgerVars, rd, providerVars>>

UnknownLost(p, s) ==
    /\ Decide(p, "unknownLost", s)
    /\ Return(p, IF Terminal(s) \in {"accepted", "verified"} THEN Terminal(s) ELSE "unknown", {})

----------------------------------------------------------------------------
(* reconcilePublication *)

Scan(r) ==
    /\ pc[r] = "idle" /\ Goto(r, "load")
    /\ UNCHANGED <<ledgerVars, net, rd, row, try, outcome, providerVars, angle>>

\* Slips: an interrupted dispatch recognised by the lease of its claim; a lease
\* taken for dead once it is cleared; the lease not looked at.
InterruptedByLease(s) == s.attempt.state = "dispatching" /\ s.intent.lease = "expired"
LeaseCleared(s) == s.intent.state = "claimed" /\ s.intent.lease = "none"
LeaseIgnored(s) == s.intent.state = "claimed"

Interrupted(s) == s.attempt.state = "dispatching" /\ s.attempt.stale
LeaseLooksLive(s) == s.intent.state = "claimed" /\ (s.intent.lease = "live" \/ ClockSkew)
LeaseLooksDead(s) == s.intent.state = "claimed" /\ (s.intent.lease = "expired" \/ ClockSkew)

Reconcile(r, s) ==
    /\ r \in Recoverer /\ Decide(r, "load", s)
    /\ LET of(token, ver) == [token |-> token, ver |-> ver, live |-> FALSE]
           pending == Valid(s) /\ ~Interrupted(s) /\ Terminal(s) = "none"
       IN  \/ ~Valid(s) /\ Return(r, "unknown", {})
           \/ Valid(s) /\ Interrupted(s) /\ Call(r, "unknown", of(s.attempt.op, 0), {})
           \/ Valid(s) /\ ~Interrupted(s) /\ Terminal(s) # "none" /\ Return(r, Terminal(s), {})
           \/ pending /\ LeaseLooksLive(s) /\ Return(r, "blocked", {})
           \/ pending /\ LeaseLooksDead(s) /\ Call(r, "release", of(s.intent.token, s.intent.ver), {})
           \/ pending /\ s.intent.state # "claimed" /\ Return(r, "retry_wait", {})

----------------------------------------------------------------------------
(* Procedure calls: applied, refused, retried, given up *)

Waits(r) == pc[r.by] = r.kind /\ try[r.by] = r.try

\* The caller receives the row that r's procedure returned.
Reply(r) ==
    LET p == r.by IN
    /\ Waits(r)
    /\ \/ /\ r.kind = "claim"
          /\ Goto(p, "prepare")
          /\ row' = [row EXCEPT ![p] = [token |-> r.op, ver |-> intent'.ver,
                                        live |-> intent'.lease = "live"]]
          /\ try' = [try EXCEPT ![p] = 1]
          /\ net' = net \ {r} /\ UNCHANGED outcome
       \/ r.kind = "release" /\ Return(p, IF p \in Exec THEN "blocked" ELSE "retry_wait", {r})
       \/ r.kind = "begin" /\ attempt'.state = "dispatching" /\ Look(p, "send", {r})
       \/ /\ r.kind = "begin" /\ attempt'.state # "dispatching"
          /\ Return(p, IF attempt'.state \in Conclusive THEN attempt'.state ELSE "unknown", {r})
       \/ /\ r.kind \in {"accept", "resolve"}
          /\ Goto(p, "bookkeep")
          /\ outcome' = [outcome EXCEPT ![p] = attempt'.state]
          /\ try' = [try EXCEPT ![p] = 1]
          /\ net' = net \ {r} /\ UNCHANGED row
       \/ r.kind = "reject" /\ Return(p, "rejected", {r})
       \/ r.kind = "unknown" /\ Return(p, "unknown", {r})

Lost(r) == net' = net \ {r} /\ UNCHANGED <<pc, row, try, outcome>>

Apply(r) ==
    /\ r \in net /\ Accepts(r) /\ Effect(r)
    /\ Reply(r) \/ Lost(r)
    /\ UNCHANGED <<rd, providerVars, angle>>

\* The error, if it reaches the caller, is a GiveUp; only one is looked at:
\* recordObservedAcceptance recognises publication_unknown_requires_reconciliation.
Refuse(r) ==
    /\ r \in net /\ (~Accepts(r) \/ MayRefuse(r))
    /\ \/ Lost(r)
       \/ /\ r.kind = "accept" /\ Waits(r) /\ Replay(r) /\ attempt.state = "unknown"
          /\ Call(r.by, "resolve", row[r.by], {r})
    /\ UNCHANGED <<ledgerVars, rd, providerVars, angle>>

\* fetchSupabase sends the same body again after a network error or a timeout.
Resend(p) ==
    /\ pc[p] \in CallPC /\ try[p] < Tries
    /\ try' = [try EXCEPT ![p] = @ + 1]
    /\ net' = net \cup {RequestOf(p, pc[p], row[p], try[p] + 1)}
    /\ UNCHANGED <<ledgerVars, pc, rd, row, outcome, providerVars, angle>>

\* Slips: an acceptance that cannot be recorded is taken for a refusal; a lost
\* begin is waited for.
GiveUpRefuses(p) ==
    /\ pc[p] = "accept" /\ Call(p, "reject", row[p], {})
    /\ UNCHANGED <<ledgerVars, rd, providerVars, angle>>

GiveUpNotBegin(p) ==
    /\ \/ pc[p] = "claim" /\ Look(p, "claimLost", {})
       \/ pc[p] = "unknown" /\ Look(p, "unknownLost", {})
       \/ pc[p] = "release" /\ p \in Exec /\ Return(p, "blocked", {})
       \/ pc[p] = "release" /\ p \in Recoverer /\ Look(p, "raced", {})
       \/ pc[p] \in {"accept", "resolve", "reject"} /\ Call(p, "unknown", row[p], {})
    /\ UNCHANGED <<ledgerVars, rd, providerVars, angle>>

\* The call throws: the last copy timed out, or an error status came back.
GiveUp(p) ==
    /\ \/ pc[p] = "claim" /\ Look(p, "claimLost", {})
       \/ pc[p] = "begin" /\ Look(p, "beginLost", {})
       \/ pc[p] = "unknown" /\ Look(p, "unknownLost", {})
       \/ pc[p] = "release" /\ p \in Exec /\ Return(p, "blocked", {})
       \/ pc[p] = "release" /\ p \in Recoverer /\ Look(p, "raced", {})
       \/ pc[p] \in {"accept", "resolve", "reject"} /\ Call(p, "unknown", row[p], {})
    /\ UNCHANGED <<ledgerVars, rd, providerVars, angle>>

\* The Worker isolate dies; what it put on the wire stays there.
Crash(p) ==
    /\ pc[p] \notin {"idle", "done"}
    /\ Return(p, "none", {})
    /\ rd' = [rd EXCEPT ![p] = Unread]
    /\ UNCHANGED <<ledgerVars, providerVars, angle>>

----------------------------------------------------------------------------
(* The specification *)

Init ==
    /\ intent = NoIntent /\ attempt = NoAttempt /\ net = {}
    /\ pc = [p \in Proc |-> IF p \in Exec THEN "load" ELSE "idle"]
    /\ rd = [p \in Proc |-> Unread]
    /\ row = [p \in Proc |-> Fresh(p)]
    /\ try = [p \in Proc |-> 1]
    /\ outcome = [e \in Exec |-> "none"]
    /\ inbox = {} /\ posted = {} /\ refused = {} /\ writes = 0
    /\ angle = "queued"

ReadStep(p) == ReadIntent(p) \/ ReadAttempt(p)

ExecStep(e) ==
    \/ \E s \in Complete(e) : Loaded(e, s) \/ BeginLost(e, s)
    \/ Prepare(e) \/ Stopped(e) \/ Write(e) \/ Bookkeep(e)
    \/ \E a \in Answer : Receive(e, a)

RecoverStep(r) == Scan(r) \/ \E s \in Complete(r) : Reconcile(r, s)

Database ==
    \/ \E r \in net : Apply(r) \/ Refuse(r)
    \/ (LeaseExpires \/ DispatchAges \/ VerifyVisible)
       /\ UNCHANGED <<procVars, providerVars, angle>>

Next ==
    \/ \E p \in Proc : \/ ReadStep(p) \/ LoadFails(p) \/ Resend(p) \/ GiveUp(p) \/ Crash(p)
                       \/ \E s \in Complete(p) : NotOwner(p, s) \/ UnknownLost(p, s)
    \/ \E e \in Exec : ExecStep(e) \/ ProviderPost(e) \/ ProviderRefuse(e)
    \/ \E r \in Recoverer : RecoverStep(r)
    \/ Database

Spec == Init /\ [][Next]_vars

\* The Worker's event loop runs what is ready and every fetch has a timeout, so
\* an execution keeps moving; the scheduler's scan runs every minute; a call
\* repeated for ever is applied in the end; clocks advance.
ExecMoves(e) ==
    \/ ExecStep(e) \/ ReadStep(e) \/ GiveUp(e)
    \/ \E s \in Complete(e) : NotOwner(e, s) \/ UnknownLost(e, s)

ScanMoves(r) ==
    \/ RecoverStep(r) \/ ReadStep(r) \/ GiveUp(r)
    \/ \E s \in Complete(r) : NotOwner(r, s) \/ UnknownLost(r, s)

Served(kind) == \E r \in net : r.kind = kind /\ r.by \in Recoverer /\ Apply(r)

Fairness ==
    /\ \A e \in Exec : WF_vars(ExecMoves(e))
    /\ \A r \in Recoverer : /\ WF_vars(ScanMoves(r))
                             /\ SF_vars(ReadIntent(r)) /\ SF_vars(ReadAttempt(r))
                             /\ SF_vars(\E s \in Complete(r) : Reconcile(r, s))
    /\ SF_vars(Served("release")) /\ SF_vars(Served("unknown"))
    /\ WF_vars(LeaseExpires /\ UNCHANGED <<procVars, providerVars, angle>>)
    /\ WF_vars(DispatchAges /\ UNCHANGED <<procVars, providerVars, angle>>)

FairSpec == Spec /\ Fairness

----------------------------------------------------------------------------
(* Properties *)

\* Every variable stays within its type.
TypeOK ==
    /\ intent \in IntentRow /\ attempt \in AttemptRow /\ net \subseteq Request
    /\ pc \in [Proc -> PC] /\ rd \in [Proc -> Partial] /\ row \in [Proc -> Held]
    /\ try \in [Proc -> 1..Tries] /\ outcome \in [Exec -> Outcome]
    /\ inbox \subseteq Exec /\ posted \subseteq Exec /\ refused \subseteq Exec
    /\ writes \in Nat /\ angle \in {"queued", "published"}

Sent == inbox \cup posted \cup refused

\* However executions, recoveries, lost replies and lease takeovers interleave,
\* the provider is written to at most once for a queue item.
AtMostOneWrite == writes <= 1

\* No external write is possible without a durable dispatch attempt, and the
\* attempt names the very operation that wrote.
NothingUnrecorded == \A e \in Sent : attempt.op = e

\* A settled record is true of the provider: accepted means the post of this
\* operation exists, rejected means it was turned down.
SettledTruthfully ==
    /\ attempt.state \in {"accepted", "verified"} => attempt.op \in posted /\ attempt.ext = attempt.op
    /\ attempt.state = "rejected" => attempt.op \in refused

\* A result is true for its caller: accepted and verified mean there is a post,
\* rejected means there is none, and blocked means that this execution did not
\* and never will dispatch (its next action is a safe retry).
ReportedTruthfully ==
    \A e \in Exec :
        /\ outcome[e] \in {"accepted", "verified"} => posted # {}
        /\ outcome[e] = "rejected" => posted = {} /\ inbox = {}
        /\ outcome[e] = "blocked" => attempt.op # e

\* Once a dispatch is on record the item is never open for another one: no late
\* claim, release or begin copy reopens it or replaces the operation.
DispatchIsFinal ==
    [][attempt.op # None => /\ attempt'.op = attempt.op
                            /\ intent'.state = attempt'.state]_vars

\* A live claim is given up only by the execution that owns it: recovery acts on
\* what it read, and what it read is stale by then, but it never releases a
\* claim that has been taken since.
RecoveryStealsNothing ==
    [][intent.state = "claimed" /\ intent.lease = "live" /\ intent'.state = "scheduled"
        => \E r \in net \ net' : r.kind = "release" /\ r.by = intent.token]_vars

\* The angle of a draft counts as published only when its post exists.
AngleFollowsPost == angle = "published" => posted # {}

\* A dispatch nobody finishes is recorded as unknown by the scan.
InterruptedDispatchSettles == attempt.state = "dispatching" ~> attempt.state # "dispatching"

\* A claim nobody finishes goes back to scheduled or is dispatched.
ClaimsComeBack == intent.state = "claimed" ~> intent.state # "claimed"

\* No execution hangs: every call, read and wait ends in a result.
ExecutionsReturn == \A e \in Exec : <>(pc[e] = "done")

----------------------------------------------------------------------------
(* The inductive invariant behind the safety properties *)

\* The two rows move together: an attempt, once there, decides the intent.
RowsAgree ==
    /\ attempt.op = None <=> attempt.state = "none"
    /\ attempt.op = None => intent.state \in {"none", "scheduled", "claimed"}
    /\ attempt.op # None => intent.state = attempt.state

\* A call speaks for the execution that sent it, unless it releases or records
\* doubt, and reports only what the provider did; a recoverer makes no other call.
Honest(r) ==
    /\ r.kind \notin {"release", "unknown"} => r.by \in Exec /\ r.op = r.by
    /\ r.kind \in {"accept", "resolve"} => r.op \in posted
    /\ r.kind = "reject" => r.op \in refused

CallsHonest ==
    /\ \A r \in net : Honest(r)
    /\ \A e \in Exec : row[e].token = e
    /\ \A r \in Recoverer :
        pc[r] \in {"idle", "load", "release", "raced", "unknown", "unknownLost"}

\* An execution that may write, has written or reports an answer owns the
\* attempt; one that has not begun does not, and never will unless it begins.
Owning  == {"send", "sent", "accept", "resolve", "reject", "bookkeep"}
Early   == {"load", "claim", "claimLost", "prepare", "release"}
Written == {"sent", "accept", "resolve", "reject", "unknown", "unknownLost", "bookkeep", "done"}

Owned(e) ==
    /\ pc[e] \in Owning => attempt.op = e
    /\ (pc[e] \in Early \/ outcome[e] = "blocked") =>
           attempt.op # e /\ \A r \in net : r.kind = "begin" => r.by # e
    /\ pc[e] \in {"accept", "resolve", "bookkeep"} => e \in posted
    /\ pc[e] = "reject" => e \in refused
    /\ outcome[e] # "none" => pc[e] \in {"bookkeep", "done"}

Ownership == \A e \in Exec : Owned(e)

\* The write count is the number of writes the provider can see, and the writer
\* is past its write.
WritesCounted ==
    /\ writes = IF Sent = {} THEN 0 ELSE 1
    /\ \A e \in Sent : attempt.op = e /\ pc[e] \in Written
    /\ inbox \cap (posted \cup refused) = {} /\ posted \cap refused = {}

\* What has been read or returned was true, and stays so.
Told(state) == /\ state \in {"accepted", "verified"} => posted # {}
               /\ state = "rejected" => refused # {}

KnowledgeTrue ==
    /\ \A p \in Proc : Told(rd[p].intent.state) /\ Told(rd[p].attempt.state)
    /\ \A e \in Exec : Told(outcome[e])
    /\ angle = "published" => posted # {}

IInv == /\ TypeOK /\ RowsAgree /\ CallsHonest /\ Ownership
        /\ WritesCounted /\ SettledTruthfully /\ KnowledgeTrue

\* The claim that had version v is not live any more, and never will be again.
Lapsed(v) ==
    /\ v <= intent.ver
    /\ ~(intent.state = "claimed" /\ intent.lease = "live" /\ intent.ver = v)

\* Where recoverers read the lease by the database's clock, a claim that one of
\* them has seen expired, or asks to have released, has lapsed; executions give
\* up their own claim only.
RecoverySound ==
    /\ \A r \in net : r.kind = "release" => IF r.by \in Exec THEN r.op = r.by ELSE Lapsed(r.ver)
    /\ \A p \in Recoverer :
           /\ pc[p] = "release" => Lapsed(row[p].ver)
           /\ rd[p].intent.state = "claimed" /\ rd[p].intent.lease = "expired" => Lapsed(rd[p].intent.ver)

----------------------------------------------------------------------------
(* What the ledger promises, and how its rows show it *)

PhaseOf(state) ==
    CASE state = "none" -> "open"
      [] state = "dispatching" -> "dispatched"
      [] state = "unknown" -> "unknown"
      [] state \in {"accepted", "verified"} -> "published"
      [] state = "rejected" -> "refused"

Promise == INSTANCE PublicationPromise
               WITH phase <- PhaseOf(attempt.state), live <- (posted # {})

\* Every behaviour of the executor is one the promise allows.
KeepsPromise == Promise!Spec
============================================================================
