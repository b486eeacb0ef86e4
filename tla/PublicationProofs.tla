-------------------------- MODULE PublicationProofs --------------------------
(***************************************************************************)
(* What TLAPS establishes about Publication for any sets of executions and *)
(* recoverers, any number of copies of a call and any clock.               *)
(***************************************************************************)
EXTENDS Publication, TLAPS

USE LedgerAssumption, PublicationAssumption

----------------------------------------------------------------------------
(* Types *)

ProcTypes ==
    /\ net \subseteq Request
    /\ pc \in [Proc -> PC] /\ row \in [Proc -> Held]
    /\ try \in [Proc -> 1..Tries] /\ outcome \in [Exec -> Outcome]

\* What a process holds before it has claimed.
LEMMA FreshHeld == ASSUME NEW p \in Proc PROVE Fresh(p) \in Held
BY DEF Fresh, Held, Proc

\* A request is well typed.
LEMMA RequestTyped ==
    ASSUME NEW p \in Proc, NEW kind \in Kind, NEW held \in Held, NEW n \in 1..Tries
    PROVE  RequestOf(p, kind, held, n) \in Request
BY DEF RequestOf, Request, Held

\* A call keeps the types.
LEMMA CallTyped ==
    ASSUME TypeOK, NEW p \in Proc, NEW kind \in Kind, NEW held \in Held, NEW gone,
           Call(p, kind, held, gone)
    PROVE  ProcTypes'
<1>1. 1 \in 1..Tries
  OBVIOUS
<1>2. RequestOf(p, kind, held, 1) \in Request
  BY <1>1, RequestTyped
<1>3. kind \in PC
  BY DEF PC, CallPC
<1> QED
  BY <1>1, <1>2, <1>3 DEF Call, Goto, ProcTypes, TypeOK

\* A result keeps the types.
LEMMA ReturnTyped ==
    ASSUME TypeOK, NEW p \in Proc, NEW res \in Outcome, NEW gone, Return(p, res, gone)
    PROVE  ProcTypes'
<1>1. 1 \in 1..Tries
  OBVIOUS
<1> QED
  BY <1>1, FreshHeld DEF Return, Goto, ProcTypes, TypeOK, PC

\* Going to read keeps the types.
LEMMA LookTyped ==
    ASSUME TypeOK, NEW p \in Proc, NEW why \in PC, NEW gone, Look(p, why, gone)
    PROVE  ProcTypes'
<1>1. 1 \in 1..Tries
  OBVIOUS
<1> QED
  BY ZenonT(60), <1>1 DEF Look, Goto, ProcTypes, TypeOK, Held

\* The rows that do not exist yet.
LEMMA RowTypes == NoIntent \in IntentRow /\ NoAttempt \in AttemptRow
BY DEF NoIntent, NoAttempt, IntentRow, AttemptRow, IntentState, AttemptState

\* A complete snapshot is nothing, or what has been read.
LEMMA CompleteIs ==
    ASSUME NEW p, NEW s \in Complete(p)
    PROVE  \/ s = Nothing
           \/ s = [intent |-> rd[p].intent, attempt |-> NoAttempt, agrees |-> TRUE]
           \/ s = [intent |-> rd[p].intent, attempt |-> rd[p].attempt,
                   agrees |-> attempt.ext \in {None, rd[p].attempt.ext}]
BY DEF Complete

\* A snapshot of typed rows is typed.
LEMMA SnapshotTyped ==
    ASSUME NEW i \in IntentRow, NEW a \in AttemptRow, NEW b \in BOOLEAN
    PROVE  [intent |-> i, attempt |-> a, agrees |-> b] \in Snapshot
BY DEF Snapshot

\* Complete snapshots are typed.
LEMMA CompleteTyped ==
    ASSUME TypeOK, NEW p \in Proc, NEW s \in Complete(p)
    PROVE  s \in Snapshot
<1>1. rd[p].intent \in IntentRow /\ rd[p].attempt \in AttemptRow
  BY DEF TypeOK, Partial
<1> DEFINE agrees == attempt.ext \in {None, rd[p].attempt.ext}
<1>2. agrees \in BOOLEAN
  OBVIOUS
<1>3. [intent |-> rd[p].intent, attempt |-> rd[p].attempt, agrees |-> agrees] \in Snapshot
  <2> HIDE DEF agrees
  <2> QED BY <1>1, <1>2, SnapshotTyped
<1>4. [intent |-> rd[p].intent, attempt |-> NoAttempt, agrees |-> TRUE] \in Snapshot
  BY <1>1, RowTypes, SnapshotTyped
<1>5. Nothing \in Snapshot
  BY RowTypes, SnapshotTyped DEF Nothing
<1> QED
  BY <1>3, <1>4, <1>5, CompleteIs

\* What a snapshot means for the caller is an outcome.
LEMMA TerminalTyped ==
    ASSUME NEW s \in Snapshot
    PROVE  Terminal(s) \in Outcome
BY DEF Terminal, Snapshot, Valid, Status, Conclusive, Outcome, IntentRow, AttemptRow,
       IntentState, AttemptState

\* A settled attempt is well typed.
LEMMA SettleTyped ==
    ASSUME TypeOK, NEW state \in AttemptState, NEW ext \in Exec \cup {None}, Settle(state, ext)
    PROVE  intent' \in IntentRow /\ attempt' \in AttemptRow /\ attempt'.state = state
<1>1. intent \in IntentRow /\ attempt \in AttemptRow
  BY DEF TypeOK
<1>2. intent' \in IntentRow
  BY <1>1 DEF Settle, IntentRow, IntentState
<1>3. attempt' \in AttemptRow /\ attempt'.state = state
  BY <1>1 DEF Settle, AttemptRow
<1> QED
  BY <1>2, <1>3

\* The procedures keep the rows' types.
LEMMA EffectTyped ==
    ASSUME TypeOK, NEW r \in net, Accepts(r), Effect(r)
    PROVE  /\ intent' \in IntentRow /\ attempt' \in AttemptRow
           /\ r.kind \in {"accept", "resolve"} => attempt'.state \in {"accepted", "verified"}
<1> USE DEF IntentRow, AttemptRow, IntentState, AttemptState
<1>0. r \in Request /\ intent \in IntentRow /\ attempt \in AttemptRow
  BY DEF TypeOK
<1>1. r.op \in Exec \cup {None} /\ r.ver \in Nat /\ r.kind \in Kind
  BY <1>0 DEF Request
<1>2. CASE r.kind = "claim"
  <2>1. r.op \in Exec \cup {None} /\ intent.ver + 1 \in Nat
    BY <1>0, <1>1
  <2> QED
    BY <1>0, <1>2, <2>1 DEF Effect, ClaimRow
<1>3. CASE r.kind = "release"
  BY <1>0, <1>1, <1>3 DEF Effect
<1>4. CASE r.kind = "begin"
  <2>1. CASE Replay(r)
    BY <1>0, <1>4, <2>1 DEF Effect, ledgerVars
  <2>2. CASE ~Replay(r)
    <3>1. /\ intent' = [intent EXCEPT !.state = "dispatching"]
          /\ attempt' = [op |-> r.op, state |-> "dispatching", ext |-> None, stale |-> FALSE]
      BY <1>4, <2>2 DEF Effect
    <3>2. intent' \in IntentRow
      BY <1>0, <3>1
    <3>3. attempt' \in AttemptRow
      BY <1>1, <3>1
    <3> QED
      BY <1>4, <3>2, <3>3
  <2> QED
    BY <2>1, <2>2
<1>5. CASE r.kind \in {"accept", "resolve"}
  <2>1. CASE attempt.state \in {"accepted", "verified"}
    BY <1>0, <1>5, <2>1 DEF Effect, ledgerVars
  <2>2. CASE attempt.state \notin {"accepted", "verified"}
    <3>1. Settle("accepted", r.op)
      BY <1>5, <2>2 DEF Effect
    <3> QED
      BY <1>1, <1>5, <3>1, SettleTyped
  <2> QED
    BY <2>1, <2>2
<1>6. CASE r.kind \in {"reject", "unknown"}
  <2>1. Settle("rejected", None) \/ Settle("unknown", None)
    BY <1>6 DEF Effect
  <2> QED
    BY <1>6, <2>1, SettleTyped
<1> QED
  BY <1>1, <1>2, <1>3, <1>4, <1>5, <1>6 DEF Kind
\* Every step keeps the types.
LEMMA TypeStep == TypeOK /\ [Next]_vars => TypeOK'
<1> SUFFICES ASSUME TypeOK, [Next]_vars PROVE TypeOK'
  OBVIOUS
<1> DEFINE Rest ==
      /\ intent' \in IntentRow /\ attempt' \in AttemptRow /\ rd' \in [Proc -> Partial]
      /\ inbox' \subseteq Exec /\ posted' \subseteq Exec /\ refused' \subseteq Exec
      /\ writes' \in Nat /\ angle' \in {"queued", "published"}
<1>0. ProcTypes' /\ Rest => TypeOK'
  BY DEF ProcTypes, TypeOK
<1>u. Unread \in Partial
  BY RowTypes DEF Unread, Partial
<1>r. UNCHANGED <<ledgerVars, rd, providerVars, angle>> => Rest
  BY DEF TypeOK, ledgerVars, providerVars
<1>d. ASSUME NEW p \in Proc, rd' = [rd EXCEPT ![p] = Unread],
             UNCHANGED <<ledgerVars, providerVars, angle>>
      PROVE  Rest
  BY <1>u, <1>d DEF TypeOK, ledgerVars, providerVars
<1> HIDE DEF Rest
<1>1. ASSUME NEW p \in Proc, ReadIntent(p) PROVE TypeOK'
  <2>1. Seen(p, intent) \in IntentRow
    BY DEF TypeOK, Seen, NoIntent, IntentRow
  <2>2. [Unread EXCEPT !.step = "attempt", !.intent = Seen(p, intent)] \in Partial
    BY <2>1, RowTypes DEF Unread, Partial
  <2> QED
    BY <1>1, <2>2 DEF ReadIntent, SetRead, TypeOK, ledgerVars, providerVars
<1>2. ASSUME NEW p \in Proc, ReadAttempt(p) PROVE TypeOK'
  <2>1. [rd[p] EXCEPT !.step = "history", !.attempt = attempt] \in Partial
    BY DEF TypeOK, Partial
  <2> QED
    BY <1>2, <2>1 DEF ReadAttempt, SetRead, TypeOK, ledgerVars, providerVars
<1>3. ASSUME NEW p \in Proc, LoadFails(p) PROVE TypeOK'
  BY <1>0, <1>d, <1>3, ReturnTyped DEF LoadFails, Outcome
<1>4. ASSUME NEW p \in Proc, Resend(p) PROVE TypeOK'
  <2>1. row[p] \in Held /\ try[p] + 1 \in 1..Tries /\ pc[p] \in Kind
    BY <1>4 DEF Resend, TypeOK, CallPC
  <2>2. RequestOf(p, pc[p], row[p], try[p] + 1) \in Request
    BY <2>1, RequestTyped
  <2> QED
    BY <1>4, <2>1, <2>2 DEF Resend, TypeOK, ledgerVars, providerVars
<1>5. ASSUME NEW p \in Proc, GiveUp(p) PROVE TypeOK'
  <2>1. row[p] \in Held
    BY DEF TypeOK
  <2> QED
    BY <1>0, <1>r, <1>5, <2>1, CallTyped, ReturnTyped, LookTyped
    DEF GiveUp, Outcome, PC, ReadPC, Kind
<1>6. ASSUME NEW p \in Proc, Crash(p) PROVE TypeOK'
  BY <1>0, <1>d, <1>6, ReturnTyped DEF Crash, Outcome
<1>7. ASSUME NEW p \in Proc, NEW s \in Complete(p), NotOwner(p, s) PROVE TypeOK'
  <2>1. Terminal(s) \in Outcome
    BY CompleteTyped, TerminalTyped
  <2> QED
    BY <1>0, <1>d, <1>7, <2>1, ReturnTyped DEF NotOwner, Decide, Outcome
<1>8. ASSUME NEW p \in Proc, NEW s \in Complete(p), UnknownLost(p, s) PROVE TypeOK'
  BY <1>0, <1>d, <1>8, ReturnTyped DEF UnknownLost, Decide, Outcome
<1>9. ASSUME NEW e \in Exec, NEW s \in Complete(e), Loaded(e, s) PROVE TypeOK'
  <2>1. Terminal(s) \in Outcome /\ e \in Proc /\ Fresh(e) \in Held
    BY CompleteTyped, TerminalTyped, FreshHeld DEF Proc
  <2> QED
    BY <1>0, <1>d, <1>9, <2>1, ReturnTyped, CallTyped DEF Loaded, Decide, Outcome, Kind
<1>10. ASSUME NEW e \in Exec, NEW s \in Complete(e), BeginLost(e, s) PROVE TypeOK'
  <2>1. e \in Proc /\ Fresh(e) \in Held
    BY FreshHeld DEF Proc
  <2> QED
    BY <1>0, <1>d, <1>10, <2>1, ReturnTyped, CallTyped DEF BeginLost, Decide, Outcome, Kind
<1>11. ASSUME NEW e \in Exec, Prepare(e) \/ Stopped(e) \/ (\E a \in Answer : Receive(e, a))
       PROVE TypeOK'
  <2>1. e \in Proc /\ row[e] \in Held
    BY DEF Proc, TypeOK
  <2> QED
    BY <1>0, <1>r, <1>11, <2>1, CallTyped DEF Prepare, Stopped, Receive, Classify, Kind
<1>12. ASSUME NEW e \in Exec, Write(e) PROVE TypeOK'
  BY <1>12 DEF Write, Goto, TypeOK, ledgerVars, PC, Proc
<1>13. ASSUME NEW e \in Exec, ProviderPost(e) \/ ProviderRefuse(e) PROVE TypeOK'
  BY <1>13 DEF ProviderPost, ProviderRefuse, TypeOK, ledgerVars, procVars
<1>14. ASSUME NEW e \in Exec, Bookkeep(e) PROVE TypeOK'
  <2>1. e \in Proc /\ outcome[e] \in Outcome
    BY DEF Proc, TypeOK
  <2>2. ProcTypes'
    BY <1>14, <2>1, ReturnTyped DEF Bookkeep
  <2> QED
    BY <1>14, <2>2 DEF Bookkeep, ProcTypes, TypeOK, ledgerVars, providerVars
<1>15. ASSUME NEW r \in Recoverer, Scan(r) PROVE TypeOK'
  BY <1>15 DEF Scan, Goto, TypeOK, ledgerVars, providerVars, PC, ReadPC, Proc
<1>16. ASSUME NEW r \in Recoverer, NEW s \in Complete(r), Reconcile(r, s) PROVE TypeOK'
  <2>1. r \in Proc /\ s \in Snapshot
    BY CompleteTyped DEF Proc
  <2>2. Terminal(s) \in Outcome
    BY <2>1, TerminalTyped
  <2>3. /\ [token |-> s.attempt.op, ver |-> 0, live |-> FALSE] \in Held
        /\ [token |-> s.intent.token, ver |-> s.intent.ver, live |-> FALSE] \in Held
    BY <2>1 DEF Snapshot, IntentRow, AttemptRow, Held
  <2> QED
    BY <1>0, <1>d, <1>16, <2>1, <2>2, <2>3, ReturnTyped, CallTyped
    DEF Reconcile, Decide, Outcome, Kind
<1>17. ASSUME NEW r \in net, Apply(r) PROVE TypeOK'
  <2>1. /\ intent' \in IntentRow /\ attempt' \in AttemptRow
        /\ r.kind \in {"accept", "resolve"} => attempt'.state \in {"accepted", "verified"}
    BY <1>17, EffectTyped DEF Apply
  <2>2. Rest
    BY <1>17, <2>1 DEF Rest, Apply, TypeOK, providerVars
  <2>3. CASE Lost(r)
    BY <1>0, <2>2, <2>3 DEF Lost, ProcTypes, TypeOK
  <2>4. CASE Reply(r)
    <3>1. r \in Request /\ r.by \in Proc /\ 1 \in 1..Tries
      BY DEF TypeOK, Request
    <3>2. CASE r.kind = "claim"
      <4>1. [token |-> r.op, ver |-> intent'.ver, live |-> intent'.lease = "live"] \in Held
        BY <2>1, <3>1 DEF IntentRow, Request, Held
      <4> QED
        BY <1>0, <2>2, <2>4, <3>1, <3>2, <4>1 DEF Reply, Goto, ProcTypes, TypeOK, PC
    <3>3. CASE r.kind \in {"accept", "resolve"}
      BY <1>0, <2>1, <2>2, <2>4, <3>1, <3>3 DEF Reply, Goto, ProcTypes, TypeOK, PC, Outcome
    <3>4. CASE r.kind \in {"release", "begin", "reject", "unknown"}
      BY <1>0, <2>2, <2>4, <3>1, <3>4, ReturnTyped, LookTyped
      DEF Reply, Outcome, Conclusive, PC
    <3> QED
      BY <3>1, <3>2, <3>3, <3>4 DEF Request, Kind
  <2> QED
    BY <1>17, <2>3, <2>4 DEF Apply
<1>18. ASSUME NEW r \in net, Refuse(r) PROVE TypeOK'
  <2>1. r \in Request /\ r.by \in Proc /\ row[r.by] \in Held
    BY DEF TypeOK, Request
  <2>2. CASE Lost(r)
    BY <1>0, <1>r, <1>18, <2>2 DEF Refuse, Lost, ProcTypes, TypeOK
  <2> QED
    BY <1>0, <1>r, <1>18, <2>1, <2>2, CallTyped DEF Refuse, Kind
<1>19. CASE LeaseExpires /\ UNCHANGED <<procVars, providerVars, angle>>
  BY <1>19 DEF LeaseExpires, TypeOK, procVars, providerVars, IntentRow
<1>20. CASE (DispatchAges \/ VerifyVisible) /\ UNCHANGED <<procVars, providerVars, angle>>
  BY <1>20 DEF DispatchAges, VerifyVisible, TypeOK, procVars, providerVars,
               IntentRow, AttemptRow, IntentState, AttemptState
<1>21. CASE UNCHANGED vars
  BY <1>21 DEF vars, TypeOK
<1> QED
  BY <1>1, <1>2, <1>3, <1>4, <1>5, <1>6, <1>7, <1>8, <1>9, <1>10, <1>11, <1>12, <1>13,
     <1>14, <1>15, <1>16, <1>17, <1>18, <1>19, <1>20, <1>21
  DEF Next, ReadStep, ExecStep, RecoverStep, Database

----------------------------------------------------------------------------
(* The inductive invariant *)

\* A step of one process that touches neither the rows nor the provider.
LEMMA LocalStep ==
    ASSUME IInv, TypeOK', NEW p \in Proc,
           UNCHANGED <<ledgerVars, providerVars, angle>>,
           \A q \in Proc : q # p => pc'[q] = pc[q] /\ row'[q] = row[q],
           \A e \in Exec : e # p => outcome'[e] = outcome[e],
           \A q \in Proc : Told(rd'[q].intent.state) /\ Told(rd'[q].attempt.state),
           \A r \in net' : r \in net \/ (r.by = p /\ Honest(r)),
           p \in Exec =>
               /\ row'[p].token = p /\ Owned(p)' /\ Told(outcome'[p])
               /\ p \in Sent => pc'[p] \in Written,
           p \in Recoverer =>
               pc'[p] \in {"idle", "load", "release", "raced", "unknown", "unknownLost"}
    PROVE  IInv'
<1>0. /\ intent' = intent /\ attempt' = attempt /\ angle' = angle
      /\ inbox' = inbox /\ posted' = posted /\ refused' = refused /\ writes' = writes
  BY DEF ledgerVars, providerVars
<1>1. RowsAgree' /\ SettledTruthfully'
  BY <1>0 DEF IInv, RowsAgree, SettledTruthfully
<1>2. CallsHonest'
  <2>1. \A r \in net' : Honest(r)'
    BY <1>0 DEF IInv, CallsHonest, Honest
  <2>2. \A e \in Exec : row'[e].token = e
    BY DEF IInv, CallsHonest, Proc
  <2> QED
    BY <2>1, <2>2 DEF IInv, CallsHonest, Proc
<1>3. Ownership'
  <2> SUFFICES ASSUME NEW e \in Exec, e # p PROVE Owned(e)'
    BY DEF Ownership
  <2>1. pc'[e] = pc[e] /\ outcome'[e] = outcome[e] /\ Owned(e)
    BY DEF Proc, IInv, Ownership
  <2>2. \A r \in net' : r.by # e \/ r \in net
    OBVIOUS
  <2> QED
    BY <1>0, <2>1, <2>2 DEF Owned
<1>4. WritesCounted'
  <2>1. Sent' = Sent /\ Sent \subseteq Exec
    BY <1>0 DEF Sent, IInv, TypeOK
  <2>2. ASSUME NEW e \in Sent PROVE pc'[e] \in Written
    <3>1. e \in Exec /\ e \in Proc /\ pc[e] \in Written
      BY <2>1 DEF Proc, IInv, WritesCounted
    <3> QED
      BY <3>1
  <2> QED
    BY <1>0, <2>1, <2>2 DEF IInv, WritesCounted
<1>5. KnowledgeTrue'
  BY <1>0 DEF IInv, KnowledgeTrue, Told
<1> QED
  BY <1>1, <1>2, <1>3, <1>4, <1>5 DEF IInv

\* A snapshot says what was true.
LEMMA CompleteTold ==
    ASSUME IInv, NEW p \in Proc, NEW s \in Complete(p)
    PROVE  Told(s.intent.state) /\ Told(s.attempt.state) /\ Told(Terminal(s))
<1>1. s \in Snapshot /\ Told(rd[p].intent.state) /\ Told(rd[p].attempt.state)
  BY CompleteTyped DEF IInv, KnowledgeTrue
<1>2. Told(s.intent.state) /\ Told(s.attempt.state)
  <2>1. Told("none")
    BY DEF Told
  <2> QED
    BY <1>1, <2>1, CompleteIs DEF Nothing, NoIntent, NoAttempt
<1>3. Terminal(s) \in {"none", "unknown", s.intent.state, s.attempt.state}
  BY <1>1 DEF Terminal, Status, Valid, Conclusive, Snapshot, IntentRow, AttemptRow,
         IntentState, AttemptState
<1> QED
  BY <1>2, <1>3 DEF Told

\* Dropping a snapshot keeps what is known true.
LEMMA DropTold ==
    ASSUME IInv, NEW p \in Proc, rd' = [rd EXCEPT ![p] = Unread]
    PROVE  \A q \in Proc : Told(rd'[q].intent.state) /\ Told(rd'[q].attempt.state)
BY DEF IInv, TypeOK, KnowledgeTrue, Told, Unread, NoIntent, NoAttempt

\* What was read before stays true.
LEMMA KeepTold ==
    ASSUME IInv, rd' = rd
    PROVE  \A q \in Proc : Told(rd'[q].intent.state) /\ Told(rd'[q].attempt.state)
BY DEF IInv, KnowledgeTrue

\* A call of an execution, when nothing else changes.
LEMMA ExecCalls ==
    ASSUME IInv, TypeOK', NEW e \in Exec, NEW kind \in Kind, NEW held \in Held, NEW gone,
           Call(e, kind, held, gone), held.token = e,
           UNCHANGED <<ledgerVars, providerVars, angle>>,
           \A q \in Proc : Told(rd'[q].intent.state) /\ Told(rd'[q].attempt.state),
           outcome[e] = "none",
           kind \in Owning => attempt.op = e,
           kind \in {"accept", "resolve"} => e \in posted,
           kind = "reject" => e \in refused,
           kind \in Early => pc[e] \in Early,
           e \in Sent => kind \in Written
    PROVE  IInv'
<1>0. /\ attempt' = attempt /\ posted' = posted /\ refused' = refused
  BY DEF ledgerVars, providerVars
<1>1. e \in Proc /\ e \notin Recoverer
  BY DEF Proc
<1>2. /\ pc' = [pc EXCEPT ![e] = kind] /\ row' = [row EXCEPT ![e] = held]
      /\ net' = (net \ gone) \cup {RequestOf(e, kind, held, 1)} /\ outcome' = outcome
  BY DEF Call, Goto
<1>3. /\ \A q \in Proc : q # e => pc'[q] = pc[q] /\ row'[q] = row[q]
      /\ pc'[e] = kind /\ row'[e] = held
  BY <1>1, <1>2 DEF IInv, TypeOK
<1>4. Honest(RequestOf(e, kind, held, 1))
  BY DEF Honest, RequestOf
<1>5. \A r \in net' : r \in net \/ (r.by = e /\ r.kind = kind /\ Honest(r))
  BY <1>2, <1>4 DEF RequestOf
<1>6. Owned(e)'
  <2>1. Owned(e)
    BY DEF IInv, Ownership
  <2>2. kind \in Early => attempt.op # e /\ \A r \in net' : r.kind = "begin" => r.by # e
    BY <1>5, <2>1 DEF Owned, Early
  <2> QED
    BY <1>0, <1>2, <1>3, <2>2 DEF Owned, Kind
<1>7. Told(outcome'[e])
  BY <1>2 DEF Told
<1> QED
  BY <1>1, <1>2, <1>3, <1>5, <1>6, <1>7, LocalStep

\* An execution returns.
LEMMA ExecReturns ==
    ASSUME IInv, TypeOK', NEW e \in Exec, NEW res \in Outcome, NEW gone,
           Return(e, res, gone), UNCHANGED <<ledgerVars, providerVars, angle>>,
           \A q \in Proc : Told(rd'[q].intent.state) /\ Told(rd'[q].attempt.state),
           Told(res), res = "blocked" => pc[e] \in Early
    PROVE  IInv'
<1>0. /\ attempt' = attempt /\ posted' = posted /\ refused' = refused
  BY DEF ledgerVars, providerVars
<1>1. e \in Proc /\ e \notin Recoverer
  BY DEF Proc
<1>2. /\ pc' = [pc EXCEPT ![e] = "done"] /\ row' = [row EXCEPT ![e] = Fresh(e)]
      /\ net' = net \ gone
      /\ outcome' = [x \in Exec |-> IF x = e THEN res ELSE outcome[x]]
  BY DEF Return, Goto
<1>3. /\ \A q \in Proc : q # e => pc'[q] = pc[q] /\ row'[q] = row[q]
      /\ pc'[e] = "done" /\ row'[e].token = e /\ outcome'[e] = res
      /\ \A x \in Exec : x # e => outcome'[x] = outcome[x]
  BY <1>1, <1>2 DEF IInv, TypeOK, Fresh
<1>4. Owned(e)'
  <2>1. Owned(e) /\ net' \subseteq net
    BY <1>2 DEF IInv, Ownership
  <2> QED
    BY <1>0, <1>3, <2>1 DEF Owned, Owning, Early
<1>5. "done" \in Written
  BY DEF Written
<1> QED
  BY <1>1, <1>2, <1>3, <1>4, <1>5, LocalStep

\* A step of a recoverer: it returns, or calls release or unknown.
LEMMA RecovererSteps ==
    ASSUME IInv, TypeOK', NEW r \in Recoverer, NEW kind \in {"release", "unknown"},
           NEW held, NEW res, NEW gone,
           Call(r, kind, held, gone) \/ Return(r, res, gone),
           UNCHANGED <<ledgerVars, providerVars, angle>>,
           \A q \in Proc : Told(rd'[q].intent.state) /\ Told(rd'[q].attempt.state)
    PROVE  IInv'
<1>1. r \in Proc /\ r \notin Exec
  BY DEF Proc
<1>2. CASE Call(r, kind, held, gone)
  <2>1. /\ pc' = [pc EXCEPT ![r] = kind] /\ row' = [row EXCEPT ![r] = held]
        /\ net' = (net \ gone) \cup {RequestOf(r, kind, held, 1)} /\ outcome' = outcome
    BY <1>2 DEF Call, Goto
  <2>2. Honest(RequestOf(r, kind, held, 1)) /\ RequestOf(r, kind, held, 1).by = r
    BY DEF Honest, RequestOf
  <2>3. /\ \A q \in Proc : q # r => pc'[q] = pc[q] /\ row'[q] = row[q]
        /\ pc'[r] = kind
    BY <1>1, <2>1 DEF IInv, TypeOK
  <2> QED
    BY <1>1, <2>1, <2>2, <2>3, LocalStep
<1>3. CASE Return(r, res, gone)
  <2>1. /\ pc' = [pc EXCEPT ![r] = "idle"] /\ row' = [row EXCEPT ![r] = Fresh(r)]
        /\ net' = net \ gone
        /\ outcome' = [x \in Exec |-> IF x = r THEN res ELSE outcome[x]]
    BY <1>1, <1>3 DEF Return, Goto
  <2>2. /\ \A q \in Proc : q # r => pc'[q] = pc[q] /\ row'[q] = row[q]
        /\ pc'[r] = "idle" /\ \A x \in Exec : outcome'[x] = outcome[x]
    BY <1>1, <2>1 DEF IInv, TypeOK
  <2> QED
    BY <1>1, <2>1, <2>2, LocalStep
<1> QED
  BY <1>2, <1>3

\* What a procedure does to the rows.
LEMMA EffectFacts ==
    ASSUME IInv, NEW r \in net, Accepts(r), Effect(r)
    PROVE  /\ RowsAgree'
           /\ attempt.op # None => attempt'.op = attempt.op
           /\ attempt'.op # attempt.op => r.kind = "begin" /\ attempt'.op = r.op
           /\ r.kind \notin {"claim", "release"} => attempt'.op = r.op /\ r.op # None
           /\ attempt'.state \in {"accepted", "verified"} =>
                  attempt'.op \in posted /\ attempt'.ext = attempt'.op
           /\ attempt'.state = "rejected" => attempt'.op \in refused
           /\ r.kind \in {"accept", "resolve"} => attempt'.state \in {"accepted", "verified"}
<1>0. /\ intent \in IntentRow /\ attempt \in AttemptRow /\ r \in Request
      /\ RowsAgree /\ SettledTruthfully /\ Honest(r)
  BY DEF IInv, TypeOK, CallsHonest
<1> USE DEF RowsAgree, SettledTruthfully
<1>o. intent.state \in {"none", "scheduled", "claimed"} => attempt.op = None
  BY <1>0 DEF AttemptRow, AttemptState
<1>s. \A state : attempt' = attempt /\ attempt.op = None /\ intent'.state = state
        /\ state \in {"none", "scheduled", "claimed"} => RowsAgree'
  BY <1>0
<1>1. CASE r.kind = "claim"
  <2>1. attempt.op = None
    BY <1>o, <1>1 DEF Accepts
  <2>2. attempt' = attempt /\ intent' = ClaimRow(r)
    BY <1>1 DEF Effect
  <2>3. intent'.state = "claimed"
    BY <2>2 DEF ClaimRow
  <2>4. RowsAgree'
    BY <1>0, <2>1, <2>2, <2>3
  <2>5. attempt.state = "none"
    BY <1>0, <2>1
  <2> QED
    BY <1>1, <2>1, <2>2, <2>4, <2>5
<1>2. CASE r.kind = "release"
  <2>1. attempt.op = None
    BY <1>o, <1>2 DEF Accepts, HoldsClaim
  <2>2. attempt' = attempt /\ intent'.state \in {intent.state, "scheduled"}
    BY <1>2 DEF Effect
  <2> QED
    BY <1>0, <1>2, <2>1, <2>2, <1>s
<1>3. CASE r.kind = "begin"
  <2>1. r.op # None
    BY <1>0, <1>3 DEF Honest
  <2>2. CASE Replay(r)
    <3>1. intent' = intent /\ attempt' = attempt
      BY <1>3, <2>2 DEF Effect, ledgerVars
    <3> QED
      BY <1>0, <1>3, <2>1, <2>2, <3>1 DEF Replay
  <2>3. CASE ~Replay(r)
    <3>1. intent.state = "claimed" /\ attempt.op = None
      BY <1>o, <1>3, <2>3 DEF Accepts, HoldsClaim
    <3>2. /\ intent' = [intent EXCEPT !.state = "dispatching"]
          /\ attempt' = [op |-> r.op, state |-> "dispatching", ext |-> None, stale |-> FALSE]
      BY <1>3, <2>3 DEF Effect
    <3>3. intent'.state = "dispatching"
      BY <1>0, <3>2 DEF IntentRow
    <3> QED
      BY <1>3, <2>1, <3>1, <3>2, <3>3
  <2> QED
    BY <2>2, <2>3
<1>4. CASE r.kind \in {"accept", "resolve", "reject", "unknown"}
  <2>1. attempt.op = r.op /\ attempt.op # None /\ intent.state = attempt.state
    BY <1>0, <1>4 DEF Accepts, Replay
  <2>2. CASE UNCHANGED ledgerVars
    <3>1. intent' = intent /\ attempt' = attempt
      BY <2>2 DEF ledgerVars
    <3>2. r.kind \in {"accept", "resolve"} => attempt.state \in {"accepted", "verified"}
      <4> SUFFICES ASSUME r.kind \in {"accept", "resolve"},
                          attempt.state \notin {"accepted", "verified"} PROVE FALSE
        OBVIOUS
      <4>1. attempt' = [attempt EXCEPT !.state = "accepted", !.ext = r.op]
        BY DEF Effect, Settle
      <4> QED
        BY <1>0, <3>1, <4>1 DEF AttemptRow
    <3> QED
      BY <1>0, <1>4, <2>1, <3>1, <3>2
  <2>3. CASE r.kind \in {"accept", "resolve"} /\ Settle("accepted", r.op)
    BY <1>0, <2>1, <2>3 DEF Settle, Honest, IntentRow, AttemptRow
  <2>4. CASE r.kind = "reject" /\ Settle("rejected", None)
    BY <1>0, <2>1, <2>4 DEF Settle, Honest, IntentRow, AttemptRow
  <2>5. CASE r.kind = "unknown" /\ Settle("unknown", None)
    BY <1>0, <2>1, <2>5 DEF Settle, IntentRow, AttemptRow
  <2> QED
    BY <1>4, <2>2, <2>3, <2>4, <2>5 DEF Effect
<1> QED
  BY <1>0, <1>1, <1>2, <1>3, <1>4 DEF Request, Kind

\* A procedure applied, whether or not its caller hears of it.
LEMMA ApplyStep ==
    ASSUME IInv, TypeOK', NEW r \in net, Apply(r)
    PROVE  IInv'
<1>0. /\ r \in Request /\ Honest(r) /\ Accepts(r) /\ Effect(r) /\ rd' = rd /\ angle' = angle
      /\ inbox' = inbox /\ posted' = posted /\ refused' = refused /\ writes' = writes
      /\ net' = net \ {r} /\ (Reply(r) \/ Lost(r))
  BY DEF Apply, providerVars, IInv, TypeOK, CallsHonest, Reply, Lost, Return, Look
<1>1. /\ RowsAgree'
      /\ attempt.op # None => attempt'.op = attempt.op
      /\ attempt'.op # attempt.op => r.kind = "begin" /\ attempt'.op = r.op
      /\ r.kind \notin {"claim", "release"} => attempt'.op = r.op /\ r.op # None
      /\ attempt'.state \in {"accepted", "verified"} =>
             attempt'.op \in posted /\ attempt'.ext = attempt'.op
      /\ attempt'.state = "rejected" => attempt'.op \in refused
      /\ r.kind \in {"accept", "resolve"} => attempt'.state \in {"accepted", "verified"}
  BY <1>0, EffectFacts
<1>2. SettledTruthfully'
  BY <1>0, <1>1 DEF SettledTruthfully
<1>3. Told(attempt'.state)
  BY <1>1 DEF Told
<1>4. \A q \in Proc : q # r.by => pc'[q] = pc[q] /\ row'[q] = row[q]
  BY <1>0 DEF Reply, Lost, Return, Look, Goto, IInv, TypeOK
<1>5. \A e \in Exec : e # r.by => outcome'[e] = outcome[e]
  BY <1>0 DEF Reply, Lost, Return, Look, IInv, TypeOK
<1>6. CASE Lost(r)
  <2>1. pc' = pc /\ row' = row /\ outcome' = outcome
    BY <1>6 DEF Lost
  <2>2. CallsHonest'
    BY <1>0, <2>1 DEF IInv, CallsHonest, Honest
  <2>3. Ownership'
    <3> SUFFICES ASSUME NEW e \in Exec PROVE Owned(e)'
      BY DEF Ownership
    <3>1. Owned(e) /\ e # None
      BY DEF IInv, Ownership
    <3> QED
      BY <1>0, <1>1, <2>1, <3>1 DEF Owned, Honest
  <2>4. WritesCounted'
    BY <1>0, <1>1, <2>1 DEF IInv, WritesCounted, Sent, TypeOK
  <2>5. KnowledgeTrue'
    BY <1>0, <2>1 DEF IInv, KnowledgeTrue, Told
  <2> QED
    BY <1>1, <1>2, <2>2, <2>3, <2>4, <2>5 DEF IInv
<1>7. CASE Reply(r)
  <2> DEFINE p == r.by
  <2>0. p \in Proc /\ pc[p] = r.kind
    BY <1>0, <1>7 DEF Request, Reply, Waits
  <2>1. p \in Recoverer =>
          r.kind \in {"release", "unknown"} /\ pc'[p] = "idle"
    BY <1>0, <1>7, <2>0 DEF IInv, CallsHonest, Kind, Reply, Return, Goto, TypeOK, Proc
  <2>2. p \in Exec =>
          /\ row'[p].token = p
          /\ \/ r.kind = "claim" /\ pc'[p] = "prepare" /\ outcome'[p] = outcome[p]
             \/ r.kind = "release" /\ pc'[p] = "done" /\ outcome'[p] = "blocked"
             \/ r.kind = "begin" /\ pc'[p] = "send" /\ outcome'[p] = outcome[p]
             \/ r.kind = "begin" /\ pc'[p] = "done" /\ outcome'[p] \in {attempt'.state, "unknown"}
             \/ r.kind \in {"accept", "resolve"} /\ pc'[p] = "bookkeep" /\ outcome'[p] = attempt'.state
             \/ r.kind = "reject" /\ pc'[p] = "done" /\ outcome'[p] = "rejected"
             \/ r.kind = "unknown" /\ pc'[p] = "done" /\ outcome'[p] = "unknown"
    BY <1>0, <1>7, <2>0 DEF Reply, Return, Look, Goto, Fresh, IInv, TypeOK, CallsHonest, Honest, Held
  <2>3. CallsHonest'
    <3>1. \A x \in net' : Honest(x)'
      BY <1>0 DEF IInv, CallsHonest, Honest
    <3>2. \A e \in Exec : row'[e].token = e
      BY <1>4, <2>2 DEF IInv, CallsHonest, Proc
    <3>3. \A q \in Recoverer :
            pc'[q] \in {"idle", "load", "release", "raced", "unknown", "unknownLost"}
      BY <1>4, <2>1 DEF IInv, CallsHonest, Proc
    <3> QED
      BY <3>1, <3>2, <3>3 DEF CallsHonest
  <2>4. Ownership'
    <3> SUFFICES ASSUME NEW e \in Exec PROVE Owned(e)'
      BY DEF Ownership
    <3>1. Owned(e) /\ e # None /\ e \in Proc
      BY DEF IInv, Ownership, Proc
    <3>2. CASE e # p
      BY <1>0, <1>1, <1>4, <1>5, <3>1, <3>2 DEF Owned, Honest
    <3>3. CASE e = p
      <4>1. e = r.by /\ (r.kind \notin {"release", "unknown"} => r.op = e)
        BY <1>0, <3>3 DEF Honest
      <4>2. pc[e] \in Early => attempt'.op # e /\ \A x \in net' : x.kind = "begin" => x.by # e
        BY <1>0, <1>1, <3>1, <4>1 DEF Owned, Honest
      <4> QED
        <5>1. attempt'.state # "blocked"
          BY DEF TypeOK, AttemptRow, AttemptState
        <5>2. pc[e] = r.kind /\ r.kind \in Kind
          BY <1>0, <2>0, <3>3 DEF Request
        <5>3. /\ pc'[e] \in Owning => attempt'.op = e
              /\ pc'[e] = "bookkeep" => e \in posted
              /\ pc'[e] \notin {"accept", "resolve", "reject"}
              /\ outcome'[e] # "none" => pc'[e] \in {"bookkeep", "done"}
          BY <1>0, <1>1, <2>2, <3>1, <3>3, <4>1, <5>2 DEF Owned, Owning
        <5>4. pc'[e] \in Early \/ outcome'[e] = "blocked" => pc[e] \in Early
          BY <1>0, <1>1, <2>2, <3>1, <3>3, <4>1, <5>1, <5>2 DEF Owned, Early
        <5> QED
          BY <1>0, <4>2, <5>3, <5>4 DEF Owned
    <3> QED
      BY <3>2, <3>3
  <2>5. WritesCounted'
    <3>1. Sent' = Sent /\ Sent \subseteq Exec
      BY <1>0 DEF Sent, IInv, TypeOK
    <3>2. ASSUME NEW e \in Sent PROVE attempt'.op = e /\ pc'[e] \in Written
      <4>1. e \in Exec /\ e \in Proc /\ e # None /\ attempt.op = e /\ pc[e] \in Written
        BY <3>1 DEF Proc, IInv, WritesCounted
      <4> QED
        BY <1>1, <1>4, <2>0, <2>2, <4>1 DEF Written
    <3> QED
      BY <1>0, <3>1, <3>2 DEF IInv, WritesCounted
  <2>6. KnowledgeTrue'
    <3>1. \A e \in Exec : Told(outcome'[e])
      BY <1>0, <1>3, <1>5, <2>2 DEF IInv, KnowledgeTrue, Told, Honest
    <3> QED
      BY <1>0, <3>1 DEF IInv, KnowledgeTrue, Told
  <2> QED
    BY <1>1, <1>2, <2>3, <2>4, <2>5, <2>6 DEF IInv
<1> QED
  BY <1>0, <1>6, <1>7

\* The provider makes or turns down the post of a write in transit.
LEMMA ProviderStep ==
    ASSUME IInv, TypeOK', NEW e \in Exec, ProviderPost(e) \/ ProviderRefuse(e)
    PROVE  /\ IInv'
           /\ e = attempt.op /\ posted = {} /\ refused = {}
           /\ attempt.state \in {"dispatching", "unknown"}
<1>0. /\ intent' = intent /\ attempt' = attempt /\ angle' = angle /\ writes' = writes
      /\ net' = net /\ pc' = pc /\ rd' = rd /\ row' = row /\ outcome' = outcome
      /\ posted \subseteq posted' /\ refused \subseteq refused'
  BY DEF ProviderPost, ProviderRefuse, ledgerVars, procVars
<1>1. Sent' = Sent
  BY DEF ProviderPost, ProviderRefuse, Sent
<1>2. e \in inbox
  BY DEF ProviderPost, ProviderRefuse
<1>3. \A x \in Sent : x = e
  BY <1>2 DEF IInv, WritesCounted, Sent
<1>4. e = attempt.op /\ posted = {} /\ refused = {}
  BY <1>2, <1>3 DEF IInv, WritesCounted, Sent
<1>5. attempt.state \in {"dispatching", "unknown"}
  BY <1>4 DEF IInv, RowsAgree, SettledTruthfully, TypeOK, AttemptRow, AttemptState
<1>6. RowsAgree' /\ SettledTruthfully' /\ CallsHonest'
  BY <1>0 DEF IInv, RowsAgree, SettledTruthfully, CallsHonest, Honest
<1>7. Ownership'
  BY <1>0 DEF IInv, Ownership, Owned
<1>8. WritesCounted'
  <2>1. inbox' \cap (posted' \cup refused') = {} /\ posted' \cap refused' = {}
    BY <1>2, <1>4 DEF ProviderPost, ProviderRefuse
  <2> QED
    BY <1>0, <1>1, <2>1 DEF IInv, WritesCounted
<1>9. KnowledgeTrue'
  BY <1>0 DEF IInv, KnowledgeTrue, Told
<1> QED
  BY <1>4, <1>5, <1>6, <1>7, <1>8, <1>9 DEF IInv

\* The one write: nobody has written before, because whoever had would own the
\* attempt and be past its write.
LEMMA WriteStep ==
    ASSUME IInv, TypeOK', NEW e \in Exec, Write(e)
    PROVE  IInv'
<1>0. /\ intent' = intent /\ attempt' = attempt /\ angle' = angle /\ rd' = rd /\ row' = row
      /\ net' = net /\ outcome' = outcome /\ posted' = posted /\ refused' = refused
      /\ pc[e] = "send" /\ pc' = [pc EXCEPT ![e] = "sent"]
      /\ inbox' = inbox \cup {e} /\ writes' = writes + 1
  BY DEF Write, Goto, ledgerVars
<1>1. e \in Proc /\ e \notin Recoverer /\ attempt.op = e
  BY <1>0 DEF Proc, IInv, Ownership, Owned, Owning
<1>2. Sent = {} /\ writes = 0
  BY <1>0, <1>1 DEF IInv, WritesCounted, Written, Sent
<1>3. Sent' = {e} /\ writes' = 1
  BY <1>0, <1>2 DEF Sent
<1>4. /\ \A q \in Proc : q # e => pc'[q] = pc[q]
      /\ pc'[e] = "sent"
  BY <1>0, <1>1 DEF IInv, TypeOK
<1>5. RowsAgree' /\ SettledTruthfully' /\ KnowledgeTrue'
  BY <1>0 DEF IInv, RowsAgree, SettledTruthfully, KnowledgeTrue, Told
<1>6. CallsHonest'
  BY <1>0, <1>1, <1>4 DEF IInv, CallsHonest, Honest, Proc
<1>7. Ownership'
  BY <1>0, <1>1, <1>4 DEF IInv, Ownership, Owned, Owning, Early, Proc
<1>8. WritesCounted'
  BY <1>0, <1>1, <1>2, <1>3, <1>4 DEF WritesCounted, Written, Sent
<1> QED
  BY <1>5, <1>6, <1>7, <1>8 DEF IInv

\* Clocks and the visibility check.
LEMMA ClockStep ==
    ASSUME IInv, TypeOK', LeaseExpires \/ DispatchAges \/ VerifyVisible,
           UNCHANGED <<procVars, providerVars, angle>>
    PROVE  IInv'
<1>0. /\ net' = net /\ pc' = pc /\ rd' = rd /\ row' = row /\ outcome' = outcome /\ angle' = angle
      /\ inbox' = inbox /\ posted' = posted /\ refused' = refused /\ writes' = writes
  BY DEF LeaseExpires, DispatchAges, VerifyVisible, procVars, providerVars
<1>1. attempt'.op = attempt.op /\ attempt'.ext = attempt.ext
  BY DEF LeaseExpires, DispatchAges, VerifyVisible, IInv, TypeOK, AttemptRow
<1>2. \/ attempt'.state = attempt.state /\ intent'.state = intent.state
      \/ attempt.state = "accepted" /\ attempt'.state = "verified" /\ intent'.state = "verified"
  BY DEF LeaseExpires, DispatchAges, VerifyVisible, IInv, TypeOK, AttemptRow, IntentRow
<1>3. RowsAgree' /\ SettledTruthfully'
  BY <1>0, <1>1, <1>2 DEF IInv, RowsAgree, SettledTruthfully
<1>4. CallsHonest' /\ Ownership' /\ KnowledgeTrue'
  BY <1>0, <1>1 DEF IInv, CallsHonest, Honest, Ownership, Owned, KnowledgeTrue, Told
<1>5. WritesCounted'
  BY <1>0, <1>1 DEF IInv, WritesCounted, Sent
<1> QED
  BY <1>3, <1>4, <1>5 DEF IInv

\* The executor starts sound.
THEOREM InvInit == Init => IInv
<1> SUFFICES ASSUME Init PROVE IInv
  OBVIOUS
<1>1. TypeOK
  <2>1. 1 \in 1..Tries /\ Unread \in Partial
    BY RowTypes DEF Unread, Partial
  <2> QED
    BY <2>1, RowTypes, FreshHeld DEF Init, TypeOK, PC, ReadPC, Outcome
<1>2. RowsAgree /\ SettledTruthfully
  BY DEF Init, RowsAgree, SettledTruthfully, NoIntent, NoAttempt
<1>3. CallsHonest /\ Ownership
  BY DEF Init, CallsHonest, Ownership, Owned, Owning, Early, Proc, Fresh, NoAttempt
<1>4. WritesCounted /\ KnowledgeTrue
  BY DEF Init, WritesCounted, Sent, KnowledgeTrue, Told, Unread, NoIntent, NoAttempt
<1> QED
  BY <1>1, <1>2, <1>3, <1>4 DEF IInv

\* Every step of the executor, the provider and the clocks keeps the invariant.
THEOREM InvStep == IInv /\ [Next]_vars => IInv'
<1> SUFFICES ASSUME IInv, [Next]_vars PROVE IInv'
  OBVIOUS
<1>t. TypeOK /\ TypeOK'
  BY TypeStep DEF IInv
<1>e. \A e \in Exec : e \in Proc /\ e \notin Recoverer /\ row[e] \in Held /\ row[e].token = e
                      /\ Owned(e) /\ (e \in Sent => attempt.op = e /\ pc[e] \in Written)
  BY <1>t DEF Proc, TypeOK, IInv, CallsHonest, Ownership, WritesCounted
<1>o. \A e \in Exec : pc[e] \notin {"bookkeep", "done"} => outcome[e] = "none"
  BY <1>e DEF Owned
<1>k. UNCHANGED <<ledgerVars, rd, providerVars, angle>> =>
        \A q \in Proc : Told(rd'[q].intent.state) /\ Told(rd'[q].attempt.state)
  BY KeepTold
<1>1. ASSUME NEW p \in Proc, ReadStep(p) PROVE IInv'
  <2>0. /\ UNCHANGED <<ledgerVars, net, pc, row, try, outcome, providerVars, angle>>
        /\ pc' = pc /\ net' = net /\ row' = row /\ outcome' = outcome
    BY <1>1 DEF ReadStep, ReadIntent, ReadAttempt, SetRead
  <2>1. Told(intent.state) /\ Told(attempt.state)
    BY DEF IInv, RowsAgree, SettledTruthfully, Told
  <2>2. \A q \in Proc : Told(rd'[q].intent.state) /\ Told(rd'[q].attempt.state)
    <3>1. CASE ReadIntent(p)
      <4>1. rd' = [rd EXCEPT ![p] = [Unread EXCEPT !.step = "attempt", !.intent = Seen(p, intent)]]
        BY <3>1 DEF ReadIntent, SetRead
      <4>2. Seen(p, intent).state = intent.state
        BY DEF Seen, NoIntent
      <4> QED
        BY <1>t, <2>1, <4>1, <4>2 DEF TypeOK, IInv, KnowledgeTrue, Unread, NoAttempt, Told
    <3>2. CASE ReadAttempt(p)
      <4>1. rd' = [rd EXCEPT ![p] = [rd[p] EXCEPT !.step = "history", !.attempt = attempt]]
        BY <3>2 DEF ReadAttempt, SetRead
      <4> QED
        BY <1>t, <2>1, <4>1 DEF TypeOK, Partial, IInv, KnowledgeTrue
    <3> QED
      BY <1>1, <3>1, <3>2 DEF ReadStep
  <2>3. p \in Exec => Owned(p)'
    BY <2>0, <1>e DEF Owned, ledgerVars, providerVars
  <2> QED
    BY <1>t, <1>e, <2>0, <2>2, <2>3, LocalStep DEF IInv, CallsHonest, KnowledgeTrue
<1>2. ASSUME NEW p \in Proc, LoadFails(p) PROVE IInv'
  <2>1. \A q \in Proc : Told(rd'[q].intent.state) /\ Told(rd'[q].attempt.state)
    BY <1>2, DropTold DEF LoadFails
  <2>2. Told("blocked")
    BY DEF Told
  <2>3. CASE p \in Exec
    BY <1>t, <1>2, <2>1, <2>2, <2>3, ExecReturns DEF LoadFails, Outcome, Early
  <2>4. CASE p \in Recoverer
    BY <1>t, <1>2, <2>1, <2>4, RecovererSteps DEF LoadFails
  <2> QED
    BY <2>3, <2>4 DEF Proc
<1>3. ASSUME NEW p \in Proc, Resend(p) PROVE IInv'
  <2>0. /\ pc' = pc /\ row' = row /\ outcome' = outcome /\ rd' = rd
        /\ net' = net \cup {RequestOf(p, pc[p], row[p], try[p] + 1)} /\ pc[p] \in Kind
        /\ UNCHANGED <<ledgerVars, providerVars, angle>>
    BY <1>3 DEF Resend, CallPC
  <2>1. Honest(RequestOf(p, pc[p], row[p], try[p] + 1))
    <3>1. CASE p \in Exec
      BY <1>e, <3>1 DEF Honest, RequestOf, Owned
    <3>2. CASE p \in Recoverer
      BY <2>0, <3>2 DEF Honest, RequestOf, IInv, CallsHonest, Kind
    <3> QED
      BY <3>1, <3>2 DEF Proc
  <2>2. \A r \in net' : r \in net \/ (r.by = p /\ r.kind = pc[p] /\ Honest(r))
    BY <2>0, <2>1 DEF RequestOf
  <2>3. p \in Exec => Owned(p)'
    BY <2>0, <2>2, <1>e, <1>o DEF Owned, Early, ledgerVars, providerVars, Kind
  <2> QED
    BY <1>t, <1>e, <2>0, <2>2, <2>3, KeepTold, LocalStep DEF IInv, CallsHonest, KnowledgeTrue
<1>4. ASSUME NEW p \in Proc, GiveUp(p) PROVE IInv'
  <2>1. CASE p \in Exec /\ pc[p] \in {"claim", "begin", "unknown"}
    <3>1. PICK why \in {"claimLost", "beginLost", "unknownLost"} :
             Look(p, why, {}) /\ pc[p] = (CASE why = "claimLost" -> "claim"
                                            [] why = "beginLost" -> "begin"
                                            [] why = "unknownLost" -> "unknown")
      BY <1>4, <2>1 DEF GiveUp
    <3>2. /\ pc' = [pc EXCEPT ![p] = why] /\ net' = net /\ outcome' = outcome /\ rd' = rd
          /\ row' = [row EXCEPT ![p].ver = 0, ![p].live = FALSE]
          /\ UNCHANGED <<ledgerVars, providerVars, angle>>
      BY <1>4, <3>1 DEF GiveUp, Look, Goto
    <3>3. /\ \A q \in Proc : q # p => pc'[q] = pc[q] /\ row'[q] = row[q]
          /\ pc'[p] = why /\ row'[p].token = p
      BY <1>t, <1>e, <2>1, <3>2 DEF TypeOK, Held
    <3>4. Owned(p)'
      BY <1>e, <1>o, <2>1, <3>1, <3>2, <3>3
      DEF Owned, Owning, Early, ledgerVars, providerVars
    <3>5. p \in Sent => why \in Written
      BY <1>e, <2>1, <3>1 DEF Written
    <3>6. /\ p \in Proc /\ p \notin Recoverer /\ pc'[p] = why /\ row'[p].token = p
          /\ Told(outcome'[p])
          /\ \A x \in Exec : x # p => outcome'[x] = outcome[x]
          /\ \A r \in net' : r \in net
          /\ \A q \in Proc : q # p => pc'[q] = pc[q] /\ row'[q] = row[q]
          /\ \A q \in Proc : Told(rd'[q].intent.state) /\ Told(rd'[q].attempt.state)
      BY <1>e, <2>1, <3>2, <3>3, KeepTold DEF IInv, KnowledgeTrue
    <3> QED
      BY <1>t, <2>1, <3>2, <3>4, <3>5, <3>6, LocalStep
  <2>2. CASE p \in Exec /\ pc[p] \in {"accept", "resolve", "reject"}
    <3>1. Call(p, "unknown", row[p], {}) /\ UNCHANGED <<ledgerVars, rd, providerVars, angle>>
      BY <1>4, <2>2 DEF GiveUp
    <3> QED
      BY <1>t, <1>e, <1>o, <1>k, <2>2, <3>1, ExecCalls DEF Kind, Owning, Early, Written
  <2>3. CASE p \in Exec /\ pc[p] = "release"
    <3>1. Return(p, "blocked", {}) /\ UNCHANGED <<ledgerVars, rd, providerVars, angle>>
      BY <1>e, <1>4, <2>3 DEF GiveUp
    <3>2. Told("blocked")
      BY DEF Told
    <3> QED
      BY <1>t, <1>k, <2>3, <3>1, <3>2, ExecReturns DEF Early, Outcome
  <2>4. CASE p \in Recoverer
    <3>1. PICK why \in {"raced", "unknownLost"} : Look(p, why, {})
      BY <1>4, <2>4, <1>e DEF GiveUp, IInv, CallsHonest
    <3>2. /\ pc' = [pc EXCEPT ![p] = why] /\ net' = net /\ outcome' = outcome /\ rd' = rd
          /\ row' = [row EXCEPT ![p].ver = 0, ![p].live = FALSE]
          /\ UNCHANGED <<ledgerVars, providerVars, angle>>
      BY <1>4, <3>1 DEF GiveUp, Look, Goto
    <3>3. /\ \A q \in Proc : q # p => pc'[q] = pc[q] /\ row'[q] = row[q]
          /\ pc'[p] = why /\ p \notin Exec
      BY <1>t, <1>e, <2>4, <3>2 DEF TypeOK
    <3> QED
      BY <1>t, <2>4, <3>2, <3>3, KeepTold, LocalStep
  <2> QED
    BY <1>4, <2>1, <2>2, <2>3, <2>4 DEF GiveUp, Proc
<1>5. ASSUME NEW p \in Proc, Crash(p) PROVE IInv'
  <2>1. \A q \in Proc : Told(rd'[q].intent.state) /\ Told(rd'[q].attempt.state)
    BY <1>5, DropTold DEF Crash
  <2>2. Told("none") /\ "none" \in Outcome
    BY DEF Told, Outcome
  <2>3. CASE p \in Exec
    BY <1>t, <1>5, <2>1, <2>2, <2>3, ExecReturns DEF Crash
  <2>4. CASE p \in Recoverer
    BY <1>t, <1>5, <2>1, <2>4, RecovererSteps DEF Crash
  <2> QED
    BY <2>3, <2>4 DEF Proc
<1>6. ASSUME NEW p \in Proc, NEW s \in Complete(p), NotOwner(p, s) PROVE IInv'
  <2>0. /\ rd' = [rd EXCEPT ![p] = Unread] /\ UNCHANGED <<ledgerVars, providerVars, angle>>
        /\ p \in Exec => pc[p] = "claimLost"
    BY <1>6 DEF NotOwner, Decide
  <2>1. PICK res \in Outcome : Told(res) /\ Return(p, res, {})
    <3>1. Terminal(s) \in Outcome /\ Told(Terminal(s)) /\ Told("blocked")
      BY <1>t, CompleteTyped, CompleteTold, TerminalTyped DEF Told
    <3> QED
      BY <1>6, <3>1 DEF NotOwner, Outcome
  <2>2. CASE p \in Exec
    BY <1>t, <2>0, <2>1, <2>2, DropTold, ExecReturns DEF Early
  <2>3. CASE p \in Recoverer
    BY <1>t, <2>0, <2>1, <2>3, DropTold, RecovererSteps
  <2> QED
    BY <2>2, <2>3 DEF Proc
<1>7. ASSUME NEW p \in Proc, NEW s \in Complete(p), UnknownLost(p, s) PROVE IInv'
  <2>0. rd' = [rd EXCEPT ![p] = Unread] /\ UNCHANGED <<ledgerVars, providerVars, angle>>
    BY <1>7 DEF UnknownLost, Decide
  <2>1. PICK res \in {"accepted", "verified", "unknown"} : Told(res) /\ Return(p, res, {})
    <3>1. Told(Terminal(s)) /\ Told("unknown")
      BY CompleteTold DEF Told
    <3> QED
      BY <1>7, <3>1 DEF UnknownLost
  <2>2. CASE p \in Exec
    BY <1>t, <2>0, <2>1, <2>2, DropTold, ExecReturns DEF Outcome
  <2>3. CASE p \in Recoverer
    BY <1>t, <2>0, <2>1, <2>3, DropTold, RecovererSteps
  <2> QED
    BY <2>2, <2>3 DEF Proc
<1>8. ASSUME NEW e \in Exec, NEW s \in Complete(e), Loaded(e, s) PROVE IInv'
  <2>0. /\ rd' = [rd EXCEPT ![e] = Unread] /\ UNCHANGED <<ledgerVars, providerVars, angle>>
        /\ pc[e] = "load"
    BY <1>8 DEF Loaded, Decide
  <2>1. /\ Terminal(s) \in Outcome /\ Told(Terminal(s)) /\ Told("blocked") /\ "blocked" \in Outcome
        /\ Fresh(e) \in Held /\ Fresh(e).token = e
    BY <1>t, <1>e, CompleteTyped, CompleteTold, TerminalTyped, FreshHeld DEF Told, Outcome, Fresh
  <2>2. CASE Call(e, "claim", Fresh(e), {})
    BY <1>t, <1>e, <1>o, <2>0, <2>1, <2>2, DropTold, ExecCalls DEF Kind, Owning, Early, Written
  <2>3. CASE Return(e, Terminal(s), {}) \/ Return(e, "blocked", {})
    BY <1>t, <1>e, <2>0, <2>1, <2>3, DropTold, ExecReturns DEF Early
  <2> QED
    BY <1>8, <2>2, <2>3 DEF Loaded
<1>9. ASSUME NEW e \in Exec, NEW s \in Complete(e), BeginLost(e, s) PROVE IInv'
  <2>0. /\ rd' = [rd EXCEPT ![e] = Unread] /\ UNCHANGED <<ledgerVars, providerVars, angle>>
        /\ pc[e] = "beginLost"
    BY <1>9 DEF BeginLost, Decide
  <2>1. /\ Told("unknown") /\ "unknown" \in Outcome
        /\ Fresh(e) \in Held /\ Fresh(e).token = e
    BY <1>e, FreshHeld DEF Told, Outcome, Fresh
  <2>2. CASE Call(e, "unknown", Fresh(e), {})
    BY <1>t, <1>e, <1>o, <2>0, <2>1, <2>2, DropTold, ExecCalls DEF Kind, Owning, Early, Written
  <2>3. CASE Return(e, "unknown", {})
    BY <1>t, <1>e, <2>0, <2>1, <2>3, DropTold, ExecReturns
  <2> QED
    BY <1>9, <2>2, <2>3 DEF BeginLost
<1>10. ASSUME NEW e \in Exec, Prepare(e) \/ Stopped(e) PROVE IInv'
  BY <1>t, <1>e, <1>o, <1>k, <1>10, ExecCalls
  DEF Prepare, Stopped, Kind, Owning, Early, Written
<1>11. ASSUME NEW e \in Exec, NEW a \in Answer, Receive(e, a) PROVE IInv'
  <2>1. PICK kind \in {"accept", "reject", "unknown"} :
          /\ Call(e, kind, row[e], {})
          /\ kind = "accept" => e \in posted
          /\ kind = "reject" => e \in refused
    BY <1>11 DEF Receive, Classify, Possible
  <2>2. pc[e] = "sent" /\ attempt.op = e /\ UNCHANGED <<ledgerVars, rd, providerVars, angle>>
    BY <1>e, <1>11 DEF Receive, Owned, Owning
  <2> QED
    BY <1>t, <1>e, <1>o, <1>k, <2>1, <2>2, ExecCalls DEF Kind, Owning, Early, Written
<1>12. ASSUME NEW e \in Exec, Bookkeep(e) PROVE IInv'
  <2>1. e \in posted /\ pc[e] = "bookkeep"
    BY <1>e, <1>12 DEF Bookkeep, Owned
  <2>0. /\ intent' = intent /\ attempt' = attempt /\ rd' = rd /\ net' = net
        /\ inbox' = inbox /\ posted' = posted /\ refused' = refused /\ writes' = writes
        /\ pc' = [pc EXCEPT ![e] = "done"] /\ row' = [row EXCEPT ![e] = Fresh(e)]
        /\ outcome' = [x \in Exec |-> IF x = e THEN outcome[e] ELSE outcome[x]]
    BY <1>12 DEF Bookkeep, Return, Goto, ledgerVars, providerVars
  <2>2. /\ outcome' = outcome
        /\ \A q \in Proc : q # e => pc'[q] = pc[q] /\ row'[q] = row[q]
        /\ pc'[e] = "done" /\ row'[e].token = e
    BY <1>t, <1>e, <2>0 DEF TypeOK, Fresh
  <2>3. RowsAgree' /\ SettledTruthfully' /\ KnowledgeTrue'
    BY <2>0, <2>1, <2>2 DEF IInv, RowsAgree, SettledTruthfully, KnowledgeTrue, Told
  <2>4. CallsHonest'
    BY <1>e, <2>0, <2>2 DEF IInv, CallsHonest, Honest, Proc
  <2>5. Ownership'
    <3> SUFFICES ASSUME NEW x \in Exec PROVE Owned(x)'
      BY DEF Ownership
    <3>1. x \in Proc /\ Owned(x)
      BY <1>e
    <3> QED
      BY <2>0, <2>1, <2>2, <3>1 DEF Owned, Owning, Early
  <2>6. WritesCounted'
    <3>1. Sent' = Sent /\ Sent \subseteq Exec
      BY <1>t, <2>0 DEF Sent, TypeOK
    <3> QED
      BY <1>e, <2>0, <2>2, <3>1 DEF IInv, WritesCounted, Written
  <2> QED
    BY <1>t, <2>3, <2>4, <2>5, <2>6 DEF IInv
<1>13. ASSUME NEW r \in Recoverer, Scan(r) PROVE IInv'
  <2>1. r \in Proc /\ r \notin Exec
    BY DEF Proc
  <2>2. /\ pc' = [pc EXCEPT ![r] = "load"] /\ net' = net /\ rd' = rd /\ row' = row
        /\ outcome' = outcome /\ UNCHANGED <<ledgerVars, providerVars, angle>>
    BY <1>13 DEF Scan, Goto
  <2>3. /\ \A q \in Proc : q # r => pc'[q] = pc[q]
        /\ pc'[r] = "load"
    BY <1>t, <2>1, <2>2 DEF TypeOK
  <2> QED
    BY <1>t, <2>1, <2>2, <2>3, KeepTold, LocalStep
<1>14. ASSUME NEW r \in Recoverer, NEW s \in Complete(r), Reconcile(r, s) PROVE IInv'
  <2>0. rd' = [rd EXCEPT ![r] = Unread] /\ UNCHANGED <<ledgerVars, providerVars, angle>>
    BY <1>14 DEF Reconcile, Decide
  <2>1. \E kind \in {"release", "unknown"} : \E held, res :
          Call(r, kind, held, {}) \/ Return(r, res, {})
    BY <1>14 DEF Reconcile
  <2> QED
    BY <1>t, <2>0, <2>1, DropTold, RecovererSteps DEF Proc
<1>15. ASSUME NEW r \in net, Refuse(r) PROVE IInv'
  <2>0. UNCHANGED <<ledgerVars, rd, providerVars, angle>>
    BY <1>15 DEF Refuse
  <2>1. CASE Lost(r)
    <3>1. pc' = pc /\ row' = row /\ outcome' = outcome /\ net' \subseteq net
      BY <2>1 DEF Lost
    <3>2. RowsAgree' /\ SettledTruthfully' /\ KnowledgeTrue'
      BY <2>0, <3>1 DEF IInv, RowsAgree, SettledTruthfully, KnowledgeTrue, Told,
                        ledgerVars, providerVars
    <3>3. CallsHonest' /\ Ownership' /\ WritesCounted'
      BY <2>0, <3>1 DEF IInv, CallsHonest, Honest, Ownership, Owned, WritesCounted, Sent,
                        ledgerVars, providerVars
    <3> QED
      BY <1>t, <3>2, <3>3 DEF IInv
  <2>2. CASE /\ r.kind = "accept" /\ Waits(r) /\ Replay(r)
             /\ Call(r.by, "resolve", row[r.by], {r})
    <3>1. r.by \in Exec /\ pc[r.by] = "accept"
      BY <2>2 DEF Waits, IInv, CallsHonest, Honest
    <3> QED
      BY <1>t, <1>e, <1>o, <1>k, <2>0, <2>2, <3>1, ExecCalls
      DEF Kind, Owning, Early, Written, Owned
  <2> QED
    BY <1>15, <2>1, <2>2 DEF Refuse
<1>16. CASE UNCHANGED vars
  BY <1>16, <1>t DEF vars, IInv, RowsAgree, SettledTruthfully, KnowledgeTrue, Told, CallsHonest,
     Honest, Ownership, Owned, WritesCounted, Sent
<1> QED
  BY <1>t, <1>1, <1>2, <1>3, <1>4, <1>5, <1>6, <1>7, <1>8, <1>9, <1>10, <1>11, <1>12, <1>13,
     <1>14, <1>15, <1>16, ApplyStep, ProviderStep, WriteStep, ClockStep
  DEF Next, ExecStep, RecoverStep, Database
----------------------------------------------------------------------------
(* The theorems *)

\* The inductive invariant holds in every reachable state.
THEOREM Invariance == Spec => []IInv
BY InvInit, InvStep, PTL DEF Spec

\* Every variable of executePublication, reconcilePublication and the ledger
\* stays within its type.
THEOREM TypeCorrect == Spec => []TypeOK
<1>1. IInv => TypeOK
  BY DEF IInv
<1> QED
  BY <1>1, Invariance, PTL

\* However many executions, recoverers and call copies there are, the provider
\* sees at most one write for a queue item.
THEOREM OneWrite == Spec => []AtMostOneWrite
<1>1. IInv => AtMostOneWrite
  BY DEF IInv, WritesCounted, AtMostOneWrite
<1> QED
  BY <1>1, Invariance, PTL

\* A write that exists in any form is named by a durable dispatch attempt.
THEOREM Recorded == Spec => []NothingUnrecorded
<1>1. IInv => NothingUnrecorded
  BY DEF IInv, WritesCounted, NothingUnrecorded
<1> QED
  BY <1>1, Invariance, PTL

\* accepted, verified and rejected on record are true of the provider.
THEOREM Truth == Spec => []SettledTruthfully
<1>1. IInv => SettledTruthfully
  BY DEF IInv
<1> QED
  BY <1>1, Invariance, PTL

\* Whoever wrote is the one operation on record; so nothing is both posted and
\* refused, and what is refused is all that was ever sent.
LEMMA RefusedAlone ==
    ASSUME IInv, refused # {}
    PROVE  posted = {} /\ inbox = {}
<1>1. PICK e \in refused : TRUE
  OBVIOUS
<1>2. \A x \in Sent : x = e
  BY <1>1 DEF IInv, WritesCounted, Sent
<1> QED
  BY <1>1, <1>2 DEF IInv, WritesCounted, Sent

\* The outcome an execution returns is true for its caller.
THEOREM Reports == Spec => []ReportedTruthfully
<1>1. ASSUME IInv PROVE ReportedTruthfully
  BY <1>1, RefusedAlone DEF IInv, KnowledgeTrue, Told, Ownership, Owned, ReportedTruthfully
<1> QED
  BY <1>1, Invariance, PTL

\* An angle marked published has a post.
THEOREM Angle == Spec => []AngleFollowsPost
<1>1. IInv => AngleFollowsPost
  BY DEF IInv, KnowledgeTrue, AngleFollowsPost
<1> QED
  BY <1>1, Invariance, PTL

\* Every step leaves the rows and the posts alone, applies one procedure call,
\* is the provider's post, or is a clock or visibility step.
LEMMA RowsStep ==
    ASSUME [Next]_vars
    PROVE  \/ intent' = intent /\ attempt' = attempt /\ posted' = posted
           \/ \E r \in net : Accepts(r) /\ Effect(r) /\ posted' = posted /\ net' = net \ {r}
           \/ \E e \in Exec : ProviderPost(e)
           \/ (LeaseExpires \/ DispatchAges \/ VerifyVisible) /\ posted' = posted
<1> USE DEF ledgerVars, providerVars
<1>1. ASSUME NEW p \in Proc,
             \/ ReadStep(p) \/ LoadFails(p) \/ Resend(p) \/ GiveUp(p) \/ Crash(p)
             \/ \E s \in Complete(p) : NotOwner(p, s) \/ UnknownLost(p, s)
      PROVE  intent' = intent /\ attempt' = attempt /\ posted' = posted
  BY <1>1 DEF ReadStep, ReadIntent, ReadAttempt, SetRead, LoadFails, Resend, GiveUp, Crash,
              NotOwner, UnknownLost, Decide
<1>2. ASSUME NEW e \in Exec, ExecStep(e)
      PROVE  intent' = intent /\ attempt' = attempt /\ posted' = posted
  BY <1>2 DEF ExecStep, Loaded, BeginLost, Decide, Prepare, Stopped, Write, Bookkeep, Receive
<1>3. ASSUME NEW e \in Exec, ProviderRefuse(e)
      PROVE  intent' = intent /\ attempt' = attempt /\ posted' = posted
  BY <1>3 DEF ProviderRefuse
<1>4. ASSUME NEW r \in Recoverer, RecoverStep(r)
      PROVE  intent' = intent /\ attempt' = attempt /\ posted' = posted
  BY <1>4 DEF RecoverStep, Scan, Reconcile, Decide
<1>5. ASSUME NEW r \in net, Refuse(r)
      PROVE  intent' = intent /\ attempt' = attempt /\ posted' = posted
  BY <1>5 DEF Refuse
<1>6. ASSUME NEW r \in net, Apply(r)
      PROVE  Accepts(r) /\ Effect(r) /\ posted' = posted /\ net' = net \ {r}
  BY <1>6 DEF Apply, Reply, Lost, Return, Look
<1>7. CASE UNCHANGED vars
  BY <1>7 DEF vars
<1> QED
  BY <1>1, <1>2, <1>3, <1>4, <1>5, <1>6, <1>7 DEF Next, Database

\* A dispatch on record is never reopened nor given to another operation.
THEOREM Final == Spec => DispatchIsFinal
<1>1. ASSUME IInv, [Next]_vars, IInv', attempt.op # None
      PROVE  attempt'.op = attempt.op /\ intent'.state = attempt'.state
  <2>1. attempt'.op = attempt.op
    BY <1>1, RowsStep, EffectFacts
    DEF ProviderPost, ledgerVars, LeaseExpires, DispatchAges, VerifyVisible, IInv, TypeOK, AttemptRow
  <2> QED
    BY <1>1, <2>1 DEF IInv, RowsAgree
<1>2. IInv /\ [Next]_vars /\ IInv' =>
        [attempt.op # None => /\ attempt'.op = attempt.op
                              /\ intent'.state = attempt'.state]_vars
  BY <1>1
<1> QED
  BY <1>2, Invariance, PTL DEF Spec, DispatchIsFinal
----------------------------------------------------------------------------
(* The executor implements the promise *)

\* A procedure call maps to a step of the promise or to none.
LEMMA EffectPromised ==
    ASSUME IInv, NEW r \in net, Accepts(r), Effect(r), posted' = posted
    PROVE  [Promise!Next]_(Promise!vars)
<1>0. /\ intent \in IntentRow /\ attempt \in AttemptRow /\ r \in Request
      /\ RowsAgree /\ SettledTruthfully /\ Honest(r)
  BY DEF IInv, TypeOK, CallsHonest
<1>s. attempt'.state = attempt.state => UNCHANGED Promise!vars
  BY DEF Promise!vars
<1>1. CASE r.kind \in {"claim", "release"}
  <2>1. attempt' = attempt
    BY <1>1 DEF Effect
  <2> QED
    BY <1>s, <2>1
<1>2. CASE r.kind = "begin"
  <2>1. CASE attempt' = attempt
    BY <1>s, <2>1
  <2>2. CASE attempt' # attempt
    <3>1. attempt.op = None /\ attempt'.state = "dispatching"
      BY <1>0, <1>2, <2>2 DEF Effect, Accepts, HoldsClaim, RowsAgree, ledgerVars, AttemptRow, AttemptState
    <3>2. attempt.state = "none"
      BY <1>0, <3>1 DEF RowsAgree
    <3> QED
      BY <3>1, <3>2 DEF Promise!Next, Promise!Dispatch, PhaseOf
  <2> QED
    BY <2>1, <2>2
<1>3. CASE r.kind \in {"accept", "resolve"}
  <2>1. CASE attempt.state \in {"accepted", "verified"}
    <3>1. attempt' = attempt
      BY <1>3, <2>1 DEF Effect, ledgerVars
    <3> QED
      BY <1>s, <3>1
  <2>2. CASE attempt.state \notin {"accepted", "verified"}
    <3>1. attempt'.state = "accepted"
      BY <1>0, <1>3, <2>2 DEF Effect, Settle, AttemptRow
    <3>2. attempt.state \in {"dispatching", "unknown"} /\ posted # {}
      BY <1>0, <1>3, <2>2 DEF Accepts, Honest
    <3> QED
      BY <3>1, <3>2 DEF Promise!Next, Promise!Publish, Promise!InDoubt, PhaseOf
  <2> QED
    BY <2>1, <2>2
<1>4. CASE r.kind = "reject"
  <2>1. attempt'.state = "rejected" /\ r.op \in refused /\ attempt.state \in {"dispatching", "rejected"}
    BY <1>0, <1>4 DEF Effect, Settle, AttemptRow, Accepts, Honest
  <2>2. posted = {}
    BY <2>1, RefusedAlone
  <2> QED
    BY <1>s, <2>1, <2>2 DEF Promise!Next, Promise!Refuse, PhaseOf
<1>5. CASE r.kind = "unknown"
  <2>1. attempt'.state = "unknown" /\ attempt.state \in {"dispatching", "unknown"}
    BY <1>0, <1>5 DEF Effect, Settle, AttemptRow, Accepts
  <2> QED
    BY <1>s, <2>1 DEF Promise!Next, Promise!Doubt, PhaseOf
<1> QED
  BY <1>0, <1>1, <1>2, <1>3, <1>4, <1>5 DEF Request, Kind

\* Every step is one the promise allows, or none.
LEMMA StepPromised ==
    ASSUME IInv, [Next]_vars
    PROVE  [Promise!Next]_(Promise!vars)
<1>1. CASE intent' = intent /\ attempt' = attempt /\ posted' = posted
  BY <1>1 DEF Promise!vars
<1>2. ASSUME NEW e \in Exec, ProviderPost(e)
      PROVE  [Promise!Next]_(Promise!vars)
  <2>1. posted = {} /\ attempt.state \in {"dispatching", "unknown"}
    BY <1>2, TypeStep, ProviderStep DEF IInv
  <2>2. attempt' = attempt /\ posted' # {}
    BY <1>2 DEF ProviderPost, ledgerVars
  <2> QED
    BY <2>1, <2>2 DEF Promise!Next, Promise!Post, Promise!InDoubt, PhaseOf
<1>3. CASE (LeaseExpires \/ DispatchAges \/ VerifyVisible) /\ posted' = posted
  <2>1. PhaseOf(attempt'.state) = PhaseOf(attempt.state)
    BY <1>3 DEF LeaseExpires, DispatchAges, VerifyVisible, PhaseOf, IInv, TypeOK, AttemptRow
  <2> QED
    BY <1>3, <2>1 DEF Promise!vars
<1> QED
  BY <1>1, <1>2, <1>3, RowsStep, EffectPromised

\* Seen as a phase of the record and the existence of the post, every behaviour
\* of executions, recoverers, provider and network is one of the promise.
THEOREM Refinement == Spec => KeepsPromise
<1>1. Init => Promise!Init
  BY DEF Init, Promise!Init, PhaseOf, NoAttempt
<1>2. IInv /\ [Next]_vars => [Promise!Next]_(Promise!vars)
  BY StepPromised
<1> QED
  BY <1>1, <1>2, Invariance, PTL DEF Spec, KeepsPromise, Promise!Spec

----------------------------------------------------------------------------
(* Recovery by honest clocks *)

\* A claim that has lapsed stays so: a takeover gives the next version.
LEMMA LapsedStays ==
    ASSUME IInv, [Next]_vars, NEW v \in Nat, Lapsed(v)
    PROVE  Lapsed(v)'
<1>1. intent \in IntentRow /\ intent.ver \in Nat
  BY DEF IInv, TypeOK, IntentRow
<1>2. CASE intent' = intent
  BY <1>2 DEF Lapsed
<1>3. ASSUME NEW r \in net, Effect(r) PROVE Lapsed(v)'
  <2>1. CASE r.kind = "claim"
    <3>1. intent' = intent \/ intent'.ver = intent.ver + 1
      BY <1>3, <2>1 DEF Effect, ClaimRow
    <3> QED BY <1>1, <1>2, <3>1 DEF Lapsed
  <2>2. CASE r.kind = "release"
    <3>1. intent' = intent \/ (intent'.ver = intent.ver /\ intent'.state = "scheduled")
      BY <1>3, <2>2 DEF Effect, HoldsClaim
    <3> QED BY <1>1, <1>2, <3>1 DEF Lapsed
  <2>3. CASE r.kind \notin {"claim", "release"}
    <3>1. \/ intent' = intent
          \/ \E state \in AttemptState : intent' = [intent EXCEPT !.state = state]
      BY <1>3, <2>3 DEF Effect, Settle, ledgerVars, AttemptState
    <3>2. intent' = intent \/ (intent'.ver = intent.ver /\ intent'.state # "claimed")
      BY <1>1, <3>1 DEF IntentRow, AttemptState
    <3> QED BY <1>1, <1>2, <3>2 DEF Lapsed
  <2> QED BY <2>1, <2>2, <2>3
<1>4. CASE LeaseExpires \/ DispatchAges \/ VerifyVisible
  <2>1. intent' = intent \/ (intent'.ver = intent.ver
                             /\ (intent'.lease = "expired" \/ intent'.state = "verified"))
    BY <1>1, <1>4 DEF LeaseExpires, DispatchAges, VerifyVisible, IntentRow
  <2> QED BY <1>1, <1>2, <2>1 DEF Lapsed
<1>5. ASSUME NEW e \in Exec, ProviderPost(e) PROVE intent' = intent
  BY <1>5 DEF ProviderPost, ledgerVars
<1> QED
  BY <1>2, <1>3, <1>4, <1>5, RowsStep

\* A step in which at most one process moves, and asks only what it may.
LEMMA RecoveryMoves ==
    ASSUME IInv, IInv', RecoverySound, [Next]_vars, NEW p \in Proc,
           \A q \in Proc : q # p => pc'[q] = pc[q] /\ row'[q] = row[q] /\ rd'[q] = rd[q],
           \A r \in net' : \/ r \in net \/ r.kind # "release"
                           \/ IF p \in Exec THEN r.by = p /\ r.op = p
                                            ELSE r.by = p /\ r.ver \in Nat /\ Lapsed(r.ver),
           p \in Recoverer =>
               /\ pc'[p] = "release" => Lapsed(row'[p].ver)
               /\ rd'[p].intent.state = "claimed" /\ rd'[p].intent.lease = "expired"
                      => Lapsed(rd'[p].intent.ver)
    PROVE  RecoverySound'
<1>1. /\ \A q \in Proc : row'[q].ver \in Nat /\ rd'[q].intent.ver \in Nat
      /\ \A r \in net' : r.ver \in Nat
  BY DEF IInv, TypeOK, Held, Partial, IntentRow, Request
<1>2. \A q \in Recoverer : q \in Proc /\ q \notin Exec
  BY DEF Proc
<1>3. ASSUME NEW r \in net', r.kind = "release"
      PROVE  IF r.by \in Exec THEN r.op = r.by ELSE Lapsed(r.ver)'
  <2>1. CASE r \in net
    BY <1>1, <1>3, <2>1, LapsedStays DEF RecoverySound
  <2>2. CASE r \notin net
    <3>1. IF p \in Exec THEN r.by = p /\ r.op = p ELSE r.by = p /\ Lapsed(r.ver)
      BY <1>3, <2>2
    <3> QED BY <1>1, <3>1, LapsedStays
  <2> QED BY <2>1, <2>2
<1>4. ASSUME NEW q \in Recoverer, pc'[q] = "release"
      PROVE  Lapsed(row[q].ver)'
  <2>1. PICK v \in Nat : v = row'[q].ver
    BY <1>1, <1>2
  <2>2. Lapsed(v)
    BY <1>2, <1>4, <2>1 DEF RecoverySound
  <2>3. Lapsed(v)'
    BY <2>2, LapsedStays
  <2> QED BY <2>1, <2>3 DEF Lapsed
<1>5. ASSUME NEW q \in Recoverer, rd'[q].intent.state = "claimed", rd'[q].intent.lease = "expired"
      PROVE  Lapsed(rd[q].intent.ver)'
  <2>1. PICK v \in Nat : v = rd'[q].intent.ver
    BY <1>1, <1>2
  <2>2. Lapsed(v)
    BY <1>2, <1>5, <2>1 DEF RecoverySound
  <2>3. Lapsed(v)'
    BY <2>2, LapsedStays
  <2> QED BY <2>1, <2>3 DEF Lapsed
<1> QED
  BY <1>3, <1>4, <1>5 DEF RecoverySound


\* An execution speaks for its own claim; most calls are no release anyway.
LEMMA ExecutionKeepsRecovery ==
    ASSUME IInv, IInv', RecoverySound, [Next]_vars, NEW e \in Exec,
           \A q \in Proc : q # e => pc'[q] = pc[q] /\ row'[q] = row[q] /\ rd'[q] = rd[q],
           \A r \in net' : r \in net \/ r.kind # "release" \/ (r.by = e /\ r.op = e)
    PROVE  RecoverySound'
BY RecoveryMoves DEF Proc

\* The calls and the other ends of a step, for the process that takes it.
LEMMA MovesApart ==
    ASSUME IInv, NEW p \in Proc
    PROVE  /\ \A kind, held, gone : Call(p, kind, held, gone) =>
                 /\ \A q \in Proc : q # p => pc'[q] = pc[q] /\ row'[q] = row[q]
                 /\ pc'[p] = kind /\ row'[p] = held
                 /\ \A r \in net' : r \in net \/ r = RequestOf(p, kind, held, 1)
           /\ \A res, gone : Return(p, res, gone) =>
                 /\ \A q \in Proc : q # p => pc'[q] = pc[q] /\ row'[q] = row[q]
                 /\ pc'[p] # "release" /\ net' \subseteq net
           /\ \A why, gone : Look(p, why, gone) =>
                 /\ \A q \in Proc : q # p => pc'[q] = pc[q] /\ row'[q] = row[q]
                 /\ pc'[p] = why /\ net' \subseteq net
BY DEF IInv, TypeOK, Call, Return, Look, Goto

\* What a recoverer has read is true of the claim: it can not come back to life.
LEMMA ReadKeepsRecovery ==
    ASSUME IInv, IInv', RecoverySound, [Next]_vars, NEW p \in Proc, ReadStep(p)
    PROVE  RecoverySound'
<1>1. UNCHANGED <<intent, attempt, net, pc, row>> /\ rd \in [Proc -> Partial] /\ intent \in IntentRow
  BY DEF ReadStep, ReadIntent, ReadAttempt, SetRead, ledgerVars, IInv, TypeOK
<1>2. PICK s : rd' = [rd EXCEPT ![p] = s] /\ rd'[p] = s
  BY <1>1 DEF ReadStep, ReadIntent, ReadAttempt, SetRead
<1>3. ASSUME p \in Recoverer, s.intent.state = "claimed", s.intent.lease = "expired"
      PROVE  Lapsed(s.intent.ver)
  <2>1. CASE ReadIntent(p)
    <3>0. rd' = [rd EXCEPT ![p] = [Unread EXCEPT !.step = "attempt", !.intent = Seen(p, intent)]]
      BY <2>1 DEF ReadIntent, SetRead
    <3>1. s.intent = Seen(p, intent)
      BY ZenonT(60), <1>1, <1>2, <3>0 DEF Unread
    <3>2. s.intent = intent
      BY <1>3, <3>1 DEF Seen, NoIntent
    <3> QED BY <1>1, <1>3, <3>2 DEF Lapsed, IntentRow
  <2>2. CASE ReadAttempt(p)
    <3>1. PICK n : n = [rd[p] EXCEPT !.step = "history", !.attempt = attempt]
      OBVIOUS
    <3>2. rd[p] \in Partial /\ n.intent = rd[p].intent
      BY <1>1, <3>1 DEF Partial
    <3>3. rd' = [rd EXCEPT ![p] = n]
      BY <2>2, <3>1 DEF ReadAttempt, SetRead
    <3>4. s.intent = rd[p].intent
      BY <1>1, <1>2, <3>2, <3>3
    <3> QED BY <1>3, <3>4 DEF RecoverySound
  <2> QED BY <2>1, <2>2 DEF ReadStep
<1> QED
  BY <1>1, <1>2, <1>3, RecoveryMoves DEF RecoverySound


\* What a recoverer asks to have released it has seen expired.
LEMMA ReconcileKeepsRecovery ==
    ASSUME IInv, IInv', RecoverySound, [Next]_vars, ~ClockSkew,
           NEW r \in Recoverer, NEW s \in Complete(r), Reconcile(r, s)
    PROVE  RecoverySound'
<1>1. /\ UNCHANGED <<intent, attempt>> /\ rd' = [rd EXCEPT ![r] = Unread] /\ rd \in [Proc -> Partial]
      /\ r \in Proc /\ r \notin Exec
  BY DEF Reconcile, Decide, ledgerVars, Proc, IInv, TypeOK
<1>2. rd'[r].intent.state # "claimed" /\ \A q \in Proc : q # r => rd'[q] = rd[q]
  BY <1>1 DEF Unread, NoIntent
<1>3. CASE \E res : Return(r, res, {})
  BY <1>1, <1>2, <1>3, MovesApart, RecoveryMoves
<1>4. CASE Call(r, "unknown", [token |-> s.attempt.op, ver |-> 0, live |-> FALSE], {})
  <2>1. \A x \in net' : x \in net \/ x.kind # "release"
    BY <1>1, <1>4, MovesApart DEF RequestOf
  <2> QED BY <1>1, <1>2, <1>4, <2>1, MovesApart, RecoveryMoves
<1>5. CASE /\ Call(r, "release", [token |-> s.intent.token, ver |-> s.intent.ver, live |-> FALSE], {})
           /\ LeaseLooksDead(s)
  <2>1. s.intent = rd[r].intent \/ s.intent = NoIntent
    BY CompleteIs DEF Nothing
  <2>2. s.intent = rd[r].intent /\ rd[r].intent.state = "claimed" /\ rd[r].intent.lease = "expired"
    BY <1>5, <2>1 DEF LeaseLooksDead, NoIntent
  <2>3. Lapsed(s.intent.ver) /\ s.intent.ver \in Nat
    BY <1>1, <2>2 DEF RecoverySound, Partial, IntentRow
  <2>4. /\ row'[r].ver = s.intent.ver
        /\ \A x \in net' : x \in net \/ (x.by = r /\ x.ver = s.intent.ver)
    BY <1>1, <1>5, MovesApart DEF RequestOf
  <2> QED BY <1>1, <1>2, <1>5, <2>3, <2>4, MovesApart, RecoveryMoves
<1> QED
  BY <1>3, <1>4, <1>5 DEF Reconcile

\* A copy says what the call it repeats says.
LEMMA ResendKeepsRecovery ==
    ASSUME IInv, IInv', RecoverySound, [Next]_vars, NEW p \in Proc, Resend(p)
    PROVE  RecoverySound'
<1>1. /\ UNCHANGED <<pc, row, rd>> /\ row \in [Proc -> Held]
      /\ \A x \in net' : x \in net \/ x = RequestOf(p, pc[p], row[p], try[p] + 1)
  BY DEF Resend, IInv, TypeOK
<1>2. p \in Exec => row[p].token = p
  BY DEF IInv, CallsHonest
<1>3. p \in Recoverer /\ pc[p] = "release" => Lapsed(row[p].ver) /\ row[p].ver \in Nat
  BY <1>1 DEF RecoverySound, Held, Proc
<1>4. \A x \in net' : \/ x \in net \/ x.kind # "release"
                      \/ IF p \in Exec THEN x.by = p /\ x.op = p
                                       ELSE x.by = p /\ x.ver \in Nat /\ Lapsed(x.ver)
  BY <1>1, <1>2, <1>3 DEF RequestOf, Proc
<1> QED
  BY <1>1, <1>3, <1>4, RecoveryMoves DEF RecoverySound

\* The steps of an execution up to its result.
LEMMA ExecStepKeepsRecovery ==
    ASSUME IInv, IInv', RecoverySound, [Next]_vars, NEW e \in Exec, ExecStep(e)
    PROVE  RecoverySound'
<1>1. e \in Proc /\ row[e].token = e /\ rd \in [Proc -> Partial] /\ pc \in [Proc -> PC] /\ Fresh(e).token = e
  BY DEF Proc, IInv, TypeOK, CallsHonest, Fresh
<1>2. \A q \in Proc : q # e => rd'[q] = rd[q]
  BY <1>1 DEF ExecStep, Loaded, BeginLost, Decide, Prepare, Stopped, Write, Bookkeep, Receive
<1>3. ASSUME NEW kind, NEW held, held.token = e, Call(e, kind, held, {}) PROVE RecoverySound'
  <2>1. \A x \in net' : x \in net \/ (x.by = e /\ x.op = e)
    BY <1>1, <1>3, MovesApart DEF RequestOf
  <2> QED BY <1>1, <1>2, <1>3, <2>1, MovesApart, ExecutionKeepsRecovery
<1>4. ASSUME NEW res, Return(e, res, {}) PROVE RecoverySound'
  BY <1>1, <1>2, <1>4, MovesApart, ExecutionKeepsRecovery
<1>5. CASE Write(e)
  BY <1>1, <1>2, <1>5, ExecutionKeepsRecovery DEF Write, Goto
<1>6. CASE ~Write(e)
  <2>1. \/ \E kind \in Kind : Call(e, kind, Fresh(e), {}) \/ Call(e, kind, row[e], {})
        \/ \E res : Return(e, res, {})
    BY <1>6 DEF ExecStep, Loaded, BeginLost, Prepare, Stopped, Bookkeep, Receive, Kind, Classify
  <2> QED BY <1>1, <1>3, <1>4, <2>1
<1> QED
  BY <1>5, <1>6


\* Giving up, crashing or concluding from a snapshot asks for no release.
LEMMA EndsKeepRecovery ==
    ASSUME IInv, IInv', RecoverySound, [Next]_vars, NEW p \in Proc,
           \/ LoadFails(p) \/ GiveUp(p) \/ Crash(p)
           \/ \E s \in Complete(p) : NotOwner(p, s) \/ UnknownLost(p, s)
    PROVE  RecoverySound'
<1>1. rd \in [Proc -> Partial] /\ (rd' = rd \/ rd' = [rd EXCEPT ![p] = Unread])
  BY DEF LoadFails, GiveUp, Crash, NotOwner, UnknownLost, Decide, IInv, TypeOK
<1>2. /\ \A q \in Proc : q # p => rd'[q] = rd[q]
      /\ rd'[p] = rd[p] \/ rd'[p].intent.state # "claimed"
  BY <1>1 DEF Unread, NoIntent
<1>3. p \in Recoverer /\ rd'[p].intent.state = "claimed" /\ rd'[p].intent.lease = "expired"
        => Lapsed(rd'[p].intent.ver)
  BY <1>2 DEF RecoverySound
<1>4. \/ \E res : Return(p, res, {})
      \/ \E why \in ReadPC : Look(p, why, {})
      \/ Call(p, "unknown", row[p], {})
  BY DEF LoadFails, GiveUp, Crash, NotOwner, UnknownLost, ReadPC
<1>5. /\ \A q \in Proc : q # p => pc'[q] = pc[q] /\ row'[q] = row[q]
      /\ pc'[p] # "release" /\ \A r \in net' : r \in net \/ r.kind # "release"
  BY <1>4, MovesApart DEF ReadPC, RequestOf
<1> QED
  BY <1>2, <1>3, <1>5, RecoveryMoves

\* A procedure's reply, or refusal, asks for no release.
LEMMA ServedKeepsRecovery ==
    ASSUME IInv, IInv', RecoverySound, [Next]_vars, NEW r \in net, Apply(r) \/ Refuse(r)
    PROVE  RecoverySound'
<1>1. r \in Request /\ rd' = rd
  BY DEF Apply, Refuse, IInv, TypeOK
<1>2. PICK p \in Proc : p = r.by
  BY <1>1 DEF Request
<1>3. \/ Lost(r)
      \/ Reply(r) /\ Apply(r)
      \/ Call(p, "resolve", row[p], {r})
  BY <1>2 DEF Apply, Refuse
<1>4. /\ \A q \in Proc : q # p => pc'[q] = pc[q] /\ row'[q] = row[q]
      /\ \A x \in net' : x \in net \/ x.kind # "release"
      /\ pc'[p] # "release" \/ (pc'[p] = pc[p] /\ row'[p] = row[p])
  <2>1. CASE Lost(r)
    BY <2>1 DEF Lost
  <2>2. CASE Call(p, "resolve", row[p], {r})
    BY <2>2, MovesApart DEF RequestOf
  <2>3. CASE Reply(r)
    <3>1. pc \in [Proc -> PC] /\ row \in [Proc -> Held]
      BY DEF IInv, TypeOK
    <3>2. \/ \E res : Return(p, res, {r})
          \/ Look(p, "send", {r})
          \/ net' = net \ {r} /\ Goto(p, "prepare") /\ \E h : row' = [row EXCEPT ![p] = h]
          \/ net' = net \ {r} /\ Goto(p, "bookkeep") /\ row' = row
      BY <1>2, <2>3 DEF Reply
    <3> QED BY <3>1, <3>2, MovesApart DEF Goto
  <2> QED BY <1>3, <2>1, <2>2, <2>3
<1> QED
  BY <1>1, <1>4, RecoveryMoves DEF RecoverySound

\* The steps that no process takes, or that only start a scan.
LEMMA OutsideKeepsRecovery ==
    ASSUME IInv, IInv', RecoverySound, [Next]_vars,
           \/ \E e \in Exec : ProviderPost(e) \/ ProviderRefuse(e)
           \/ \E r \in Recoverer : Scan(r)
           \/ (LeaseExpires \/ DispatchAges \/ VerifyVisible) /\ UNCHANGED <<procVars, providerVars, angle>>
           \/ UNCHANGED vars
    PROVE  RecoverySound'
<1>1. /\ UNCHANGED <<net, row, rd>> /\ pc \in [Proc -> PC]
      /\ pc' = pc \/ \E r \in Recoverer : pc' = [pc EXCEPT ![r] = "load"]
  BY DEF ProviderPost, ProviderRefuse, Scan, Goto, LeaseExpires, DispatchAges, VerifyVisible,
         procVars, vars, IInv, TypeOK
<1>2. CASE \E p \in Proc : TRUE
  <2>1. PICK p \in Proc : /\ \A q \in Proc : q # p => pc'[q] = pc[q]
                          /\ pc'[p] = pc[p] \/ pc'[p] = "load"
    BY <1>1, <1>2 DEF Proc
  <2> QED BY <1>1, <2>1, RecoveryMoves DEF RecoverySound
<1>3. CASE Proc = {}
  BY <1>1, <1>3 DEF RecoverySound, Proc, IInv, TypeOK, Request
<1> QED
  BY <1>2, <1>3

\* Honest clocks: no recoverer speaks for a claim that lives.
LEMMA RecoveryStep ==
    ASSUME IInv, IInv', RecoverySound, [Next]_vars, ~ClockSkew
    PROVE  RecoverySound'
BY ReadKeepsRecovery, ReconcileKeepsRecovery, ResendKeepsRecovery, ExecStepKeepsRecovery,
   EndsKeepRecovery, ServedKeepsRecovery, OutsideKeepsRecovery
   DEF Next, RecoverStep, Database

\* Where the leases are read by the database's clock, recovery releases no live
\* claim: only the execution that holds it gives it up.
THEOREM NothingIsStolen == ~ClockSkew /\ Spec => RecoveryStealsNothing
<1> SUFFICES ASSUME ~ClockSkew
             PROVE  Spec => RecoveryStealsNothing
  OBVIOUS
<1>1. Init => RecoverySound
  BY DEF Init, RecoverySound, Proc, Unread, NoIntent
<1>2. IInv /\ IInv' /\ RecoverySound /\ [Next]_vars => RecoverySound'
  BY RecoveryStep
<1>3. ASSUME IInv, RecoverySound, [Next]_vars,
             intent.state = "claimed", intent.lease = "live", intent'.state = "scheduled"
      PROVE  \E r \in net \ net' : r.kind = "release" /\ r.by = intent.token
  <2>1. intent \in IntentRow /\ RowsAgree
    BY <1>3 DEF IInv, TypeOK
  <2>2. PICK r \in net : Effect(r) /\ net' = net \ {r}
    <3>1. ASSUME NEW e \in Exec, ProviderPost(e) PROVE FALSE
      BY <1>3, <3>1 DEF ProviderPost, ledgerVars
    <3>2. ~(LeaseExpires \/ DispatchAges \/ VerifyVisible)
      BY <1>3, <2>1 DEF LeaseExpires, DispatchAges, VerifyVisible, IntentRow
    <3> QED BY <1>3, <3>1, <3>2, RowsStep
  <2>3. r.kind = "release" /\ HoldsClaim(r)
    BY <1>3, <2>1, <2>2 DEF Effect, ClaimRow, Settle, ledgerVars, IntentRow, Request
  <2>4. r.by \in Exec /\ r.op = r.by
    BY <1>3, <2>1, <2>3 DEF RecoverySound, HoldsClaim, Lapsed, IntentRow
  <2>5. r \notin net'
    BY <2>2
  <2> QED BY <2>3, <2>4, <2>5 DEF HoldsClaim
<1>4. IInv /\ RecoverySound /\ [Next]_vars =>
        [intent.state = "claimed" /\ intent.lease = "live" /\ intent'.state = "scheduled"
          => \E r \in net \ net' : r.kind = "release" /\ r.by = intent.token]_vars
  BY <1>3
<1> QED
  BY <1>1, <1>2, <1>4, Invariance, PTL DEF Spec, RecoveryStealsNothing

============================================================================
