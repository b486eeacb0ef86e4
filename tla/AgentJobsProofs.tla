-------------------------- MODULE AgentJobsProofs --------------------------
(***************************************************************************)
(* What TLAPS establishes about AgentJobs for any number of ticks, of      *)
(* operations and of copies of a call.                                     *)
(***************************************************************************)
EXTENDS AgentJobs, TLAPS

USE TableAssumption, StretchAssumption

----------------------------------------------------------------------------
(* Moves of one tick that leave the table alone *)

\* The types, at one job, tick or call.
LEMMA Typed ==
    ASSUME IInv
    PROVE  /\ \A k \in Op : job[k] \in JobRow
           /\ \A p \in Tick : me[p] \in TickState
           /\ \A r \in net : r \in Request
BY DEF IInv, TypeOK

\* A tick that does nothing is well typed.
LEMMA IdleTyped == Idle \in TickState
<1>1. 1 \in 1..Tries /\ 0 \in 0..Stretch
  OBVIOUS
<1> QED
  BY <1>1 DEF Idle, TickState, Mode

\* Between two stretches a tick has no effect left to start.
LEMMA Quiet == ASSUME IInv, NEW p \in Tick, me[p].pc # "act"
               PROVE  me[p].left = 0
BY Typed DEF IInv, TickSound, TickState

\* The conjuncts of the invariant that only the table and the ghosts decide.
TableSound ==
    /\ job \in [Op -> JobRow]
    /\ latest \in Op \cup {None} /\ shown \in {"none", "pending"} \cup Verdict
    /\ RowsSound /\ Shown /\ ShownIsLatest

\* A step that leaves the table alone keeps it sound.
LEMMA TableKept ==
    ASSUME IInv, UNCHANGED tableVars
    PROVE  TableSound'
BY DEF IInv, TypeOK, tableVars, TableSound, RowsSound, Shown, ShownIsLatest, Ended

\* The parts of the invariant, put together.
LEMMA Assembled ==
    ASSUME TableSound', (net \subseteq Request)', (me \in [Tick -> TickState])',
           (runs \in [Op -> Nat] /\ late \in [Op -> Nat] /\ success \subseteq Op)',
           (\A p \in Tick : TickSound(p))', OwnersApart', WireSound', RunOnce', LateBounded',
           CompletedTruthfully'
    PROVE  IInv'
BY DEF IInv, TypeOK, TableSound

\* The claims stay what they are; a lease may run out.
SameClaims ==
    \A k \in Op : /\ job'[k].ver = job[k].ver /\ job'[k].token = job[k].token
                  /\ job'[k].live => job[k].live
                  /\ job'[k].state # job[k].state =>
                         \A q \in Tick : me[q].op = k /\ me[q].ver = job[k].ver =>
                             me[q].pc \notin HandlerPC

\* A step that starts no effect, and after which no tick has more effects left
\* than before, keeps the count of late ones.
LEMMA LateKept ==
    ASSUME IInv, UNCHANGED late, \A k \in Op : Gone(k) => Gone(k)',
           \A q \in Tick : \/ me'[q].left = 0
                           \/ me'[q].op = me[q].op /\ me'[q].left = me[q].left
    PROVE  LateBounded'
<1>1. \A k \in Op : late[k] \in Nat /\ late[k] <= Stretch /\ (late[k] > 0 => Gone(k))
  BY DEF IInv, TypeOK, LateBounded
<1>2. \A k \in Op, q \in Tick : me[q].op = k => late[k] + me[q].left <= Stretch
  BY DEF IInv, LateBounded
<1>3. \A k \in Op, q \in Tick : me'[q].op = k => late[k] + me'[q].left <= Stretch
  BY <1>1, <1>2
<1> QED
  BY <1>1, <1>3 DEF LateBounded

\* A tick leaves its job; the table may have moved, claims have not.
LEMMA LeaveSound ==
    ASSUME IInv, NEW p \in Tick, NEW gone, Leave(p, gone), UNCHANGED <<runs, late>>,
           TableSound', SameClaims, CompletedTruthfully',
           success \subseteq success', success' \subseteq Op
    PROVE  IInv'
<1> USE Typed DEF SameClaims
<1>1. TableSound'
  OBVIOUS
<1>2. me' = [me EXCEPT ![p] = Idle] /\ me \in [Tick -> TickState]
  BY DEF Leave, Become, IInv, TypeOK
<1>3. (me \in [Tick -> TickState])'
  BY <1>2, IdleTyped
<1>4. \A s \in net' : \E r \in net : s = Disowned(p, r)
  BY DEF Leave
<1>5. (net \subseteq Request)'
  BY <1>4 DEF Disowned, Request, Token
<1>6. (\A q \in Tick : TickSound(q))'
  <2> SUFFICES ASSUME NEW q \in Tick PROVE TickSound(q)'
    OBVIOUS
  <2>1. CASE q = p
    BY <1>2, <2>1 DEF TickSound, Idle, OwnerPC, HandlerPC
  <2>2. CASE q # p
    <3>1. TickSound(q) /\ me'[q] = me[q] /\ success \subseteq success'
      BY <1>2, <2>2 DEF IInv
    <3>2. CASE me[q].pc = "idle"
      BY <3>1, <3>2 DEF TickSound, Idle, OwnerPC, HandlerPC
    <3>3. CASE me[q].pc # "idle"
      <4>1. me[q].op \in Op
        BY <3>1, <3>3 DEF TickSound
      <4> QED
        BY <3>1, <4>1 DEF TickSound
    <3> QED
      BY <3>2, <3>3
  <2> QED
    BY <2>1, <2>2
<1>7. OwnersApart'
  BY <1>2 DEF IInv, OwnersApart, OwnerPC, HandlerPC, Idle
<1>8. WireSound'
  <2> SUFFICES ASSUME NEW s \in net' PROVE (s.kind = "claim" => ClaimSound(s)') /\ (s.kind = "finish" => FinishSound(s)')
    BY DEF WireSound
  <2>1. PICK r \in net : s = Disowned(p, r)
    BY <1>4
  <2>2. r \in Request /\ (r.kind = "claim" => ClaimSound(r)) /\ (r.kind = "finish" => FinishSound(r))
    BY DEF IInv, WireSound
  <2>3. CASE s.kind = "claim"
    BY <1>2, <2>1, <2>2, <2>3 DEF Disowned, ClaimSound, Request
  <2>4. CASE s.kind = "finish"
    <3>1. s = r /\ FinishSound(r)
      BY <2>1, <2>2, <2>4 DEF Disowned, Request
    <3> QED
      BY <1>2, <2>2, <3>1, <2>4 DEF FinishSound, Request, Idle
  <2> QED
    BY <2>3, <2>4
<1>9. RunOnce'
  BY <1>2 DEF IInv, RunOnce, Idle
<1>10. LateBounded'
  BY <1>2 DEF IInv, LateBounded, Idle, Gone
<1>11. CompletedTruthfully'
  OBVIOUS
<1>12. (runs \in [Op -> Nat] /\ late \in [Op -> Nat] /\ success \subseteq Op)'
  BY DEF IInv, TypeOK
<1> QED
  BY <1>1, <1>3, <1>5, <1>6, <1>7, <1>8, <1>9, <1>10, <1>11, <1>12, Assembled

\* A tick leaves its job and nothing else happens.
LEMMA LeaveKeeps ==
    ASSUME IInv, NEW p \in Tick, NEW gone, Leave(p, gone), UNCHANGED <<tableVars, runs, late>>,
           success \subseteq success', success' \subseteq Op
    PROVE  IInv'
<1>1. TableSound' /\ SameClaims
  BY TableKept DEF SameClaims, tableVars
<1>2. CompletedTruthfully'
  BY DEF IInv, CompletedTruthfully, tableVars
<1> QED
  BY <1>1, <1>2, LeaveSound

\* The table moves under the ticks, claims do not.
LEMMA TableMoves ==
    ASSUME IInv, TableSound', SameClaims, CompletedTruthfully', net' \subseteq net,
           UNCHANGED <<me, ghostVars>>
    PROVE  IInv'
<1> USE Typed DEF SameClaims, ghostVars
<1>1. (\A q \in Tick : TickSound(q))'
  <2> SUFFICES ASSUME NEW q \in Tick PROVE TickSound(q)'
    OBVIOUS
  <2>1. TickSound(q) /\ me'[q] = me[q] /\ success \subseteq success'
    BY DEF IInv
  <2>2. CASE me[q].pc = "idle"
    BY <2>1, <2>2 DEF TickSound, Idle, OwnerPC, HandlerPC
  <2>3. CASE me[q].pc # "idle"
    <3>1. me[q].op \in Op
      BY <2>1, <2>3 DEF TickSound
    <3> QED
      BY <2>1, <3>1 DEF TickSound
  <2> QED
    BY <2>2, <2>3
<1>2. OwnersApart'
  BY DEF IInv, OwnersApart
<1>3. WireSound'
  <2> SUFFICES ASSUME NEW r \in net' PROVE (r.kind = "claim" => ClaimSound(r)') /\ (r.kind = "finish" => FinishSound(r)')
    BY DEF WireSound
  <2>1. r \in Request /\ (r.kind = "claim" => ClaimSound(r)) /\ (r.kind = "finish" => FinishSound(r))
    BY DEF IInv, WireSound
  <2>2. r.kind = "claim" => ClaimSound(r)'
    BY <2>1 DEF ClaimSound
  <2>3. r.kind = "finish" => FinishSound(r)'
    BY <2>1 DEF FinishSound, Request
  <2> QED
    BY <2>2, <2>3
<1>4. RunOnce'
  BY DEF IInv, RunOnce
<1>5. LateBounded'
  BY DEF IInv, LateBounded, Gone
<1> QED
  BY <1>1, <1>2, <1>3, <1>4, <1>5, Assembled DEF IInv, TypeOK

\* A tick asks to have its result recorded.
LEMMA FinishKeeps ==
    ASSUME IInv, NEW p \in Tick, NEW verdict \in Verdict, CallFinish(p, verdict, {}),
           me[p].pc \in {"start", "run", "finish"},
           UNCHANGED <<tableVars, runs, late>>,
           success \subseteq success', success' \subseteq Op,
           me[p].mode = "execute" /\ verdict = "completed" => me[p].op \in success'
    PROVE  IInv'
<1> USE Typed DEF tableVars
<1> DEFINE m == [me[p] EXCEPT !.pc = "finish", !.verdict = verdict, !.try = 1]
<1>1. TableSound'
  BY TableKept
<1>0. 1 \in 1..Tries
  OBVIOUS
<1>2. me' = [me EXCEPT ![p] = m] /\ me \in [Tick -> TickState] /\ net' = net \cup {RequestOf(p, m)}
  BY DEF CallFinish, Call, Become, IInv, TypeOK
<1>3. TickSound(p) /\ me[p] \in TickState /\ me[p].op \in Op
  BY DEF IInv, TickSound
<1>4. m \in TickState
  BY <1>0, <1>3 DEF TickState, OwnerPC, HandlerPC
<1>5. /\ m.pc = "finish" /\ m.verdict = verdict /\ m.op = me[p].op /\ m.ver = me[p].ver
      /\ m.mode = me[p].mode /\ m.try = 1 /\ m.left = 0
  BY <1>3, Quiet DEF TickState
<1>6. RequestOf(p, m) = [kind |-> "finish", op |-> me[p].op, token |-> p, ver |-> me[p].ver,
                         mode |-> me[p].mode, verdict |-> verdict, try |-> 1]
  BY <1>5 DEF RequestOf
<1> HIDE DEF m
<1>7. (me \in [Tick -> TickState])'
  BY <1>2, <1>4
<1>8. RequestOf(p, m) \in Request
  BY <1>0, <1>3, <1>6 DEF Request, TickState, Token
<1>9. me[p].ver >= 1 /\ First(me[p].mode, me[p].ver) /\ me[p].ver <= job[me[p].op].ver
  BY <1>3 DEF TickSound, OwnerPC, HandlerPC
<1>10. (\A q \in Tick : TickSound(q))'
  <2> SUFFICES ASSUME NEW q \in Tick PROVE TickSound(q)'
    OBVIOUS
  <2>1. CASE q = p
    BY <1>2, <1>3, <1>5, <1>9, <2>1 DEF TickSound, OwnerPC, HandlerPC, First, Verdict
  <2>2. CASE q # p
    BY <1>2, <2>2 DEF TickSound, IInv
  <2> QED
    BY <2>1, <2>2
<1>11. OwnersApart'
  BY <1>2, <1>5 DEF IInv, OwnersApart, OwnerPC, HandlerPC
<1>12. WireSound'
  <2> SUFFICES ASSUME NEW r \in net' PROVE (r.kind = "claim" => ClaimSound(r)') /\ (r.kind = "finish" => FinishSound(r)')
    BY DEF WireSound
  <2>1. CASE r \in net
    <3>1. r \in Request /\ (r.kind = "claim" => ClaimSound(r)) /\ (r.kind = "finish" => FinishSound(r))
      BY <2>1 DEF IInv, WireSound
    <3>2. CASE r.kind = "claim"
      BY <1>2, <1>5, <3>1, <3>2 DEF ClaimSound
    <3>3. CASE r.kind = "finish"
      BY <1>2, <1>3, <1>5, <3>1, <3>3 DEF FinishSound, HandlerPC, Request, TickState
    <3> QED
      BY <3>2, <3>3
  <2>2. CASE r = RequestOf(p, m)
    BY <1>2, <1>3, <1>5, <1>6, <1>9, <2>2 DEF FinishSound, HandlerPC, Verdict, TickState
  <2> QED
    BY <1>2, <2>1, <2>2
<1>13. RunOnce'
  BY <1>2, <1>5 DEF IInv, RunOnce
<1>14. LateBounded'
  BY <1>2, <1>5, LateKept DEF Gone
<1>15. CompletedTruthfully'
  BY DEF IInv, CompletedTruthfully
<1>16. (runs \in [Op -> Nat] /\ late \in [Op -> Nat] /\ success \subseteq Op)'
  BY DEF IInv, TypeOK
<1> QED
  BY <1>1, <1>2, <1>7, <1>8, <1>10, <1>11, <1>12, <1>13, <1>14, <1>15, <1>16, Assembled
     DEF IInv, TypeOK

\* Inside withAgentJobLease: the same job, the same claim, nothing sent.
LEMMA HandlerKeeps ==
    ASSUME IInv, NEW p \in Tick, NEW m \in TickState, Become(p, m),
           me[p].pc \in HandlerPC, m.pc \in HandlerPC,
           m.op = me[p].op, m.ver = me[p].ver, m.mode = me[p].mode,
           m.pc = "act" => m.mode = "execute", m.pc = "act" <=> m.left > 0,
           UNCHANGED <<tableVars, net, success>>, runs' \in [Op -> Nat], late' \in [Op -> Nat],
           RunOnce', LateBounded'
    PROVE  IInv'
<1> USE Typed DEF tableVars
<1>1. TableSound'
  BY TableKept
<1>2. me' = [me EXCEPT ![p] = m] /\ me \in [Tick -> TickState]
  BY DEF Become, IInv, TypeOK
<1>3. (\A q \in Tick : TickSound(q))'
  <2> SUFFICES ASSUME NEW q \in Tick PROVE TickSound(q)'
    OBVIOUS
  <2>1. CASE q = p
    BY <1>2, <2>1 DEF TickSound, OwnerPC, HandlerPC, IInv
  <2>2. CASE q # p
    BY <1>2, <2>2 DEF TickSound, IInv
  <2> QED
    BY <2>1, <2>2
<1>4. OwnersApart'
  BY <1>2 DEF IInv, OwnersApart, OwnerPC, HandlerPC
<1>5. WireSound'
  <2> SUFFICES ASSUME NEW r \in net PROVE (r.kind = "claim" => ClaimSound(r)') /\ (r.kind = "finish" => FinishSound(r)')
    BY DEF WireSound
  <2>1. r \in Request /\ (r.kind = "claim" => ClaimSound(r)) /\ (r.kind = "finish" => FinishSound(r))
    BY DEF IInv, WireSound
  <2>2. CASE r.kind = "claim"
    BY <1>2, <2>1, <2>2 DEF ClaimSound, HandlerPC
  <2>3. CASE r.kind = "finish"
    BY <1>2, <2>1, <2>3 DEF FinishSound, HandlerPC
  <2> QED
    BY <2>2, <2>3
<1>6. CompletedTruthfully'
  BY DEF IInv, CompletedTruthfully
<1> QED
  BY <1>1, <1>2, <1>3, <1>4, <1>5, <1>6, Assembled DEF IInv, TypeOK

----------------------------------------------------------------------------
(* The actions of a tick *)

\* A tick lists a job and asks for it.
LEMMA ListKeeps == ASSUME IInv, NEW p \in Tick, NEW k \in Op, List(p, k) PROVE IInv'
<1> USE Typed DEF tableVars
<1>1. TableSound'
  BY TableKept DEF List
<1>2. PICK m : /\ Call(p, m, {})
               /\ \/ m = [Idle EXCEPT !.pc = "claim", !.op = k, !.mode = "execute"]
                     /\ job[k].state = "pending"
                  \/ m = [Idle EXCEPT !.pc = "claim", !.op = k, !.mode = "reconcile", !.ver = job[k].ver]
                     /\ job[k].state = "running"
  BY DEF List
<1>3. /\ m.pc = "claim" /\ m.op = k /\ m.verdict = "none" /\ m.lost = FALSE /\ m.try = 1
      /\ m.left = 0
      /\ \/ m.mode = "execute" /\ m.ver = 0 /\ job[k].state = "pending"
         \/ m.mode = "reconcile" /\ m.ver = job[k].ver /\ job[k].state = "running"
  BY <1>2 DEF Idle
<1>4. job[k] \in JobRow /\ (job[k].state = "running" => job[k].ver >= 1)
      /\ (job[k].state = "pending" => job[k].ver = 0)
  BY DEF IInv, RowsSound
<1>5. job[k].ver \in Nat /\ 1 \in 1..Tries
  BY <1>4 DEF JobRow
<1>6. m \in TickState
  <2>1. [Idle EXCEPT !.pc = "claim", !.op = k, !.mode = "execute"] \in TickState
    BY IdleTyped DEF TickState, Mode
  <2>2. [Idle EXCEPT !.pc = "claim", !.op = k, !.mode = "reconcile", !.ver = job[k].ver] \in TickState
    BY <1>5, IdleTyped DEF TickState, Mode
  <2> QED
    BY <1>2, <2>1, <2>2
<1>7. RequestOf(p, m) \in Request
  BY <1>3, <1>5 DEF RequestOf, Request, Token, Mode
<1>8. /\ me' = [me EXCEPT ![p] = m] /\ me \in [Tick -> TickState] /\ me[p] = Idle
      /\ net' = net \cup {RequestOf(p, m)} /\ UNCHANGED <<tableVars, ghostVars>>
  BY <1>2 DEF List, Call, Become, IInv, TypeOK
<1>9. UNCHANGED <<job, latest, shown, runs, late, success>>
  BY <1>8 DEF ghostVars
<1>10. (\A q \in Tick : TickSound(q))'
  <2> SUFFICES ASSUME NEW q \in Tick PROVE TickSound(q)'
    OBVIOUS
  <2>1. CASE q = p
    BY <1>3, <1>4, <1>5, <1>8, <1>9, <2>1 DEF TickSound, OwnerPC, HandlerPC
  <2>2. CASE q # p
    BY <1>8, <1>9, <2>2 DEF TickSound, IInv
  <2> QED
    BY <2>1, <2>2
<1>11. OwnersApart'
  BY <1>3, <1>8 DEF IInv, OwnersApart, OwnerPC, HandlerPC
<1>12. WireSound'
  <2> SUFFICES ASSUME NEW r \in net' PROVE (r.kind = "claim" => ClaimSound(r)') /\ (r.kind = "finish" => FinishSound(r)')
    BY DEF WireSound
  <2>1. CASE r = RequestOf(p, m)
    BY <1>3, <1>4, <1>8, <1>9, <2>1 DEF RequestOf, ClaimSound
  <2>2. CASE r \in net
    <3>1. r \in Request /\ (r.kind = "claim" => ClaimSound(r)) /\ (r.kind = "finish" => FinishSound(r))
      BY <2>2 DEF IInv, WireSound
    <3>2. CASE r.kind = "claim"
      BY <1>3, <1>8, <3>1, <3>2 DEF ClaimSound
    <3>3. CASE r.kind = "finish"
      BY <1>3, <1>4, <1>5, <1>8, <1>9, <3>1, <3>3 DEF FinishSound, HandlerPC, Request
    <3> QED
      BY <3>2, <3>3
  <2> QED
    BY <1>8, <2>1, <2>2
<1>13. RunOnce'
  BY <1>3, <1>4, <1>8, <1>9 DEF IInv, RunOnce
<1>14. LateBounded'
  BY <1>3, <1>8, <1>9, LateKept DEF Gone
<1>15. CompletedTruthfully'
  BY <1>9 DEF IInv, CompletedTruthfully
<1> QED
  BY <1>1, <1>6, <1>7, <1>8, <1>9, <1>10, <1>11, <1>12, <1>13, <1>14, <1>15, Assembled
     DEF IInv, TypeOK

\* The lease is renewed and the handler entered, or the job is let go.
LEMMA StartKeeps == ASSUME IInv, NEW p \in Tick, Start(p) PROVE IInv'
<1> USE Typed DEF tableVars
<1> DEFINE m == [me[p] EXCEPT !.pc = "run"]
<1>1. CASE ~Owns(p)
  BY <1>1, LeaveKeeps DEF Start, IInv, TypeOK
<1>2. CASE Owns(p)
  <2>1. me[p] \in TickState /\ TickSound(p) /\ me[p].op \in Op
    BY DEF Start, IInv, TickSound
  <2>2. /\ m \in TickState /\ m.pc = "run" /\ m.op = me[p].op /\ m.ver = me[p].ver
        /\ m.mode = me[p].mode /\ m.left = 0
    BY <2>1, Quiet DEF Start, TickState, OwnerPC, HandlerPC
  <2>3. /\ Become(p, m) /\ UNCHANGED <<tableVars, net, late, success>> /\ me[p].pc = "start"
        /\ runs' = [runs EXCEPT ![me[p].op] = @ + (IF me[p].mode = "execute" THEN 1 ELSE 0)]
    BY <1>2 DEF Start
  <2> HIDE DEF m
  <2>4. runs \in [Op -> Nat] /\ late \in [Op -> Nat] /\ me \in [Tick -> TickState]
    BY DEF IInv, TypeOK
  <2>5. runs' \in [Op -> Nat] /\ late' \in [Op -> Nat]
    BY <2>1, <2>3, <2>4
  <2>6. me' = [me EXCEPT ![p] = m]
    BY <2>3 DEF Become
  <2>7. RunOnce'
    <3> SUFFICES ASSUME NEW k \in Op
                 PROVE  /\ runs'[k] <= 1
                        /\ runs'[k] = 1 =>
                             /\ job[k].ver >= 1
                             /\ \A q \in Tick : me'[q].op = k /\ me'[q].mode = "execute" =>
                                 /\ me'[q].pc # "start"
                                 /\ me'[q].pc = "claim" /\ job[k].token = q => job[k].ver # 1
      BY <2>3 DEF RunOnce
    <3>1. CASE me[p].op = k /\ me[p].mode = "execute"
      <4>1. me[p].ver = 1 /\ job[k].ver = 1 /\ job[k].token = p
        BY <1>2, <2>1, <2>3, <3>1 DEF TickSound, OwnerPC, HandlerPC, First, Owns, Holds
      <4>2. runs[k] = 0 /\ runs'[k] = 1
        BY <2>1, <2>3, <2>4, <3>1 DEF IInv, RunOnce
      <4>3. ASSUME NEW q \in Tick, me'[q].op = k, me'[q].mode = "execute"
            PROVE  me'[q].pc # "start" /\ (me'[q].pc = "claim" => job[k].token # q)
        <5>1. CASE q = p
          BY <2>2, <2>4, <2>6, <5>1
        <5>2. CASE q # p
          <6>1. me'[q] = me[q] /\ TickSound(q)
            BY <2>4, <2>6, <5>2 DEF IInv
          <6>2. me[q].pc # "start"
            BY <2>3, <3>1, <4>1, <4>3, <5>2, <6>1 DEF IInv, OwnersApart, TickSound, OwnerPC, HandlerPC, First
          <6> QED
            BY <4>1, <5>2, <6>1, <6>2
        <5> QED
          BY <5>1, <5>2
      <4> QED
        BY <4>1, <4>2, <4>3
    <3>2. CASE ~(me[p].op = k /\ me[p].mode = "execute")
      <4>1. runs'[k] = runs[k]
        BY <2>1, <2>3, <2>4, <3>2
      <4> QED
        BY <2>2, <2>4, <2>6, <3>2, <4>1 DEF IInv, RunOnce
    <3> QED
      BY <3>1, <3>2
  <2>8. LateBounded'
    BY <2>2, <2>3, <2>4, <2>6, LateKept DEF Gone
  <2> QED
    BY <2>1, <2>2, <2>3, <2>5, <2>7, <2>8, HandlerKeeps DEF HandlerPC
<1> QED
  BY <1>1, <1>2

\* The steps of a handler: its lease lost, asserted, an effect begun.
LEMMA HandlerSteps ==
    ASSUME IInv, NEW p \in Tick, Doubt(p) \/ AssertActive(p) \/ Act(p)
    PROVE  IInv'
<1> USE Typed DEF tableVars, ghostVars
<1>1. me[p] \in TickState /\ TickSound(p) /\ me[p].op \in Op /\ me \in [Tick -> TickState]
      /\ runs \in [Op -> Nat] /\ late \in [Op -> Nat]
  BY DEF Doubt, AssertActive, Act, IInv, TickSound, TypeOK
<1>2. CASE Doubt(p)
  <2> DEFINE m == [me[p] EXCEPT !.lost = TRUE]
  <2>1. /\ m \in TickState /\ m.pc = me[p].pc /\ m.op = me[p].op /\ m.ver = me[p].ver
        /\ m.mode = me[p].mode /\ m.left = me[p].left
    BY <1>1 DEF TickState
  <2>2. Become(p, m) /\ UNCHANGED <<tableVars, net, ghostVars>> /\ me[p].pc \in {"run", "act"}
    BY <1>2 DEF Doubt
  <2> HIDE DEF m
  <2>3. me' = [me EXCEPT ![p] = m]
    BY <2>2 DEF Become
  <2>4. RunOnce'
    BY <1>1, <2>1, <2>2, <2>3 DEF IInv, RunOnce
  <2>5. LateBounded'
    BY <1>1, <2>1, <2>2, <2>3, LateKept DEF Gone
  <2>6. (m.pc = "act" => m.mode = "execute") /\ (m.pc = "act" <=> m.left > 0)
    BY <1>1, <2>1 DEF TickSound
  <2> QED
    BY <1>1, <2>1, <2>2, <2>4, <2>5, <2>6, HandlerKeeps DEF HandlerPC
<1>3. CASE AssertActive(p)
  <2> DEFINE m == [me[p] EXCEPT !.pc = "act", !.left = Stretch]
  <2>0. Stretch \in 0..Stretch /\ Stretch > 0
    OBVIOUS
  <2>1. /\ m \in TickState /\ m.pc = "act" /\ m.op = me[p].op /\ m.ver = me[p].ver
        /\ m.mode = me[p].mode /\ m.left = Stretch
    BY <1>1, <2>0 DEF TickState, OwnerPC, HandlerPC
  <2>2. /\ Become(p, m) /\ UNCHANGED <<tableVars, net, ghostVars>>
        /\ me[p].pc = "run" /\ me[p].mode = "execute" /\ Owns(p)
    BY <1>3 DEF AssertActive
  <2> HIDE DEF m
  <2>3. me' = [me EXCEPT ![p] = m]
    BY <2>2 DEF Become
  <2>4. RunOnce'
    BY <1>1, <2>1, <2>2, <2>3 DEF IInv, RunOnce
  <2>5. job[me[p].op].ver = 1 /\ job[me[p].op].live
    BY <1>1, <2>2 DEF TickSound, OwnerPC, HandlerPC, First, Owns, Holds
  <2>6. late[me[p].op] = 0
    BY <1>1, <2>5 DEF IInv, LateBounded, Gone
  <2>7. LateBounded'
    <3> SUFFICES ASSUME NEW k \in Op
                 PROVE  /\ late[k] <= Stretch /\ (late[k] > 0 => Gone(k))
                        /\ \A q \in Tick : me'[q].op = k => late[k] + me'[q].left <= Stretch
      BY <2>2 DEF LateBounded, Gone
    <3>1. late[k] <= Stretch /\ (late[k] > 0 => Gone(k))
      BY DEF IInv, LateBounded
    <3>2. ASSUME NEW q \in Tick, me'[q].op = k PROVE late[k] + me'[q].left <= Stretch
      <4>1. CASE q = p
        BY <1>1, <2>1, <2>3, <2>6, <3>2, <4>1
      <4>2. CASE q # p
        BY <1>1, <2>3, <3>2, <4>2 DEF IInv, LateBounded
      <4> QED
        BY <4>1, <4>2
    <3> QED
      BY <3>1, <3>2
  <2> QED
    BY <1>1, <2>0, <2>1, <2>2, <2>4, <2>7, HandlerKeeps DEF HandlerPC
<1>4. CASE Act(p)
  <2>1. PICK m : /\ Become(p, m)
                 /\ \/ m = [me[p] EXCEPT !.left = @ - 1] /\ me[p].left > 1
                    \/ m = [me[p] EXCEPT !.pc = "run", !.left = 0]
    BY <1>4 DEF Act
  <2>2. /\ UNCHANGED <<tableVars, net, runs, success>> /\ me[p].pc = "act"
        /\ late' = [late EXCEPT ![me[p].op] = @ + (IF Owns(p) THEN 0 ELSE 1)]
    BY <1>4 DEF Act
  <2>3. me' = [me EXCEPT ![p] = m]
    BY <2>1 DEF Become
  <2>4. me[p].left \in 1..Stretch
    BY <1>1, <2>2 DEF TickSound, TickState
  <2>5. /\ m \in TickState /\ m.pc \in {"run", "act"} /\ m.op = me[p].op /\ m.ver = me[p].ver
        /\ m.mode = me[p].mode /\ (m.pc = "act" <=> m.left > 0) /\ m.left \in 0..(me[p].left - 1)
    <3>1. CASE m = [me[p] EXCEPT !.left = @ - 1] /\ me[p].left > 1
      <4>1. me[p].left - 1 \in 0..Stretch /\ me[p].left - 1 > 0
        BY <2>4, <3>1
      <4>2. m \in TickState
        BY <1>1, <3>1, <4>1 DEF TickState
      <4>3. m.left = me[p].left - 1 /\ m.pc = "act" /\ m.op = me[p].op /\ m.ver = me[p].ver
            /\ m.mode = me[p].mode
        BY <1>1, <2>2, <3>1 DEF TickState
      <4> QED
        BY <2>4, <4>1, <4>2, <4>3
    <3>2. CASE m = [me[p] EXCEPT !.pc = "run", !.left = 0]
      <4>1. 0 \in 0..Stretch
        OBVIOUS
      <4>2. m \in TickState
        BY <1>1, <3>2, <4>1 DEF TickState, OwnerPC, HandlerPC
      <4>3. m.left = 0 /\ m.pc = "run" /\ m.op = me[p].op /\ m.ver = me[p].ver
            /\ m.mode = me[p].mode
        BY <1>1, <3>2 DEF TickState
      <4> QED
        BY <2>4, <4>2, <4>3
    <3> QED
      BY <2>1, <3>1, <3>2
  <2>6. RunOnce'
    BY <1>1, <2>2, <2>3, <2>5 DEF IInv, RunOnce
  <2>7. me[p].mode = "execute" /\ me[p].ver = 1 /\ job[me[p].op].ver >= 1
    BY <1>1, <2>2 DEF TickSound, OwnerPC, HandlerPC, First
  <2>8. ~Owns(p) => Gone(me[p].op)
    <3>1. job[me[p].op] \in JobRow /\ (job[me[p].op].live => job[me[p].op].state = "running")
      BY <1>1 DEF IInv, RowsSound
    <3>2. job[me[p].op].ver = 1 => job[me[p].op].token = p
      BY <1>1, <2>2, <2>7 DEF TickSound, OwnerPC, HandlerPC
    <3> QED
      BY <2>7, <3>1, <3>2 DEF Owns, Holds, Gone, JobRow
  <2>9. \A q \in Tick : q # p /\ me[q].op = me[p].op => me[q].left = 0
    <3> SUFFICES ASSUME NEW q \in Tick, q # p, me[q].op = me[p].op PROVE me[q].pc # "act"
      BY Quiet
    <3> QED
      BY <1>1, <2>2, <2>7 DEF IInv, OwnersApart, TickSound, OwnerPC, HandlerPC, First
  <2>10. late[me[p].op] \in Nat /\ late[me[p].op] + me[p].left <= Stretch
         /\ (late[me[p].op] > 0 => Gone(me[p].op))
    BY <1>1 DEF IInv, LateBounded
  <2>11. late'[me[p].op] \in {late[me[p].op], late[me[p].op] + 1}
         /\ (late'[me[p].op] # late[me[p].op] => ~Owns(p))
         /\ \A k \in Op : k # me[p].op => late'[k] = late[k]
    BY <1>1, <2>2, <2>10
  <2>12. LateBounded'
    <3> SUFFICES ASSUME NEW k \in Op
                 PROVE  /\ late'[k] <= Stretch
                        /\ late'[k] > 0 => Gone(k)
                        /\ \A q \in Tick : me'[q].op = k => late'[k] + me'[q].left <= Stretch
      BY <2>2 DEF LateBounded, Gone
    <3>1. CASE k = me[p].op
      <4>1. late'[k] <= Stretch /\ late'[k] + m.left <= Stretch
        BY <2>4, <2>5, <2>10, <2>11, <3>1
      <4>2. late'[k] > 0 => Gone(k)
        BY <2>8, <2>10, <2>11, <3>1
      <4>3. ASSUME NEW q \in Tick, me'[q].op = k PROVE late'[k] + me'[q].left <= Stretch
        <5>1. CASE q = p
          BY <1>1, <2>3, <4>1, <5>1
        <5>2. CASE q # p
          <6>1. me'[q] = me[q] /\ me[q].left = 0
            BY <1>1, <2>3, <2>9, <3>1, <4>3, <5>2
          <6> QED
            BY <2>10, <2>11, <3>1, <4>1, <6>1
        <5> QED
          BY <5>1, <5>2
      <4> QED
        BY <4>1, <4>2, <4>3
    <3>2. CASE k # me[p].op
      <4>1. \A q \in Tick : me'[q].op = k => me'[q] = me[q]
        BY <1>1, <2>3, <2>5, <3>2
      <4> QED
        BY <2>11, <3>2, <4>1 DEF IInv, LateBounded
    <3> QED
      BY <3>1, <3>2
  <2>13. late' \in [Op -> Nat]
    BY <1>1, <2>2, <2>10
  <2> QED
    BY <1>1, <2>1, <2>2, <2>5, <2>6, <2>7, <2>12, <2>13, HandlerKeeps DEF HandlerPC
<1> QED
  BY <1>2, <1>3, <1>4

\* The ways in which a tick is done with its job.
LEMMA EndingSteps ==
    ASSUME IInv, NEW p \in Tick,
           \/ StartFails(p) \/ Throws(p) \/ GiveUp(p) \/ Crash(p)
           \/ \E v \in Verdict : Returns(p, v)
    PROVE  IInv'
<1> USE Typed DEF tableVars, ghostVars
<1>0. success \subseteq Op /\ "blocked" \in Verdict
  BY DEF IInv, TypeOK, Verdict
<1>1. CASE StartFails(p)
  BY <1>0, <1>1, LeaveKeeps, FinishKeeps DEF StartFails
<1>2. CASE Throws(p)
  BY <1>0, <1>2, LeaveKeeps, FinishKeeps DEF Throws
<1>3. CASE GiveUp(p)
  BY <1>0, <1>3, LeaveKeeps, FinishKeeps DEF GiveUp
<1>4. CASE Crash(p)
  BY <1>0, <1>4, LeaveKeeps DEF Crash
<1>5. ASSUME NEW v \in Verdict, Returns(p, v)
      PROVE  IInv'
  <2>1. TickSound(p) /\ me[p].pc = "run" /\ me[p].op \in Op
    BY <1>5 DEF IInv, TickSound, Returns
  <2>2. success \subseteq success' /\ success' \subseteq Op
        /\ (me[p].mode = "execute" /\ v = "completed" => me[p].op \in success')
    BY <1>0, <1>5, <2>1 DEF Returns
  <2> QED
    BY <1>5, <2>1, <2>2, LeaveKeeps, FinishKeeps DEF Returns
<1> QED
  BY <1>1, <1>2, <1>3, <1>4, <1>5

\* A call is repeated.
LEMMA ResendKeeps == ASSUME IInv, NEW p \in Tick, Resend(p) PROVE IInv'
<1> USE Typed DEF tableVars, ghostVars
<1> DEFINE m == [me[p] EXCEPT !.try = @ + 1]
<1>1. TableSound'
  BY TableKept DEF Resend
<1>2. me[p] \in TickState /\ TickSound(p) /\ me[p].op \in Op /\ me[p].pc \in {"claim", "finish"}
  BY DEF Resend, IInv, TickSound
<1>3. /\ me' = [me EXCEPT ![p] = m] /\ me \in [Tick -> TickState]
      /\ net' = net \cup {RequestOf(p, m)} /\ UNCHANGED <<tableVars, ghostVars>>
  BY DEF Resend, Call, Become, IInv, TypeOK
<1>4. me[p].try + 1 \in 1..Tries
  BY <1>2 DEF Resend, TickState
<1>5. m \in TickState
  BY <1>2, <1>4 DEF TickState
<1>6. /\ m.pc = me[p].pc /\ m.op = me[p].op /\ m.ver = me[p].ver /\ m.mode = me[p].mode
      /\ m.verdict = me[p].verdict /\ m.try = me[p].try + 1 /\ m.left = 0
  BY <1>2, Quiet DEF TickState
<1>7. RequestOf(p, m) = [kind |-> me[p].pc, op |-> me[p].op, token |-> p, ver |-> me[p].ver,
                         mode |-> me[p].mode, verdict |-> me[p].verdict, try |-> me[p].try + 1]
  BY <1>6 DEF RequestOf
<1> HIDE DEF m
<1>8. RequestOf(p, m) \in Request
  BY <1>2, <1>4, <1>7 DEF Request, TickState, Token
<1>9. (\A q \in Tick : TickSound(q))'
  <2> SUFFICES ASSUME NEW q \in Tick PROVE TickSound(q)'
    OBVIOUS
  <2>1. CASE q = p
    BY <1>2, <1>3, <1>6, <2>1 DEF TickSound, OwnerPC, HandlerPC
  <2>2. CASE q # p
    BY <1>3, <2>2 DEF TickSound, IInv
  <2> QED
    BY <2>1, <2>2
<1>10. OwnersApart'
  BY <1>3, <1>6 DEF IInv, OwnersApart
<1>11. WireSound'
  <2> SUFFICES ASSUME NEW r \in net' PROVE (r.kind = "claim" => ClaimSound(r)') /\ (r.kind = "finish" => FinishSound(r)')
    BY DEF WireSound
  <2>1. CASE r = RequestOf(p, m)
    BY <1>2, <1>3, <1>6, <1>7, <2>1 DEF TickSound, ClaimSound, FinishSound, OwnerPC, HandlerPC, TickState
  <2>2. CASE r \in net
    <3>1. r \in Request /\ (r.kind = "claim" => ClaimSound(r)) /\ (r.kind = "finish" => FinishSound(r))
      BY <2>2 DEF IInv, WireSound
    <3>2. CASE r.kind = "claim"
      BY <1>3, <1>6, <3>1, <3>2 DEF ClaimSound
    <3>3. CASE r.kind = "finish"
      BY <1>3, <1>6, <3>1, <3>3 DEF FinishSound
    <3> QED
      BY <3>2, <3>3
  <2> QED
    BY <1>3, <2>1, <2>2
<1>12. RunOnce'
  BY <1>3, <1>6 DEF IInv, RunOnce
<1>13. LateBounded'
  BY <1>3, <1>6, LateKept DEF Gone, tableVars, ghostVars
<1>14. CompletedTruthfully'
  BY <1>3 DEF IInv, CompletedTruthfully
<1> QED
  BY <1>1, <1>3, <1>5, <1>8, <1>9, <1>10, <1>11, <1>12, <1>13, <1>14, Assembled DEF IInv, TypeOK

----------------------------------------------------------------------------
(* The table and the wire *)

\* A new operation has no owner yet.
LEMMA EnqueueKeeps ==
    ASSUME IInv, NEW k \in Op, Enqueue(k), UNCHANGED <<net, me, ghostVars>>
    PROVE  IInv'
<1> USE Typed
<1>1. job \in [Op -> JobRow] /\ job[k] \in JobRow /\ job' = [job EXCEPT ![k].state = "pending"]
  BY DEF Enqueue, IInv, TypeOK
<1>2. \A j \in Op : job'[j] = IF j = k THEN [job[k] EXCEPT !.state = "pending"] ELSE job[j]
  BY <1>1
<1>3. [job[k] EXCEPT !.state = "pending"] \in JobRow
  BY <1>1 DEF JobRow
<1>4. job' \in [Op -> JobRow]
  BY <1>1, <1>3
<1>5. /\ job'[k].state = "pending" /\ job'[k].ver = job[k].ver /\ job'[k].token = job[k].token
      /\ job'[k].live = job[k].live /\ job[k].state = "absent"
  BY <1>1, <1>2 DEF JobRow, Enqueue
<1>6. RowsSound'
  BY <1>2, <1>5 DEF IInv, RowsSound, Verdict
<1>7. SameClaims
  <2>1. job[k].ver = 0
    BY <1>5 DEF IInv, RowsSound
  <2>2. \A q \in Tick : me[q].pc \in HandlerPC => me[q].ver >= 1
    BY DEF IInv, TickSound, OwnerPC
  <2>3. \A q \in Tick : me[q].ver = 0 => me[q].pc \notin HandlerPC
    BY <2>2
  <2> QED
    BY <1>2, <1>5, <2>1, <2>3 DEF SameClaims
<1>8. Shown' /\ ShownIsLatest'
  BY <1>2, <1>5 DEF IInv, Shown, ShownIsLatest, Ended, Verdict, Enqueue
<1>9. (latest \in Op \cup {None} /\ shown \in {"none", "pending"} \cup Verdict)'
  BY DEF Enqueue, IInv, TypeOK
<1>10. CompletedTruthfully'
  BY <1>2, <1>5 DEF IInv, CompletedTruthfully, ghostVars
<1> QED
  BY <1>4, <1>6, <1>7, <1>8, <1>9, <1>10, TableMoves DEF TableSound

\* A lease runs out.
LEMMA LapseKeeps ==
    ASSUME IInv, NEW k \in Op, Lapse(k), UNCHANGED <<me, ghostVars>>
    PROVE  IInv'
<1> USE Typed
<1>1. /\ job \in [Op -> JobRow] /\ job[k] \in JobRow /\ job' = [job EXCEPT ![k].live = FALSE]
      /\ UNCHANGED <<latest, shown, net>>
  BY DEF Lapse, IInv, TypeOK
<1>2. \A j \in Op : job'[j] = IF j = k THEN [job[k] EXCEPT !.live = FALSE] ELSE job[j]
  BY <1>1
<1>3. [job[k] EXCEPT !.live = FALSE] \in JobRow
  BY <1>1 DEF JobRow
<1>4. job' \in [Op -> JobRow]
  BY <1>1, <1>3
<1>5. /\ job'[k].state = job[k].state /\ job'[k].ver = job[k].ver /\ job'[k].token = job[k].token
      /\ job'[k].mode = job[k].mode /\ job'[k].live = FALSE
  BY <1>1, <1>2 DEF JobRow
<1>6. RowsSound'
  BY <1>2, <1>5 DEF IInv, RowsSound
<1>7. SameClaims
  BY <1>2, <1>5 DEF SameClaims
<1>8. Shown' /\ ShownIsLatest'
  BY <1>1, <1>2, <1>5 DEF IInv, Shown, ShownIsLatest, Ended
<1>9. (latest \in Op \cup {None} /\ shown \in {"none", "pending"} \cup Verdict)'
  BY <1>1 DEF IInv, TypeOK
<1>10. CompletedTruthfully'
  BY <1>2, <1>5 DEF IInv, CompletedTruthfully, ghostVars
<1> QED
  BY <1>1, <1>4, <1>6, <1>7, <1>8, <1>9, <1>10, TableMoves DEF TableSound

\* A result is recorded by the owner of the claim only.
LEMMA FinishEffect ==
    ASSUME IInv, NEW r \in net, r.kind = "finish", Accepts(r), Effect(r), UNCHANGED ghostVars
    PROVE  TableSound' /\ SameClaims /\ CompletedTruthfully'
<1> USE Typed DEF ghostVars
<1>1. CASE UNCHANGED tableVars
  BY <1>1, TableKept DEF SameClaims, tableVars, IInv, CompletedTruthfully
<1>2. CASE ~Repeated(r) /\ Holds(r.op, r.token, r.ver) /\ Finish(r)
  <2> DEFINE row == [job[r.op] EXCEPT !.state = r.verdict, !.live = FALSE]
  <2>1. r \in Request /\ r.op \in Op /\ FinishSound(r) /\ r.verdict \in Verdict
    BY DEF IInv, WireSound, FinishSound, Request
  <2>2. job \in [Op -> JobRow] /\ job[r.op] \in JobRow /\ job' = [job EXCEPT ![r.op] = row]
    BY <1>2, <2>1 DEF Finish, IInv, TypeOK
  <2>3. row \in JobRow
    BY <2>1, <2>2 DEF JobRow
  <2>4. /\ row.state = r.verdict /\ row.ver = job[r.op].ver /\ row.token = job[r.op].token
        /\ row.mode = job[r.op].mode /\ row.live = FALSE
    BY <2>2 DEF JobRow
  <2>5. \A j \in Op : job'[j] = IF j = r.op THEN row ELSE job[j]
    BY <2>1, <2>2
  <2> HIDE DEF row
  <2>6. job[r.op].state = "running" /\ job[r.op].ver = r.ver
    BY <1>2 DEF Holds
  <2>7. job' \in [Op -> JobRow]
    BY <2>2, <2>3
  <2>8. RowsSound'
    BY <2>1, <2>4, <2>5, <2>6 DEF IInv, RowsSound, Verdict
  <2>9. SameClaims
    <3>1. ASSUME NEW q \in Tick, me[q].op = r.op, me[q].ver = job[r.op].ver, me[q].pc \in HandlerPC
          PROVE  FALSE
      <4>1. TickSound(q) /\ q = r.token
        BY <1>2, <3>1 DEF IInv, TickSound, OwnerPC, Holds
      <4>2. r.ver < me[q].ver /\ me[q].ver = r.ver /\ r.ver \in Nat
        BY <2>1, <2>6, <3>1, <4>1 DEF FinishSound, Request
      <4> QED
        BY <4>2
    <3> QED
      BY <2>4, <2>5, <3>1 DEF SameClaims
  <2>10. UNCHANGED latest /\ shown' = IF latest = r.op /\ r.op \in Scheduled THEN r.verdict ELSE shown
    BY <1>2 DEF Finish
  <2>11. Shown'
    BY <2>1, <2>4, <2>5, <2>10 DEF IInv, Shown, Verdict
  <2>12. ShownIsLatest'
    <3> SUFFICES ASSUME NEW k \in Op, latest = k
                 PROVE  shown' = IF job'[k].state \in Verdict THEN job'[k].state ELSE "pending"
      BY <2>10 DEF ShownIsLatest, Ended
    <3>1. k \in Scheduled
      BY DEF IInv, Shown
    <3> QED
      BY <2>1, <2>4, <2>5, <2>10, <3>1 DEF IInv, ShownIsLatest, Ended
  <2>13. (latest \in Op \cup {None} /\ shown \in {"none", "pending"} \cup Verdict)'
    BY <2>1, <2>10 DEF IInv, TypeOK
  <2>14. CompletedTruthfully'
    <3>1. job[r.op].mode = "execute" => r.mode = "execute"
      BY <2>1, <2>6 DEF FinishSound, First, IInv, RowsSound
    <3> QED
      BY <2>1, <2>4, <2>5, <3>1 DEF FinishSound, IInv, CompletedTruthfully
  <2> QED
    BY <2>7, <2>8, <2>9, <2>11, <2>12, <2>13, <2>14 DEF TableSound
<1> QED
  BY <1>1, <1>2 DEF Effect

\* A claim leaves the row to the claimer, one version on, or finds it there.
ClaimMoves(r) ==
    /\ r.op \in Op /\ job'[r.op].ver = r.ver + 1 /\ job'[r.op].token = r.token
    /\ job'[r.op].state = "running"
    /\ \A k \in Op : /\ job[k].ver \in Nat /\ job'[k].ver \in Nat
                     /\ job'[k].ver >= job[k].ver
                     /\ job'[k].ver = job[k].ver =>
                            /\ job'[k].token = job[k].token /\ job'[k].live = job[k].live
                            /\ job'[k].state = job[k].state
                     /\ k # r.op => job'[k].ver = job[k].ver

\* A claim is replayed, or takes a job that nobody holds.
LEMMA ClaimEffect ==
    ASSUME IInv, NEW r \in net, r.kind = "claim", Accepts(r), Effect(r), UNCHANGED ghostVars
    PROVE  /\ TableSound' /\ CompletedTruthfully'
           /\ ClaimMoves(r)
<1> USE Typed DEF ghostVars, ClaimMoves
<1>1. r \in Request /\ ClaimSound(r) /\ r.op \in Op /\ r.ver \in Nat /\ r.token \in Token /\ r.mode \in Mode
  BY DEF IInv, WireSound, Request
<1>2. job \in [Op -> JobRow] /\ \A k \in Op : job[k].ver \in Nat
  BY DEF IInv, TypeOK, JobRow
<1>3. CASE Granted(r) /\ UNCHANGED tableVars
  <2>1. job[r.op].ver = r.ver + 1 /\ job[r.op].token = r.token /\ job[r.op].state = "running"
    BY <1>1, <1>3 DEF Granted, Holds, ClaimSound, Mode
  <2>2. TableSound' /\ CompletedTruthfully'
    BY <1>3, TableKept DEF tableVars, IInv, CompletedTruthfully
  <2> QED
    BY <1>1, <1>2, <1>3, <2>1, <2>2 DEF tableVars
<1>4. CASE Free(r) /\ Claim(r)
  <2> DEFINE row == [state |-> "running", token |-> r.token, ver |-> job[r.op].ver + 1,
                     mode |-> r.mode, live |-> TRUE]
  <2>1. job' = [job EXCEPT ![r.op] = row] /\ UNCHANGED <<latest, shown>>
    BY <1>4 DEF Claim
  <2>2. row \in JobRow
    BY <1>1, <1>2 DEF JobRow, Verdict
  <2>3. row.state = "running" /\ row.token = r.token /\ row.ver = job[r.op].ver + 1 /\ row.mode = r.mode
    OBVIOUS
  <2>4. \A k \in Op : job'[k] = IF k = r.op THEN row ELSE job[k]
    BY <1>1, <1>2, <2>1
  <2> HIDE DEF row
  <2>5. job[r.op].ver = r.ver /\ job[r.op].state \in {"pending", "running"}
    BY <1>1, <1>4 DEF Free, ClaimSound, IInv, RowsSound
  <2>6. job' \in [Op -> JobRow]
    BY <1>2, <2>1, <2>2
  <2>7. RowsSound'
    BY <1>1, <1>2, <2>3, <2>4, <2>5 DEF IInv, RowsSound, First, ClaimSound, Verdict
  <2>8. Shown' /\ ShownIsLatest'
    BY <1>1, <2>1, <2>3, <2>4, <2>5 DEF IInv, Shown, ShownIsLatest, Ended, Verdict
  <2>9. (latest \in Op \cup {None} /\ shown \in {"none", "pending"} \cup Verdict)'
    BY <2>1 DEF IInv, TypeOK
  <2>10. CompletedTruthfully'
    BY <2>3, <2>4 DEF IInv, CompletedTruthfully
  <2>11. \A k \in Op : /\ job[k].ver \in Nat /\ job'[k].ver \in Nat
                       /\ job'[k].ver >= job[k].ver
                       /\ job'[k].ver = job[k].ver =>
                              /\ job'[k].token = job[k].token /\ job'[k].live = job[k].live
                            /\ job'[k].state = job[k].state
                       /\ k # r.op => job'[k].ver = job[k].ver
    BY <1>2, <2>3, <2>4
  <2> QED
    BY <1>1, <2>3, <2>4, <2>5, <2>6, <2>7, <2>8, <2>9, <2>10, <2>11 DEF TableSound
<1> QED
  BY <1>3, <1>4 DEF Effect

\* The claim is granted and nobody is told, or a tick is: the same table, and
\* at most one tick that becomes the owner of the newest claim.
LEMMA ClaimLost ==
    ASSUME IInv, NEW r \in net, r.kind = "claim", Accepts(r), Effect(r),
           Lost(r), UNCHANGED ghostVars
    PROVE  IInv'
<1> USE Typed DEF ghostVars
<1>f. TableSound' /\ CompletedTruthfully' /\ ClaimMoves(r)
  BY ClaimEffect
<1> USE <1>f DEF ClaimMoves
<1>1. UNCHANGED <<me, runs, late, success>> /\ net' \subseteq net
  BY DEF Lost
<1>2. \A k \in Op : job[k].ver \in Nat /\ job'[k].ver \in Nat
  OBVIOUS
<1>3. (\A q \in Tick : TickSound(q))'
  <2> SUFFICES ASSUME NEW q \in Tick PROVE TickSound(q)'
    OBVIOUS
  <2>1. TickSound(q) /\ me'[q] = me[q] /\ me[q] \in TickState
    BY <1>1 DEF IInv
  <2>2. CASE me[q].pc = "idle"
    BY <1>1, <2>1, <2>2 DEF TickSound, Idle, OwnerPC, HandlerPC
  <2>3. CASE me[q].pc # "idle"
    <3>1. me[q].op \in Op /\ me[q].ver \in Nat /\ me[q].ver <= job[me[q].op].ver
      BY <2>1, <2>3 DEF TickSound, TickState
    <3>2. /\ me[q].ver <= job'[me[q].op].ver
          /\ me[q].ver = job'[me[q].op].ver =>
                 /\ me[q].ver = job[me[q].op].ver /\ job'[me[q].op].token = job[me[q].op].token
                 /\ job'[me[q].op].state = job[me[q].op].state
      BY <3>1
    <3> QED
      BY <1>1, <2>1, <2>3, <3>1, <3>2 DEF TickSound
  <2> QED
    BY <2>2, <2>3
<1>4. OwnersApart'
  BY <1>1 DEF IInv, OwnersApart
<1>5. WireSound'
  <2> SUFFICES ASSUME NEW s \in net' PROVE (s.kind = "claim" => ClaimSound(s)') /\ (s.kind = "finish" => FinishSound(s)')
    BY DEF WireSound
  <2>1. s \in Request /\ (s.kind = "claim" => ClaimSound(s)) /\ (s.kind = "finish" => FinishSound(s))
    BY <1>1 DEF IInv, WireSound
  <2>2. s.kind = "claim" => ClaimSound(s)'
    BY <1>1, <2>1 DEF ClaimSound
  <2>3. s.kind = "finish" => FinishSound(s)'
    BY <1>1, <1>2, <2>1 DEF FinishSound, Request
  <2> QED
    BY <2>2, <2>3
<1>6. RunOnce'
  <2> SUFFICES ASSUME NEW k \in Op
               PROVE  /\ runs[k] <= 1
                      /\ runs[k] = 1 =>
                           /\ job'[k].ver >= 1
                           /\ \A q \in Tick : me[q].op = k /\ me[q].mode = "execute" =>
                               /\ me[q].pc # "start"
                               /\ me[q].pc = "claim" /\ job'[k].token = q => job'[k].ver # 1
    BY <1>1 DEF RunOnce
  <2> QED
    BY <1>2 DEF IInv, RunOnce
<1>7. LateBounded'
  <2>1. \A k \in Op : Gone(k) => Gone(k)'
    BY <1>2 DEF Gone
  <2> QED
    BY <1>1, <2>1 DEF IInv, LateBounded
<1> QED
  BY <1>1, <1>3, <1>4, <1>5, <1>6, <1>7, Assembled DEF IInv, TypeOK

\* A tick hears that it has the job.
LEMMA ClaimReply ==
    ASSUME IInv, NEW r \in net, r.kind = "claim", Accepts(r), Effect(r),
           NEW p \in Tick, Reply(p, r), UNCHANGED ghostVars
    PROVE  IInv'
<1> USE Typed DEF ghostVars
<1>f. TableSound' /\ CompletedTruthfully' /\ ClaimMoves(r)
  BY ClaimEffect
<1> USE <1>f DEF ClaimMoves
<1> DEFINE m == [me[p] EXCEPT !.pc = "start", !.ver = job'[r.op].ver, !.try = 1]
<1>0. 1 \in 1..Tries
  OBVIOUS
<1>1. /\ me' = [me EXCEPT ![p] = m] /\ me \in [Tick -> TickState] /\ net' = net \ {r}
      /\ Waits(p, r) /\ UNCHANGED <<runs, late, success>>
  BY DEF Reply, Become, IInv, TypeOK
<1>2. /\ me[p] \in TickState /\ TickSound(p) /\ me[p].pc = "claim" /\ me[p].op = r.op
      /\ me[p].ver = r.ver /\ me[p].mode = r.mode /\ r.token = p
  BY <1>1 DEF Waits, RequestOf, IInv
<1>3. \A k \in Op : job[k].ver \in Nat /\ job'[k].ver \in Nat
  OBVIOUS
<1>4. r \in Request /\ ClaimSound(r) /\ r.op \in Op /\ r.ver \in Nat
  BY DEF IInv, WireSound, Request
<1>5. m \in TickState
  BY <1>0, <1>2, <1>3, <1>4 DEF TickState, OwnerPC, HandlerPC
<1>6. m.pc = "start" /\ m.op = r.op /\ m.ver = r.ver + 1 /\ m.mode = r.mode /\ m.left = 0
  BY <1>2, <1>4, Quiet DEF TickState
<1> HIDE DEF m
<1>7. (\A q \in Tick : TickSound(q))'
  <2> SUFFICES ASSUME NEW q \in Tick PROVE TickSound(q)'
    OBVIOUS
  <2>1. CASE q = p
    <3>1. m.ver >= 1 /\ First(m.mode, m.ver)
      BY <1>4, <1>6 DEF ClaimSound, First
    <3> QED
      BY <1>1, <1>2, <1>3, <1>4, <1>6, <2>1, <3>1 DEF TickSound, OwnerPC, HandlerPC
  <2>2. CASE q # p
    <3>1. TickSound(q) /\ me'[q] = me[q] /\ me[q] \in TickState
      BY <1>1, <2>2 DEF IInv
    <3>2. CASE me[q].pc = "idle"
      BY <1>1, <3>1, <3>2 DEF TickSound, Idle, OwnerPC, HandlerPC
    <3>3. CASE me[q].pc # "idle"
      <4>1. me[q].op \in Op /\ me[q].ver \in Nat /\ me[q].ver <= job[me[q].op].ver
        BY <3>1, <3>3 DEF TickSound, TickState
      <4>2. /\ me[q].ver <= job'[me[q].op].ver
            /\ me[q].ver = job'[me[q].op].ver =>
                   /\ me[q].ver = job[me[q].op].ver /\ job'[me[q].op].token = job[me[q].op].token
                 /\ job'[me[q].op].state = job[me[q].op].state
        BY <4>1
      <4> QED
        BY <1>1, <3>1, <3>3, <4>1, <4>2 DEF TickSound
    <3> QED
      BY <3>2, <3>3
  <2> QED
    BY <2>1, <2>2
<1>8. OwnersApart'
  <2>1. ASSUME NEW q \in Tick, me'[q].pc \in OwnerPC, me'[q].op = r.op, me'[q].ver = m.ver
        PROVE  q = p
    <3>1. TickSound(q)'
      BY <1>7
    <3> QED
      BY <1>2, <1>4, <1>6, <2>1, <3>1 DEF TickSound
  <2> SUFFICES ASSUME NEW q1 \in Tick, NEW q2 \in Tick, me'[q1].pc \in OwnerPC,
                      me'[q2].pc \in OwnerPC, me'[q1].op = me'[q2].op, me'[q1].ver = me'[q2].ver
               PROVE  q1 = q2
    BY DEF OwnersApart
  <2>2. CASE q1 # p /\ q2 # p
    BY <1>1, <2>2 DEF IInv, OwnersApart
  <2>3. CASE q1 = p \/ q2 = p
    BY <1>1, <1>6, <2>1, <2>3
  <2> QED
    BY <2>2, <2>3
<1>9. WireSound'
  <2> SUFFICES ASSUME NEW s \in net' PROVE (s.kind = "claim" => ClaimSound(s)') /\ (s.kind = "finish" => FinishSound(s)')
    BY DEF WireSound
  <2>1. s \in Request /\ (s.kind = "claim" => ClaimSound(s)) /\ (s.kind = "finish" => FinishSound(s))
    BY <1>1 DEF IInv, WireSound
  <2>2. s.kind = "claim" => ClaimSound(s)'
    BY <1>1, <1>6, <2>1 DEF ClaimSound
  <2>3. CASE s.kind = "finish"
    <3>1. FinishSound(s) /\ s.op \in Op /\ s.ver \in Nat
      BY <2>1, <2>3 DEF Request
    <3>2. s.ver <= job'[s.op].ver
      BY <1>3, <3>1 DEF FinishSound
    <3>3. CASE s.token = p
      <4>1. s.op = r.op => s.ver <= r.ver
        BY <1>2, <3>1, <3>3 DEF FinishSound
      <4>2. s.op = m.op => s.ver < m.ver
        BY <1>4, <1>6, <3>1, <4>1
      <4>3. me'[s.token] = m
        BY <1>1, <3>3
      <4>4. FinishSound(s)'
        BY <1>1, <1>6, <3>1, <3>2, <3>3, <4>2, <4>3 DEF FinishSound
      <4> QED
        BY <2>3, <4>4
    <3>4. CASE s.token # p
      <4>1. me'[s.token] = me[s.token]
        BY <1>1, <3>1, <3>4 DEF FinishSound
      <4>2. FinishSound(s)'
        BY <1>1, <3>1, <3>2, <4>1 DEF FinishSound
      <4> QED
        BY <2>3, <4>2
    <3> QED
      BY <3>3, <3>4
  <2> QED
    BY <2>2, <2>3
<1>10. RunOnce'
  <2> SUFFICES ASSUME NEW k \in Op
               PROVE  /\ runs[k] <= 1
                      /\ runs[k] = 1 =>
                           /\ job'[k].ver >= 1
                           /\ \A q \in Tick : me'[q].op = k /\ me'[q].mode = "execute" =>
                               /\ me'[q].pc # "start"
                               /\ me'[q].pc = "claim" /\ job'[k].token = q => job'[k].ver # 1
    BY <1>1 DEF RunOnce
  <2>1. runs[k] = 1 /\ k = r.op => r.mode # "execute"
    <3> SUFFICES ASSUME runs[k] = 1, k = r.op, r.mode = "execute" PROVE FALSE
      OBVIOUS
    <3>1. r.ver = 0 /\ job'[k].ver = 1 /\ job'[k].token = p
      BY <1>2, <1>4 DEF ClaimSound
    <3>2. job[k].ver >= 1
      BY DEF IInv, RunOnce
    <3>3. job[k].ver = 1 /\ job[k].token = p
      BY <1>3, <1>4, <3>1, <3>2
    <3> QED
      BY <1>2, <3>3 DEF IInv, RunOnce
  <2> QED
    BY <1>1, <1>3, <1>6, <2>1 DEF IInv, RunOnce
<1>11. LateBounded'
  <2>1. \A k \in Op : Gone(k) => Gone(k)'
    BY <1>3 DEF Gone
  <2> QED
    BY <1>1, <1>6, <2>1, LateKept
<1>12. (net \subseteq Request)' /\ (me \in [Tick -> TickState])'
  BY <1>1, <1>5
<1> QED
  BY <1>1, <1>7, <1>8, <1>9, <1>10, <1>11, <1>12, Assembled DEF IInv, TypeOK

\* A procedure is applied, whether or not its caller hears of it.
LEMMA ApplyKeeps == ASSUME IInv, NEW r \in net, Apply(r) PROVE IInv'
<1>1. /\ Accepts(r) /\ Effect(r) /\ UNCHANGED ghostVars
      /\ Lost(r) \/ \E p \in Tick : Reply(p, r)
  BY DEF Apply
<1>2. CASE r.kind = "claim"
  BY <1>1, <1>2, ClaimLost, ClaimReply
<1>3. CASE r.kind = "finish"
  <2>1. TableSound' /\ SameClaims /\ CompletedTruthfully'
    BY <1>1, <1>3, FinishEffect
  <2>2. CASE Lost(r)
    BY <1>1, <2>1, <2>2, TableMoves DEF Lost
  <2>3. ASSUME NEW p \in Tick, Reply(p, r)
        PROVE  IInv'
    <3>1. Leave(p, {r})
      BY <1>3, <2>3 DEF Reply
    <3> QED
      BY <1>1, <2>1, <3>1, LeaveSound DEF ghostVars, IInv, TypeOK
  <2> QED
    BY <1>1, <2>2, <2>3
<1>4. r.kind \in {"claim", "finish"}
  BY DEF IInv, TypeOK, Request
<1> QED
  BY <1>2, <1>3, <1>4

\* A procedure refuses.
LEMMA RefuseKeeps == ASSUME IInv, NEW r \in net, Refuse(r) PROVE IInv'
<1>1. UNCHANGED <<tableVars, ghostVars>>
  BY DEF Refuse
<1>2. CASE Lost(r)
  <2>1. TableSound' /\ SameClaims /\ CompletedTruthfully'
    BY <1>1, TableKept DEF SameClaims, tableVars, ghostVars, IInv, CompletedTruthfully
  <2> QED
    BY <1>1, <1>2, <2>1, TableMoves DEF Lost
<1>3. ASSUME NEW p \in Tick, Leave(p, {r})
      PROVE  IInv'
  BY <1>1, <1>3, LeaveKeeps DEF ghostVars, IInv, TypeOK
<1> QED
  BY <1>2, <1>3 DEF Refuse

----------------------------------------------------------------------------
(* The invariant *)

\* The inductive invariant holds of the empty table.
THEOREM InvInit == Init => IInv
<1> SUFFICES ASSUME Init PROVE IInv
  OBVIOUS
<1>1. Absent \in JobRow
  BY DEF Absent, JobRow, Token, Mode
<1>2. TypeOK
  BY <1>1, IdleTyped DEF Init, TypeOK
<1>3. RowsSound /\ Shown /\ ShownIsLatest /\ CompletedTruthfully
  BY DEF Init, RowsSound, Shown, ShownIsLatest, CompletedTruthfully, Absent, Verdict, TableAssumption
<1>4. \A p \in Tick : TickSound(p)
  BY DEF Init, TickSound, Idle, OwnerPC, HandlerPC
<1>5. OwnersApart /\ WireSound /\ RunOnce /\ LateBounded
  BY DEF Init, OwnersApart, WireSound, RunOnce, LateBounded, Idle, OwnerPC, HandlerPC
<1> QED
  BY <1>2, <1>3, <1>4, <1>5 DEF IInv

\* Every step of a tick, of the table and of the wire preserves it.
THEOREM InvStep == IInv /\ [Next]_vars => IInv'
<1> SUFFICES ASSUME IInv, [Next]_vars PROVE IInv'
  OBVIOUS
<1>1. ASSUME NEW k \in Op, Environment(k)
      PROVE  IInv'
  BY <1>1, EnqueueKeeps, LapseKeeps DEF Environment
<1>2. ASSUME NEW p \in Tick, TickStep(p)
      PROVE  IInv'
  BY <1>2, ListKeeps, StartKeeps, HandlerSteps, EndingSteps DEF TickStep
<1>3. ASSUME NEW p \in Tick, Fault(p) \/ Resend(p) \/ GiveUp(p)
      PROVE  IInv'
  BY <1>3, HandlerSteps, EndingSteps, ResendKeeps DEF Fault
<1>4. ASSUME NEW r \in net, Apply(r) \/ Refuse(r)
      PROVE  IInv'
  BY <1>4, ApplyKeeps, RefuseKeeps
<1>5. CASE UNCHANGED vars
  <2>1. TableSound' /\ SameClaims /\ CompletedTruthfully'
    BY <1>5, TableKept DEF vars, tableVars, SameClaims, IInv, CompletedTruthfully
  <2> QED
    BY <1>5, <2>1, TableMoves DEF vars, ghostVars
<1> QED
  BY <1>1, <1>2, <1>3, <1>4, <1>5 DEF Next

\* The invariant holds in every reachable state.
THEOREM Invariance == Spec => []IInv
<1> QED
  BY InvInit, InvStep, PTL DEF Spec

\* Every variable stays within its type.
THEOREM TypeCorrect == Spec => []TypeOK
<1>1. IInv => TypeOK
  BY DEF IInv
<1> QED
  BY <1>1, Invariance, PTL

\* The handler of a job is entered at most once.
THEOREM OneExecution == Spec => []ExecutesOnce
<1>1. IInv => ExecutesOnce
  BY DEF IInv, RunOnce, ExecutesOnce
<1> QED
  BY <1>1, Invariance, PTL

\* After its lease is lost, a handler starts no more external effects than one
\* assertion lets go.
THEOREM OneLateStretch == Spec => []LateEffectsAreOneStretch
<1>1. IInv => LateEffectsAreOneStretch
  BY DEF IInv, LateBounded, LateEffectsAreOneStretch
<1> QED
  BY <1>1, Invariance, PTL

\* An execution is on record as completed only if its handler was.
THEOREM Truthful == Spec => []CompletedTruthfully
<1>1. IInv => CompletedTruthfully
  BY DEF IInv
<1> QED
  BY <1>1, Invariance, PTL

\* The tenant is shown the newest scheduled job as it is.
THEOREM Projection == Spec => []ShownIsLatest
<1>1. IInv => ShownIsLatest
  BY DEF IInv
<1> QED
  BY <1>1, Invariance, PTL

----------------------------------------------------------------------------
(* What a row may become *)

\* The ways of one row: enqueued, claimed, recovered, dispossessed, ended.
RowMoves(k) ==
    LET old == job[k]
        new == job'[k]
    IN  \/ new = old
        \/ old.state = "absent" /\ new.state = "pending"
        \/ old.state = "pending" /\ new.state = "running" /\ new.ver = 1 /\ new.live
        \/ old.state = "running" /\ ~old.live /\ new.state = "running" /\ new.ver >= 2
        \/ old.state = "running" /\ new.state = "running" /\ new.ver = old.ver /\ ~new.live
        \/ old.state = "running" /\ old.live /\ new.state \in Verdict /\ new.ver = old.ver

\* A step moves a job's row only as the procedures do.
LEMMA RowStep == ASSUME IInv, [Next]_vars, NEW k \in Op PROVE RowMoves(k)
<1> USE Typed
<1>1. job \in [Op -> JobRow] /\ job[k] \in JobRow
  BY DEF IInv, TypeOK
<1>2. CASE job' = job
  BY <1>2 DEF RowMoves
<1>3. ASSUME NEW j \in Op, Enqueue(j) \/ Lapse(j)
      PROVE  RowMoves(k)
  <2>1. CASE j # k
    BY <1>1, <1>3, <2>1 DEF Enqueue, Lapse, RowMoves
  <2>2. CASE j = k
    BY <1>1, <1>3, <2>2 DEF Enqueue, Lapse, RowMoves, JobRow
  <2> QED
    BY <2>1, <2>2
<1>4. ASSUME NEW r \in net, Accepts(r), Effect(r)
      PROVE  RowMoves(k)
  <2>1. r \in Request /\ r.op \in Op
    BY DEF Request
  <2>2. CASE UNCHANGED tableVars
    BY <1>2, <2>2 DEF tableVars
  <2>3. CASE r.kind = "claim" /\ Free(r) /\ Claim(r)
    <3>1. CASE r.op # k
      BY <1>1, <2>1, <2>3, <3>1 DEF Claim, RowMoves
    <3>2. CASE r.op = k
      <4>1. /\ job'[k].state = "running" /\ job'[k].live /\ job'[k].ver = job[k].ver + 1
        BY <1>1, <2>1, <2>3, <3>2 DEF Claim
      <4>2. /\ job[k].ver \in Nat /\ (job[k].state = "pending" => job[k].ver = 0)
            /\ (job[k].state = "running" => job[k].ver >= 1)
        BY <1>1 DEF IInv, RowsSound, JobRow
      <4> QED
        BY <2>3, <3>2, <4>1, <4>2 DEF Free, RowMoves
    <3> QED
      BY <3>1, <3>2
  <2>4. CASE r.kind = "finish" /\ Holds(r.op, r.token, r.ver) /\ Finish(r)
    <3>1. r.verdict \in Verdict
      BY <2>1, <2>4 DEF IInv, WireSound, FinishSound, Request
    <3>2. CASE r.op # k
      BY <1>1, <2>1, <2>4, <3>2 DEF Finish, RowMoves
    <3>3. CASE r.op = k
      BY <1>1, <2>1, <2>4, <3>1, <3>3 DEF Finish, Holds, RowMoves, JobRow
    <3> QED
      BY <3>2, <3>3
  <2> QED
    BY <1>4, <2>2, <2>3, <2>4 DEF Effect
<1>5. CASE Next
  <2>1. CASE \E j \in Op : Environment(j)
    BY <1>3, <2>1 DEF Environment
  <2>2. CASE \E p \in Tick : TickStep(p) \/ Fault(p) \/ Resend(p) \/ GiveUp(p)
    <3>1. UNCHANGED tableVars
      BY <2>2 DEF TickStep, Fault, List, Start, AssertActive, Act, Returns,
         StartFails, Doubt, Throws, Crash, Resend, GiveUp
    <3> QED
      BY <1>2, <3>1 DEF tableVars
  <2>3. CASE \E r \in net : Apply(r) \/ Refuse(r)
    <3>1. PICK r \in net : Apply(r) \/ Refuse(r)
      BY <2>3
    <3>2. CASE Apply(r)
      BY <1>4, <3>2 DEF Apply
    <3>3. CASE Refuse(r)
      BY <1>2, <3>3 DEF Refuse, tableVars
    <3> QED
      BY <3>1, <3>2, <3>3
  <2> QED
    BY <1>5, <2>1, <2>2, <2>3 DEF Next
<1>6. CASE UNCHANGED vars
  BY <1>2, <1>6 DEF vars
<1> QED
  BY <1>5, <1>6

\* A recorded outcome is never replaced.
THEOREM Final == Spec => OutcomeIsFinal
<1>1. IInv /\ [Next]_vars => [\A k \in Op : Ended(k) => job'[k] = job[k]]_vars
  BY RowStep DEF RowMoves, Ended, Verdict
<1> QED
  BY <1>1, Invariance, PTL DEF Spec, OutcomeIsFinal
----------------------------------------------------------------------------
(* The table and its ticks implement the promise *)

\* A late effect is one of the Stretch that its operation may have, and its
\* execution is dispossessed by then.
LEMMA LateStep == ASSUME IInv, [Next]_vars, NEW k \in Op
                  PROVE  \/ late'[k] = late[k]
                         \/ /\ job' = job /\ late[k] < Stretch /\ late'[k] = late[k] + 1
                            /\ \/ job[k].state = "running" /\ ~(job[k].ver = 1 /\ job[k].live)
                               \/ job[k].state \in Verdict /\ job[k].ver # 1
<1> USE Typed
<1>1. CASE \E p \in Tick : Act(p)
  <2>1. PICK p \in Tick : Act(p)
    BY <1>1
  <2>2. CASE late'[k] = late[k]
    BY <2>2
  <2>3. CASE late'[k] # late[k]
    <3>1. /\ me[p].pc = "act" /\ me[p].op = k /\ ~Owns(p) /\ late'[k] = late[k] + 1 /\ job' = job
      BY <2>1, <2>3 DEF Act, IInv, TypeOK, tableVars
    <3>2. late[k] \in Nat /\ late[k] + me[p].left <= Stretch /\ me[p].left \in Nat /\ me[p].left > 0
      BY <3>1 DEF IInv, TypeOK, LateBounded, TickSound, TickState
    <3>3. late[k] < Stretch /\ late'[k] = late[k] + 1
      BY <3>1, <3>2
    <3>4. /\ me[p].mode = "execute" /\ me[p].ver = 1 /\ me[p].ver <= job[k].ver
          /\ me[p].ver = job[k].ver => job[k].token = p /\ job[k].state = "running"
      BY <3>1 DEF IInv, TickSound, First, OwnerPC, HandlerPC
    <3>5. job[k] \in JobRow /\ (job[k].state \in {"absent", "pending"} => job[k].ver = 0)
      BY DEF IInv, TypeOK, RowsSound
    <3>6. job[k].state \in {"running"} \cup Verdict
      BY <3>4, <3>5 DEF JobRow
    <3>7. CASE job[k].ver = 1
      BY <3>1, <3>3, <3>4, <3>7 DEF Owns, Holds
    <3>8. CASE job[k].ver # 1
      BY <3>1, <3>3, <3>6, <3>8
    <3> QED
      BY <3>7, <3>8
  <2> QED
    BY <2>2, <2>3
<1>2. CASE ~\E p \in Tick : Act(p)
  <2>1. late' = late
    BY <1>2 DEF Next, vars, Environment, TickStep, Fault, List, Start, AssertActive, Returns,
       StartFails, Doubt, Throws, Crash, Resend, GiveUp, Apply, Refuse, ghostVars
  <2> QED
    BY <2>1
<1> QED
  BY <1>1, <1>2

\* The detailed specification implements the promise for every operation.
THEOREM Refinement == Spec => KeepsPromise
<1>1. ASSUME Init, NEW k \in Op PROVE Promise(k)!Init
  <2>1. job[k] = Absent /\ late[k] = 0
    BY <1>1 DEF Init
  <2>2. PhaseOf(job[k]) = "absent"
    BY <2>1 DEF PhaseOf, Verdict, Absent
  <2> QED
    BY <2>1, <2>2 DEF Promise!Init
<1>2. ASSUME IInv, [Next]_vars, NEW k \in Op
      PROVE  [Promise(k)!Next]_(Promise(k)!vars)
  <2>1. RowMoves(k)
    BY <1>2, RowStep
  <2>2. job[k] \in JobRow /\ job'[k] \in JobRow
    BY <1>2, InvStep DEF IInv, TypeOK
  <2>3. /\ job[k].state \in {"absent", "pending"} => job[k].ver = 0
        /\ job[k].live => job[k].state = "running"
    BY <1>2 DEF IInv, RowsSound
  <2>4. CASE late'[k] = late[k]
    <3>1. CASE job'[k] = job[k]
      BY <2>4, <3>1 DEF Promise!vars
    <3>2. CASE job[k].state = "absent" /\ job'[k].state = "pending"
      BY <2>4, <3>2 DEF Promise!Next, Promise!Enqueue, PhaseOf, Verdict
    <3>3. CASE job[k].state = "pending" /\ job'[k].state = "running" /\ job'[k].ver = 1 /\ job'[k].live
      BY <2>4, <3>3 DEF Promise!Next, Promise!Start, PhaseOf, Verdict
    <3>4. CASE job[k].state = "running" /\ ~job[k].live /\ job'[k].state = "running" /\ job'[k].ver >= 2
      <4>1. PhaseOf(job[k]) = "orphaned" /\ PhaseOf(job'[k]) = "orphaned"
        BY <2>2, <3>4 DEF PhaseOf, Verdict, JobRow
      <4> QED
        BY <2>4, <4>1 DEF Promise!vars
    <3>5. CASE /\ job[k].state = "running" /\ job'[k].state = "running"
               /\ job'[k].ver = job[k].ver /\ ~job'[k].live
      <4>1. PhaseOf(job[k]) \in {"executing", "orphaned"} /\ PhaseOf(job'[k]) = "orphaned"
        BY <3>5 DEF PhaseOf, Verdict
      <4> QED
        BY <2>4, <4>1 DEF Promise!vars, Promise!Next, Promise!Dispossess
    <3>6. CASE /\ job[k].state = "running" /\ job[k].live
               /\ job'[k].state \in Verdict /\ job'[k].ver = job[k].ver
      <4>1. PhaseOf(job[k]) = IF job[k].ver = 1 THEN "executing" ELSE "orphaned"
        BY <3>6 DEF PhaseOf, Verdict
      <4>2. PhaseOf(job'[k]) = IF job[k].ver = 1 THEN "executed" ELSE "reconciled"
        BY <3>6 DEF PhaseOf, Verdict
      <4> QED
        BY <2>4, <4>1, <4>2 DEF Promise!Next, Promise!End, Promise!Reconcile
    <3> QED
      BY <2>1, <3>1, <3>2, <3>3, <3>4, <3>5, <3>6 DEF RowMoves
  <2>5. CASE /\ job' = job /\ late[k] < Stretch /\ late'[k] = late[k] + 1
             /\ \/ job[k].state = "running" /\ ~(job[k].ver = 1 /\ job[k].live)
                \/ job[k].state \in Verdict /\ job[k].ver # 1
    <3>1. PhaseOf(job[k]) \in {"orphaned", "reconciled"}
      BY <2>5 DEF PhaseOf, Verdict
    <3> QED
      BY <2>5, <3>1 DEF Promise!Next, Promise!LateEffect
  <2> QED
    BY <1>2, <2>4, <2>5, LateStep
<1>3. IInv /\ [Next]_vars => [\A k \in Op : [Promise(k)!Next]_(Promise(k)!vars)]_vars
  BY <1>2
<1>4. Init => \A k \in Op : Promise(k)!Init
  BY <1>1
<1> QED
  BY <1>3, <1>4, Invariance, PTL DEF Spec, KeepsPromise
============================================================================
