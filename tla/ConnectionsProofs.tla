-------------------------- MODULE ConnectionsProofs --------------------------
(***************************************************************************)
(* Safety of the connections, for any isolates, tenants, requests and      *)
(* bounds: whatever is sent late, twice or not at all, a row holds a token *)
(* of its own generation, a verdict is about the token that is stored, and *)
(* a job works with its own tenant's credentials.                          *)
(*                                                                         *)
(* A revision never returns: a request or a session whose guard is still   *)
(* the row's is of a row that has not changed since the guard was read.    *)
(***************************************************************************)
EXTENDS Connections, SequenceTheorems, TLAPS

----------------------------------------------------------------------------
(* Rows *)

\* A row that moves on one revision leaves every guard but the new one behind.
LEMMA RowMoves ==
  ASSUME ConnInv, NEW t \in Managed, NEW r \in RowType,
         row' = [row EXCEPT ![t] = r], r.rev = row[t].rev + 1,
         applied \subseteq applied', checked \subseteq checked', failed \subseteq failed',
         \A m \in wire : m.op \in applied' /\ m.op \notin applied =>
            /\ m.tenant = t /\ m.rev = row[t].rev
            /\ m.kind # "failure" => r.state # "disconnected" /\ r.token = m.token
  PROVE  /\ \A m \in wire : MessageSound(m)'
         /\ \A u \in Managed, guard \in GuardType, stored \in Issued :
               GuardSound(u, guard, stored) => GuardSound(u, guard, stored)'
<1>1. /\ row'[t] = r /\ \A u \in Managed \ {t} : row'[u] = row[u]
      /\ \A u \in Managed : row[u].rev \in Nat /\ row[u].gen \in 1..Generations
      /\ wire \subseteq Message
  BY DEF ConnInv, Types, RowType
<1>2. ASSUME NEW m \in wire
      PROVE  MessageSound(m)'
  <2>1. m.tenant \in Managed /\ m.rev \in Nat /\ MessageSound(m)
    BY <1>1 DEF ConnInv, Message
  <2>2. CASE m.tenant # t
    <3>1. row'[m.tenant] = row[m.tenant] /\ (m.op \in applied' <=> m.op \in applied)
      BY <2>1, <2>2, <1>1
    <3> QED BY <2>1, <3>1 DEF MessageSound
  <2>3. CASE m.tenant = t
    <3>1. row'[m.tenant].rev = row[t].rev + 1 /\ m.rev <= row[t].rev
          /\ (m.op \in applied => m.rev < row[t].rev)
      BY <2>1, <2>3, <1>1 DEF MessageSound
    <3>2. m.op \in applied' /\ m.op \in applied => m.rev + 1 # row'[m.tenant].rev
      BY <3>1, <2>1, <1>1
    <3> QED BY <2>1, <2>3, <3>1, <3>2, <1>1 DEF MessageSound
  <2> QED BY <2>2, <2>3
<1>3. ASSUME NEW u \in Managed, NEW guard \in GuardType, NEW stored \in Issued, GuardSound(u, guard, stored)
      PROVE  GuardSound(u, guard, stored)'
  <2>1. guard.rev \in Nat
    BY DEF GuardType
  <2> QED BY <2>1, <1>1, <1>3 DEF GuardSound
<1> QED
  BY <1>2, <1>3

\* The row after a mutation.
LEMMA MutatedRow ==
  ASSUME NEW r \in RowType, NEW m \in Message, m.kind # "failure" => m.token \in Issued
  PROVE  /\ Mutated(r, m) \in RowType /\ Mutated(r, m).rev = r.rev + 1 /\ Mutated(r, m).gen = r.gen
         /\ Mutated(r, m).state # "disconnected"
         /\ m.kind = "refresh" => Mutated(r, m).token = m.token /\ Mutated(r, m).state = "stored_not_verified"
         /\ m.kind = "verify" => Mutated(r, m).token = r.token /\ Mutated(r, m).account = m.token.gen
                                 /\ Mutated(r, m).state = "verified"
         /\ m.kind = "failure" => Mutated(r, m).token = r.token /\ Mutated(r, m).state = "needs_reconnect"
<1>1. m.kind \in {"refresh", "verify", "failure"} /\ m.token \in TokenType
  BY DEF Message, MutationKind
<1>0. r.rev \in Nat /\ r.gen \in 1..Generations /\ r.state \in State /\ r.token \in TokenType
      /\ r.account \in 0..Generations
  BY DEF RowType
<1>a. /\ r.rev + 1 \in Nat
      /\ {"verified", "needs_reconnect", "stored_not_verified"} \subseteq State
  BY <1>0 DEF State
<1>2. CASE m.kind = "refresh"
  <2>1. Mutated(r, m) = [r EXCEPT !.rev = r.rev + 1, !.state = "stored_not_verified", !.token = m.token]
    BY <1>2 DEF Mutated
  <2> QED BY <1>1, <1>0, <1>a, <1>2, <2>1 DEF RowType
<1>3. CASE m.kind = "verify"
  <2>1. m.token.gen \in 0..Generations
    BY <1>3 DEF Issued
  <2>2. Mutated(r, m) = [r EXCEPT !.rev = r.rev + 1, !.state = "verified", !.account = m.token.gen]
    BY <1>3 DEF Mutated
  <2> QED BY <1>1, <1>0, <1>a, <1>3, <2>1, <2>2 DEF RowType
<1>4. CASE m.kind = "failure"
  <2>1. Mutated(r, m) = [r EXCEPT !.rev = r.rev + 1, !.state = "needs_reconnect"]
    BY <1>4 DEF Mutated
  <2> QED BY <1>1, <1>0, <1>a, <1>4, <2>1 DEF RowType
<1> QED
  BY <1>1, <1>2, <1>3, <1>4

\* A request that arrives leaves the rows, the other requests and the guards of
\* all sessions sound, whenever it does.
LEMMA ApplyKeeps ==
  ASSUME ConnInv, NEW m \in wire, Apply(m), UNCHANGED <<checked, failed>>
  PROVE  /\ row' \in [Managed -> RowType]
         /\ \A t \in Managed : row'[t].state # "disconnected" => row'[t].token \in Issued
         /\ OwnGeneration' /\ VerdictIsAboutStored'
         /\ \A n \in wire : MessageSound(n)'
         /\ \A u \in Managed, guard \in GuardType, stored \in Issued :
               GuardSound(u, guard, stored) => GuardSound(u, guard, stored)'
         /\ \A op \in applied' : \E n \in wire : n.op = op
         /\ Fits(m) => m.op \in applied'
<1>0. /\ m \in Message /\ m.tenant \in Managed /\ MessageSound(m) /\ row \in [Managed -> RowType]
      /\ row[m.tenant] \in RowType
      /\ \A op \in applied : \E n \in wire : n.op = op
      /\ \A t \in Managed : row[t].state # "disconnected" => row[t].token \in Issued
  BY DEF ConnInv, Types, OpsSound, Message
<1>1. CASE ~(m.op \notin applied /\ Fits(m))
  <2>1. UNCHANGED <<row, applied>>
    BY <1>1 DEF Apply
  <2>2. OwnGeneration' /\ VerdictIsAboutStored' /\ \A n \in wire : MessageSound(n)'
    BY <2>1 DEF ConnInv, OwnGeneration, VerdictIsAboutStored, MessageSound
  <2>3. \A u \in Managed, guard \in GuardType, stored \in Issued :
          GuardSound(u, guard, stored) => GuardSound(u, guard, stored)'
    BY <2>1 DEF GuardSound
  <2> QED BY <1>0, <1>1, <2>1, <2>2, <2>3
<1>2. CASE m.op \notin applied /\ Fits(m)
  <2> DEFINE t == m.tenant
             r == Mutated(row[t], m)
  <2>1. /\ row' = [row EXCEPT ![t] = r] /\ applied' = applied \cup {m.op}
        /\ m.gen = row[t].gen /\ m.rev = row[t].rev
    BY <1>2 DEF Apply, Fits
  <2>2. /\ row[t].state # "disconnected" /\ row[t].token \in Issued
        /\ m.kind # "failure" => m.token \in Issued /\ m.token.tenant = t /\ m.token.gen = m.gen
        /\ m.kind = "verify" => row[t].token = m.token /\ m.token \in checked
        /\ m.kind = "failure" => row[t].token \in failed
    BY <1>0, <1>2, <2>1 DEF MessageSound
  <2>3. /\ r \in RowType /\ r.rev = row[t].rev + 1 /\ r.gen = row[t].gen
        /\ r.state # "disconnected"
        /\ m.kind = "refresh" => r.token = m.token /\ r.state = "stored_not_verified"
        /\ m.kind = "verify" => r.token = row[t].token /\ r.account = m.token.gen /\ r.state = "verified"
        /\ m.kind = "failure" => r.token = row[t].token /\ r.state = "needs_reconnect"
    BY <1>0, <2>2, MutatedRow
  <2>4. m.kind \in {"refresh", "verify", "failure"}
    BY <1>0 DEF Message, MutationKind
  <2> HIDE DEF r
  <2>5. /\ row' \in [Managed -> RowType] /\ row'[t] = r /\ \A u \in Managed \ {t} : row'[u] = row[u]
    BY <1>0, <2>1, <2>3
  <2>6. r.token \in Issued
    BY <2>2, <2>3, <2>4
  <2>7. OwnGeneration'
    <3>1. r.token.tenant = t /\ r.token.gen = r.gen
      BY <1>0, <2>1, <2>2, <2>3, <2>4 DEF ConnInv, OwnGeneration
    <3> QED BY <2>3, <2>5, <3>1 DEF ConnInv, OwnGeneration
  <2>8. VerdictIsAboutStored'
    <3>1. /\ r.state = "verified" => r.token \in checked /\ r.account = r.token.gen
          /\ r.state = "needs_reconnect" => r.token \in failed
      BY <2>2, <2>3, <2>4
    <3> QED BY <2>5, <3>1 DEF ConnInv, VerdictIsAboutStored
  <2>9. \A n \in wire : n.op \in applied' /\ n.op \notin applied => n = m
    BY <2>1 DEF ConnInv, OpsSound
  <2>10. m.kind # "failure" => r.token = m.token
    BY <2>2, <2>3, <2>4
  <2>11. /\ \A n \in wire : MessageSound(n)'
         /\ \A u \in Managed, guard \in GuardType, stored \in Issued :
               GuardSound(u, guard, stored) => GuardSound(u, guard, stored)'
    <3>1. \A n \in wire : n.op \in applied' /\ n.op \notin applied =>
            /\ n.tenant = t /\ n.rev = row[t].rev
            /\ n.kind # "failure" => r.state # "disconnected" /\ r.token = n.token
      BY <2>1, <2>3, <2>9, <2>10
    <3>2. applied \subseteq applied' /\ checked \subseteq checked' /\ failed \subseteq failed'
      BY <2>1
    <3> QED BY <1>0, <2>1, <2>3, <3>1, <3>2, RowMoves
  <2> QED BY <1>0, <2>1, <2>5, <2>6, <2>7, <2>8, <2>11
<1> QED
  BY <1>1, <1>2

----------------------------------------------------------------------------
(* Configurations *)

\* What is configured for a tenant, over what was.
LEMMA EnterScope ==
  ASSUME Types, NEW k \in Isolate, NEW t \in Tenant, NEW token \in TokenType, Enter(k, t, token)
  PROVE  /\ frames' \in [Isolate -> Seq(Config)] /\ config' \in [Isolate -> Config]
         /\ config'[k] = [key |-> KeyFor(t, config[k]), token |-> token]
         /\ Len(frames'[k]) = Len(frames[k]) + 1 /\ frames'[k][Len(frames[k]) + 1] = config[k]
         /\ \A i \in 1..Len(frames[k]) : frames'[k][i] = frames[k][i]
         /\ \A j \in Isolate \ {k} : config'[j] = config[j] /\ frames'[j] = frames[j]
<1>1. frames \in [Isolate -> Seq(Config)] /\ config \in [Isolate -> Config] /\ frames[k] \in Seq(Config)
      /\ config[k] \in Config
  BY DEF Types
<1>2. KeyFor(t, config[k]) \in Tenant \cup {None, Operator}
  BY <1>1 DEF KeyFor, Config
<1>3. [key |-> KeyFor(t, config[k]), token |-> token] \in Config
  BY <1>2 DEF Config
<1>4. Append(frames[k], config[k]) \in Seq(Config)
      /\ Len(Append(frames[k], config[k])) = Len(frames[k]) + 1
      /\ Append(frames[k], config[k])[Len(frames[k]) + 1] = config[k]
      /\ \A i \in 1..Len(frames[k]) : Append(frames[k], config[k])[i] = frames[k][i]
  BY <1>1
<1>5. frames' = [frames EXCEPT ![k] = Append(frames[k], config[k])]
      /\ config' = [config EXCEPT ![k] = [key |-> KeyFor(t, config[k]), token |-> token]]
  BY DEF Enter
<1> QED
  BY <1>1, <1>3, <1>4, <1>5

\* What was configured comes back.
LEMMA LeaveScope ==
  ASSUME Types, NEW k \in Isolate, Len(frames[k]) \in {1, 2}, Leave(k)
  PROVE  /\ frames' \in [Isolate -> Seq(Config)] /\ config' \in [Isolate -> Config]
         /\ config'[k] = frames[k][Len(frames[k])]
         /\ Len(frames[k]) = 1 => frames'[k] = <<>>
         /\ Len(frames[k]) = 2 => Len(frames'[k]) = 1 /\ frames'[k][1] = frames[k][1]
         /\ \A j \in Isolate \ {k} : config'[j] = config[j] /\ frames'[j] = frames[j]
<1>1. frames \in [Isolate -> Seq(Config)] /\ config \in [Isolate -> Config] /\ frames[k] \in Seq(Config)
  BY DEF Types
<1>2. frames[k][Len(frames[k])] \in Config
  <2>1. Len(frames[k]) \in 1..Len(frames[k])
    OBVIOUS
  <2> QED BY <1>1, <2>1, ElementOfSeq
<1> DEFINE rest == SubSeq(frames[k], 1, Len(frames[k]) - 1)
<1>3. rest \in Seq(Config)
  BY <1>1, SubSeqProperties
<1>4. Len(frames[k]) = 1 => rest = <<>>
  BY SubSeqEmpty
<1>5. Len(frames[k]) = 2 => Len(rest) = 1 /\ rest[1] = frames[k][1]
  BY <1>1, SubSeqProperties
<1>6. frames' = [frames EXCEPT ![k] = rest] /\ config' = [config EXCEPT ![k] = frames[k][Len(frames[k])]]
  BY DEF Leave
<1> HIDE DEF rest
<1> QED
  BY <1>1, <1>2, <1>3, <1>4, <1>5, <1>6

----------------------------------------------------------------------------
(* Sessions *)

\* A step elsewhere leaves a session and its scope sound, as long as it leaves
\* its requests and the guards.
LEMMA SessionStays ==
  ASSUME ConnInv, NEW j \in Isolate, wire \subseteq wire',
         sess'[j] = sess[j], config'[j] = config[j], frames'[j] = frames[j],
         \A u \in Managed, guard \in GuardType, stored \in Issued :
            GuardSound(u, guard, stored) => GuardSound(u, guard, stored)'
  PROVE  SessionSound(j)' /\ ScopeSound(j)'
<1>1. SessionSound(j) /\ ScopeSound(j)
  BY DEF ConnInv
<1>2. ScopeSound(j)'
  BY <1>1 DEF ScopeSound, OwnConfig
<1>3. sess[j].pc \notin Outside => GuardSound(sess[j].tenant, sess[j].guard, sess[j].stored)'
  BY <1>1 DEF SessionSound
<1>4. SessionSound(j)'
  BY <1>1, <1>3 DEF SessionSound, IsWaiting
<1> QED
  BY <1>2, <1>4

\* A step of isolate k.
LEMMA StepKeeps ==
  ASSUME ConnInv, NEW k \in Isolate, wire \subseteq wire',
         Types', OpsSound', OwnGeneration', VerdictIsAboutStored', \A m \in wire' : MessageSound(m)',
         \A u \in Managed, guard \in GuardType, stored \in Issued :
            GuardSound(u, guard, stored) => GuardSound(u, guard, stored)',
         \A j \in Isolate \ {k} :
            sess'[j] = sess[j] /\ config'[j] = config[j] /\ frames'[j] = frames[j],
         SessionSound(k)', ScopeSound(k)'
  PROVE  ConnInv'
<1>1. \A j \in Isolate : SessionSound(j)' /\ ScopeSound(j)'
  BY SessionStays
<1> QED
  BY <1>1 DEF ConnInv

\* A step of isolate k that sends nothing and that the database takes no part in.
LEMMA QuietKeeps ==
  ASSUME ConnInv, NEW k \in Isolate, NEW s \in Session,
         UNCHANGED <<row, wire, applied, checked, failed>>,
         live' \in [Managed -> TokenType], faults' \in Nat,
         sess' = [sess EXCEPT ![k] = s], s.sent = sess[k].sent,
         config' \in [Isolate -> Config], frames' \in [Isolate -> Seq(Config)],
         \A j \in Isolate \ {k} : config'[j] = config[j] /\ frames'[j] = frames[j],
         SessionSound(k)', ScopeSound(k)'
  PROVE  ConnInv'
<1>1. sess' \in [Isolate -> Session] /\ sess'[k] = s /\ \A j \in Isolate \ {k} : sess'[j] = sess[j]
  BY DEF ConnInv, Types
<1>2. Types'
  BY <1>1 DEF ConnInv, Types
<1>3. OpsSound'
  <2>1. \A j \in Isolate : sess'[j].sent = sess[j].sent
    BY <1>1
  <2>2. \A m \in wire : m.op[1] \in Isolate
    BY DEF ConnInv, Types, Message
  <2> QED BY <2>1, <2>2 DEF ConnInv, OpsSound
<1>4. OwnGeneration' /\ VerdictIsAboutStored'
  BY DEF ConnInv, OwnGeneration, VerdictIsAboutStored
<1>5. \A m \in wire' : MessageSound(m)'
  BY DEF ConnInv, MessageSound
<1>6. \A u \in Managed, guard \in GuardType, stored \in Issued :
        GuardSound(u, guard, stored) => GuardSound(u, guard, stored)'
  BY DEF GuardSound
<1> QED
  BY <1>1, <1>2, <1>3, <1>4, <1>5, <1>6, StepKeeps

\* A request of a session is an operation of its own, under the guard of the
\* session, about the token it knows to be stored.
LEMMA SendKeeps ==
  ASSUME ConnInv, NEW k \in Isolate, NEW kind \in MutationKind, NEW token \in TokenType,
         sess[k].pc \notin Outside, Send(k, kind, token),
         UNCHANGED <<row, applied, frames>>, live' \in [Managed -> TokenType], faults' \in Nat,
         checked \subseteq checked', checked' \subseteq TokenType,
         failed \subseteq failed', failed' \subseteq TokenType,
         kind # "failure" => /\ token \in Issued /\ token.tenant = sess[k].tenant
                             /\ token.gen = sess[k].guard.gen /\ config'[k].token = token,
         kind = "verify" => token \in checked' /\ token = sess[k].stored,
         kind = "failure" => sess[k].stored \in failed',
         config' \in [Isolate -> Config], config'[k].key = config[k].key,
         config'[k].token # None => config'[k].token.tenant = sess[k].tenant,
         \A j \in Isolate \ {k} : config'[j] = config[j]
  PROVE  ConnInv'
<1>a. PICK n : n = sess[k].sent + 1
  OBVIOUS
<1>b. PICK m : m = [op |-> <<k, n>>, tenant |-> sess[k].tenant, kind |-> kind, token |-> token,
                    gen |-> sess[k].guard.gen, rev |-> sess[k].guard.rev]
  OBVIOUS
<1>c. PICK s : s = [sess[k] EXCEPT !.sent = n, !.pc = Waiting[kind], !.call = m, !.tries = 1]
  OBVIOUS
<1>1. /\ sess \in [Isolate -> Session] /\ wire \subseteq Message /\ row \in [Managed -> RowType]
      /\ sess[k] \in Session /\ SessionSound(k) /\ ScopeSound(k) /\ OpsSound
  BY DEF ConnInv, Types
<1>2. /\ sess[k].tenant \in Managed /\ sess[k].guard \in GuardType /\ sess[k].stored \in Issued
      /\ sess[k].stored.tenant = sess[k].tenant /\ sess[k].stored.gen = sess[k].guard.gen
      /\ GuardSound(sess[k].tenant, sess[k].guard, sess[k].stored)
  BY <1>1 DEF SessionSound
<1>3. sess[k].sent \in Nat /\ n \in Nat
  BY <1>1, <1>a DEF Session
<1>4. m \in Message
  BY <1>2, <1>3, <1>b DEF Message, GuardType
<1>5. wire' = wire \cup {m} /\ sess' = [sess EXCEPT ![k] = s]
  BY <1>1, <1>a, <1>b, <1>c DEF Send, Mutation
<1>6. /\ Waiting["refresh"] = "persisting" /\ Waiting["verify"] = "verifying"
      /\ Waiting["failure"] = "failing"
      /\ kind \in {"refresh", "verify", "failure"}
  BY DEF Waiting, MutationKind
<1>7. s \in Session
  BY <1>1, <1>3, <1>4, <1>6, <1>c DEF Session
<1>8. /\ s.sent = n /\ s.pc = Waiting[kind] /\ s.call = m /\ s.tries = 1
      /\ s.tenant = sess[k].tenant /\ s.guard = sess[k].guard /\ s.stored = sess[k].stored
  BY <1>1, <1>c DEF Session
<1>9. /\ m.op = <<k, n>> /\ m.tenant = sess[k].tenant /\ m.kind = kind /\ m.token = token
      /\ m.gen = sess[k].guard.gen /\ m.rev = sess[k].guard.rev
  BY <1>b
<1>10. sess' \in [Isolate -> Session] /\ sess'[k] = s /\ \A j \in Isolate \ {k} : sess'[j] = sess[j]
  BY <1>1, <1>5, <1>7
<1>11. Types'
  BY <1>4, <1>5, <1>10 DEF ConnInv, Types
<1>12. /\ \A o \in wire : o.op[1] \in Isolate /\ o.op[2] \in Nat /\ o.op[2] <= sess[o.op[1]].sent
       /\ \A o \in wire : o.op # m.op
       /\ m.op \notin applied
  <2>1. \A o \in wire : o.op \in Isolate \X Nat /\ o.op[2] <= sess[o.op[1]].sent
    BY <1>1 DEF OpsSound, Message
  <2>2. \A o \in wire : o.op[1] \in Isolate /\ o.op[2] \in Nat
    BY <2>1
  <2>3. n > sess[k].sent
    BY <1>3, <1>a
  <2>4. \A o \in wire : o.op # m.op
    BY <1>3, <1>9, <2>1, <2>2, <2>3
  <2> QED BY <1>1, <2>1, <2>2, <2>4 DEF OpsSound
<1>13. OpsSound'
  <2>1. \A o, p \in wire' : o.op = p.op => o = p
    BY <1>1, <1>5, <1>12 DEF OpsSound
  <2>2. \A o \in wire : o.op[2] <= sess'[o.op[1]].sent
    <3>1. sess[k].sent <= s.sent
      BY <1>3, <1>8, <1>a
    <3> QED BY <1>3, <1>8, <1>10, <1>12, <3>1
  <2>3. m.op[2] <= sess'[m.op[1]].sent
    BY <1>3, <1>8, <1>9, <1>10
  <2> QED BY <1>1, <1>5, <2>1, <2>2, <2>3 DEF OpsSound
<1>14. OwnGeneration' /\ VerdictIsAboutStored'
  BY DEF ConnInv, OwnGeneration, VerdictIsAboutStored
<1>15. MessageSound(m)'
  <2>1. sess[k].guard.rev \in Nat /\ row[sess[k].tenant].rev \in Nat
    BY <1>1, <1>2 DEF GuardType, RowType
  <2> QED BY <1>2, <1>6, <1>9, <1>12, <2>1 DEF MessageSound, GuardSound
<1>16. \A o \in wire' : MessageSound(o)'
  <2>1. \A o \in wire : MessageSound(o)'
    BY DEF ConnInv, MessageSound
  <2> QED BY <1>5, <1>15, <2>1
<1>17. \A u \in Managed, guard \in GuardType, stored \in Issued :
        GuardSound(u, guard, stored) => GuardSound(u, guard, stored)'
  BY DEF GuardSound
<1>18. SessionSound(k)'
  <2>1. GuardSound(s.tenant, s.guard, s.stored)'
    BY <1>2, <1>8, <1>17
  <2>2. 1 \in 1..Copies
    BY ConnAssumption
  <2>3. s.pc \in {"persisting", "verifying"} => config'[k].token = m.token
    BY <1>6, <1>8, <1>9
  <2> QED BY <1>2, <1>5, <1>6, <1>8, <1>9, <1>10, <2>1, <2>2, <2>3 DEF SessionSound, IsWaiting, Outside
<1>19. ScopeSound(k)'
  BY <1>1, <1>2, <1>6, <1>8, <1>10 DEF ScopeSound, OwnConfig, Outside
<1> QED
  BY <1>5, <1>10, <1>11, <1>13, <1>14, <1>16, <1>17, <1>18, <1>19, StepKeeps

\* A preparation that ends gives the job its own configuration back.
LEMMA CloseScope ==
  ASSUME ConnInv, NEW k \in Isolate, sess[k].pc \notin Outside,
         sess' = [sess EXCEPT ![k] = Closed(sess[k])], Leave(k)
  PROVE  /\ Closed(sess[k]) \in Session /\ Closed(sess[k]).sent = sess[k].sent
         /\ config' \in [Isolate -> Config] /\ frames' \in [Isolate -> Seq(Config)]
         /\ \A j \in Isolate \ {k} : config'[j] = config[j] /\ frames'[j] = frames[j]
         /\ SessionSound(k)' /\ ScopeSound(k)'
<1>1. /\ Types /\ sess \in [Isolate -> Session] /\ sess[k] \in Session /\ SessionSound(k) /\ ScopeSound(k)
  BY DEF ConnInv, Types
<1>2. PICK s : s = Closed(sess[k])
  OBVIOUS
<1>3. /\ s \in Session /\ s.pc = "job" /\ s.tenant = sess[k].tenant /\ s.call = None
      /\ s.sent = sess[k].sent
  <2>1. s = [sess[k] EXCEPT !.pc = "job", !.guard = None, !.stored = None,
                            !.fresh = FALSE, !.call = None, !.tries = 0]
    BY <1>2 DEF Closed
  <2> QED BY <1>1, <2>1 DEF Session, Outside, TokenType
<1>4. /\ sess[k].tenant \in Tenant /\ OwnConfig(sess[k].tenant, frames[k][2])
      /\ Len(frames[k]) = 2 /\ frames[k][1] = Empty
  BY <1>1 DEF ScopeSound, Outside
<1>5. /\ frames' \in [Isolate -> Seq(Config)] /\ config' \in [Isolate -> Config]
      /\ config'[k] = frames[k][2] /\ Len(frames'[k]) = 1 /\ frames'[k][1] = Empty
      /\ \A j \in Isolate \ {k} : config'[j] = config[j] /\ frames'[j] = frames[j]
  BY <1>1, <1>4, LeaveScope
<1>6. sess'[k] = s
  BY <1>1, <1>2, <1>3
<1>7. SessionSound(k)'
  BY <1>3, <1>6 DEF SessionSound, IsWaiting, Outside
<1>8. ScopeSound(k)'
  BY <1>3, <1>4, <1>5, <1>6 DEF ScopeSound, OwnConfig
<1> QED
  BY <1>2, <1>3, <1>5, <1>7, <1>8

\* A preparation may end with an error at any point, also while its request is on
\* its way.
LEMMA GiveUpKeeps ==
  ASSUME ConnInv, NEW k \in Isolate, sess[k].pc \notin Outside, GiveUp(k),
         UNCHANGED <<row, applied, checked>>, live' \in [Managed -> TokenType], faults' \in Nat
  PROVE  ConnInv'
<1>1. /\ sess \in [Isolate -> Session] /\ sess[k] \in Session /\ SessionSound(k) /\ ScopeSound(k)
      /\ checked \subseteq TokenType /\ failed \subseteq TokenType /\ config \in [Isolate -> Config]
  BY DEF ConnInv, Types
<1>2. CASE sess[k].tenant \in LinkedIn /\ sess[k].pc \in {"prepare", "persisting"}
  <2>1. Send(k, "failure", None) /\ failed' = failed \cup {sess[k].stored} /\ UNCHANGED <<config, frames>>
    BY <1>2 DEF GiveUp
  <2>2. "failure" \in MutationKind /\ None \in TokenType /\ sess[k].stored \in TokenType
    BY <1>1 DEF MutationKind, TokenType, Session
  <2>3. config'[k].token # None => config'[k].token.tenant = sess[k].tenant
    BY <1>1, <2>1 DEF ScopeSound, OwnConfig, Outside
  <2> QED BY <1>1, <2>1, <2>2, <2>3, SendKeeps
<1>3. CASE ~(sess[k].tenant \in LinkedIn /\ sess[k].pc \in {"prepare", "persisting"})
  <2>1. sess' = [sess EXCEPT ![k] = Closed(sess[k])] /\ Leave(k) /\ UNCHANGED <<wire, failed>>
    BY <1>3 DEF GiveUp
  <2>2. PICK s \in Session : s = Closed(sess[k])
    BY <2>1, CloseScope
  <2> QED BY <2>1, <2>2, CloseScope, QuietKeeps
<1> QED
  BY <1>2, <1>3

\* A request that arrives while isolate k hears of it.
LEMMA ArrivalKeeps ==
  ASSUME ConnInv, NEW k \in Isolate, NEW m \in wire, NEW s \in Session, Apply(m),
         UNCHANGED <<live, wire, checked, failed, faults>>,
         sess' = [sess EXCEPT ![k] = s], s.sent = sess[k].sent,
         config' \in [Isolate -> Config], frames' \in [Isolate -> Seq(Config)],
         \A j \in Isolate \ {k} : config'[j] = config[j] /\ frames'[j] = frames[j],
         SessionSound(k)', ScopeSound(k)'
  PROVE  ConnInv'
<1>1. sess' \in [Isolate -> Session] /\ sess'[k] = s /\ \A j \in Isolate \ {k} : sess'[j] = sess[j]
  BY DEF ConnInv, Types
<1>2. /\ row' \in [Managed -> RowType]
      /\ \A t \in Managed : row'[t].state # "disconnected" => row'[t].token \in Issued
      /\ OwnGeneration' /\ VerdictIsAboutStored'
      /\ \A n \in wire : MessageSound(n)'
      /\ \A u \in Managed, guard \in GuardType, stored \in Issued :
            GuardSound(u, guard, stored) => GuardSound(u, guard, stored)'
      /\ \A op \in applied' : \E n \in wire : n.op = op
  BY ApplyKeeps
<1>3. Types'
  BY <1>1, <1>2 DEF ConnInv, Types
<1>4. OpsSound'
  <2>1. \A j \in Isolate : sess'[j].sent = sess[j].sent
    BY <1>1
  <2>2. \A n \in wire : n.op[1] \in Isolate
    BY DEF ConnInv, Types, Message
  <2> QED BY <1>2, <2>1, <2>2 DEF ConnInv, OpsSound
<1> QED
  BY <1>1, <1>2, <1>3, <1>4, StepKeeps

----------------------------------------------------------------------------
(* The owner and late requests *)

\* A new generation of a connection leaves every request and every session of the
\* old one behind.
LEMMA TurnKeeps ==
  ASSUME ConnInv, NEW t \in Managed, NEW r \in RowType,
         row' = [row EXCEPT ![t] = r], r.rev = row[t].rev + 1, live' \in [Managed -> TokenType],
         UNCHANGED <<wire, applied, checked, failed, sess, faults, config, frames>>,
         r.state \in {"stored_not_verified", "disconnected"},
         IF r.state = "disconnected" THEN r.token = None
         ELSE r.token \in Issued /\ r.token.tenant = t /\ r.token.gen = r.gen
  PROVE  ConnInv'
<1>1. /\ row \in [Managed -> RowType] /\ row' \in [Managed -> RowType] /\ row'[t] = r
      /\ \A u \in Managed \ {t} : row'[u] = row[u]
  BY DEF ConnInv, Types
<1>2. Types'
  BY <1>1 DEF ConnInv, Types
<1>3. OpsSound'
  BY DEF ConnInv, OpsSound
<1>4. OwnGeneration' /\ VerdictIsAboutStored'
  BY <1>1 DEF ConnInv, OwnGeneration, VerdictIsAboutStored
<1>5. /\ \A m \in wire : MessageSound(m)'
      /\ \A u \in Managed, guard \in GuardType, stored \in Issued :
            GuardSound(u, guard, stored) => GuardSound(u, guard, stored)'
  BY RowMoves
<1>6. \A j \in Isolate : SessionSound(j)' /\ ScopeSound(j)'
  BY <1>5, SessionStays
<1> QED
  BY <1>2, <1>3, <1>4, <1>5, <1>6 DEF ConnInv

\* A replaced connection starts a generation no session has read.
LEMMA ReplaceKeeps ==
  ASSUME ConnInv, NEW t \in Managed, Replace(t)
  PROVE  ConnInv'
<1>1. row \in [Managed -> RowType] /\ live \in [Managed -> TokenType] /\ row[t] \in RowType
  BY DEF ConnInv, Types
<1>2. PICK g : g = row[t].gen + 1
  OBVIOUS
<1>3. g \in 1..Generations /\ row[t].rev + 1 \in Nat
  BY <1>1, <1>2, ConnAssumption DEF Replace, RowType
<1>4. PICK token : token = Token(t, g, 0)
  OBVIOUS
<1>5. token \in Issued /\ token.tenant = t /\ token.gen = g
  BY <1>3, <1>4, ConnAssumption DEF Token, Issued
<1>6. PICK r : r = [gen |-> g, rev |-> row[t].rev + 1, account |-> 0,
                    state |-> "stored_not_verified", token |-> token]
  OBVIOUS
<1>7. r \in RowType
  BY <1>3, <1>5, <1>6, ConnAssumption DEF RowType, State, TokenType
<1>8. /\ row' = [row EXCEPT ![t] = r] /\ live' = [live EXCEPT ![t] = token]
      /\ UNCHANGED <<wire, applied, checked, failed, sess, faults, config, frames>>
  BY <1>1, <1>2, <1>4, <1>6 DEF Replace, tickVars
<1>9. live' \in [Managed -> TokenType]
  BY <1>1, <1>5, <1>8 DEF TokenType
<1>10. /\ r.rev = row[t].rev + 1 /\ r.state = "stored_not_verified" /\ r.gen = g /\ r.token = token
  BY <1>6
<1> QED
  BY <1>5, <1>7, <1>8, <1>9, <1>10, TurnKeeps

\* A withdrawn connection is out of every guard read before.
LEMMA WithdrawKeeps ==
  ASSUME ConnInv, NEW t \in Managed, Withdraw(t)
  PROVE  ConnInv'
<1>1. row \in [Managed -> RowType] /\ live \in [Managed -> TokenType] /\ row[t] \in RowType
  BY DEF ConnInv, Types
<1>2. row[t].gen + 1 \in 1..Generations /\ row[t].rev + 1 \in Nat
  BY <1>1, ConnAssumption DEF Withdraw, RowType
<1>3. PICK r : r = [gen |-> row[t].gen + 1, rev |-> row[t].rev + 1, account |-> 0,
                    state |-> "disconnected", token |-> None]
  OBVIOUS
<1>4. r \in RowType
  BY <1>2, <1>3, ConnAssumption DEF RowType, State, TokenType
<1>5. /\ row' = [row EXCEPT ![t] = r]
      /\ UNCHANGED <<live, wire, applied, checked, failed, sess, faults, config, frames>>
  BY <1>1, <1>3 DEF Withdraw, tickVars
<1>6. r.rev = row[t].rev + 1 /\ r.state = "disconnected" /\ r.token = None
  BY <1>3
<1> QED
  BY <1>1, <1>4, <1>5, <1>6, TurnKeeps

\* A call is applied and its sender never hears of it.
LEMMA UnheardKeeps ==
  ASSUME ConnInv, NEW m \in wire, Unheard(m)
  PROVE  ConnInv'
<1>1. /\ Apply(m)
      /\ UNCHANGED <<live, wire, checked, failed, sess, faults, config, frames>>
  BY DEF Unheard, tickVars
<1>2. /\ row' \in [Managed -> RowType]
      /\ \A t \in Managed : row'[t].state # "disconnected" => row'[t].token \in Issued
      /\ OwnGeneration' /\ VerdictIsAboutStored'
      /\ \A n \in wire : MessageSound(n)'
      /\ \A u \in Managed, guard \in GuardType, stored \in Issued :
            GuardSound(u, guard, stored) => GuardSound(u, guard, stored)'
      /\ \A op \in applied' : \E n \in wire : n.op = op
  BY <1>1, ApplyKeeps
<1>3. Types' /\ OpsSound'
  BY <1>1, <1>2 DEF ConnInv, Types, OpsSound
<1>4. \A j \in Isolate : SessionSound(j)' /\ ScopeSound(j)'
  BY <1>1, <1>2, SessionStays
<1> QED
  BY <1>1, <1>2, <1>3, <1>4 DEF ConnInv

----------------------------------------------------------------------------
(* Ticks, jobs and the scope of a preparation *)

\* A tick begins with an empty overlay.
LEMMA TickKeeps ==
  ASSUME ConnInv, NEW k \in Isolate, Tick(k)
  PROVE  ConnInv'
<1>1. /\ sess \in [Isolate -> Session] /\ sess[k] \in Session /\ config \in [Isolate -> Config]
      /\ frames \in [Isolate -> Seq(Config)] /\ live \in [Managed -> TokenType] /\ faults \in Nat
      /\ SessionSound(k) /\ ScopeSound(k) /\ sess[k].pc = "off"
  BY DEF ConnInv, Types, Tick
<1>2. PICK s : s = [sess[k] EXCEPT !.pc = "idle", !.ticks = sess[k].ticks - 1, !.work = Work[k]]
  OBVIOUS
<1>3. s \in Session /\ s.sent = sess[k].sent /\ s.pc = "idle" /\ s.tenant = sess[k].tenant /\ s.call = sess[k].call
  <2>1. sess[k].ticks - 1 \in Nat /\ Work[k] \in Nat
    BY <1>1, ConnAssumption DEF Tick, Session
  <2> QED BY <1>1, <1>2, <2>1 DEF Session, Outside
<1>4. /\ sess' = [sess EXCEPT ![k] = s] /\ config' = [config EXCEPT ![k] = Empty]
      /\ UNCHANGED <<row, live, wire, applied, checked, failed, frames, faults>>
  BY <1>1, <1>2 DEF Tick, rowVars
<1>5. Empty \in Config
  BY DEF Empty, Config, TokenType
<1>6. sess'[k] = s /\ config'[k] = Empty /\ config' \in [Isolate -> Config]
  BY <1>1, <1>3, <1>4, <1>5
<1>7. SessionSound(k)' /\ ScopeSound(k)'
  BY <1>1, <1>3, <1>4, <1>6 DEF SessionSound, ScopeSound, IsWaiting, Outside
<1> QED
  BY <1>1, <1>3, <1>4, <1>6, <1>7, QuietKeeps

\* A tick ends outside every tenant's job.
LEMMA EndTickKeeps ==
  ASSUME ConnInv, NEW k \in Isolate, EndTick(k)
  PROVE  ConnInv'
<1>1. /\ sess \in [Isolate -> Session] /\ sess[k] \in Session /\ config \in [Isolate -> Config]
      /\ frames \in [Isolate -> Seq(Config)] /\ live \in [Managed -> TokenType] /\ faults \in Nat
      /\ SessionSound(k) /\ ScopeSound(k) /\ sess[k].pc = "idle"
  BY DEF ConnInv, Types, EndTick
<1>2. PICK s : s = [sess[k] EXCEPT !.pc = "off", !.work = 0]
  OBVIOUS
<1>3. s \in Session /\ s.sent = sess[k].sent /\ s.pc = "off" /\ s.tenant = sess[k].tenant /\ s.call = sess[k].call
  BY <1>1, <1>2 DEF Session, Outside
<1>4. /\ sess' = [sess EXCEPT ![k] = s]
      /\ UNCHANGED <<row, live, wire, applied, checked, failed, config, frames, faults>>
  BY <1>1, <1>2 DEF EndTick, rowVars
<1>5. sess'[k] = s
  BY <1>1, <1>4
<1>6. SessionSound(k)' /\ ScopeSound(k)'
  BY <1>1, <1>3, <1>4, <1>5 DEF SessionSound, ScopeSound, IsWaiting, Outside
<1> QED
  BY <1>1, <1>3, <1>4, <1>6, QuietKeeps

\* A job starts with the credentials of its tenant, whatever the tick did before.
LEMMA BeginKeeps ==
  ASSUME ConnInv, NEW k \in Isolate, NEW t \in Tenant, Begin(k, t)
  PROVE  ConnInv'
<1>1. /\ Types /\ sess \in [Isolate -> Session] /\ sess[k] \in Session
      /\ live \in [Managed -> TokenType] /\ faults \in Nat
      /\ SessionSound(k) /\ sess[k].pc = "idle" /\ config[k] = Empty /\ frames[k] = <<>>
  BY DEF ConnInv, Types, Begin, ScopeSound
<1>2. PICK s : s = [sess[k] EXCEPT !.pc = "job", !.tenant = t, !.work = sess[k].work - 1]
  OBVIOUS
<1>3. s \in Session /\ s.sent = sess[k].sent /\ s.pc = "job" /\ s.tenant = t /\ s.call = sess[k].call
  <2>1. sess[k].work - 1 \in Nat
    BY <1>1 DEF Begin, Session
  <2> QED BY <1>1, <1>2, <2>1 DEF Session, Outside
<1>4. PICK token : token = Tokens(t)
  OBVIOUS
<1>5. token \in TokenType /\ (token # None => token.tenant = t)
  BY <1>1, <1>4 DEF ConnInv, Types, OwnGeneration, Tokens, RowType, TokenType
<1>6. /\ sess' = [sess EXCEPT ![k] = s] /\ Enter(k, t, token)
      /\ UNCHANGED <<row, live, wire, applied, checked, failed, faults>>
  BY <1>1, <1>2, <1>4 DEF Begin, rowVars
<1>7. /\ frames' \in [Isolate -> Seq(Config)] /\ config' \in [Isolate -> Config]
      /\ config'[k] = [key |-> KeyFor(t, Empty), token |-> token]
      /\ Len(frames'[k]) = 1 /\ frames'[k][1] = Empty
      /\ \A j \in Isolate \ {k} : config'[j] = config[j] /\ frames'[j] = frames[j]
  <2>1. Len(frames[k]) = 0
    BY <1>1
  <2>2. /\ frames' \in [Isolate -> Seq(Config)] /\ config' \in [Isolate -> Config]
        /\ config'[k] = [key |-> KeyFor(t, config[k]), token |-> token]
        /\ Len(frames'[k]) = Len(frames[k]) + 1 /\ frames'[k][Len(frames[k]) + 1] = config[k]
        /\ \A j \in Isolate \ {k} : config'[j] = config[j] /\ frames'[j] = frames[j]
    BY <1>1, <1>5, <1>6, EnterScope
  <2> QED BY <1>1, <2>1, <2>2
<1>8. sess'[k] = s
  BY <1>1, <1>6
<1>9. SessionSound(k)'
  BY <1>1, <1>3, <1>8 DEF SessionSound, IsWaiting, Outside
<1>10. ScopeSound(k)'
  BY <1>3, <1>5, <1>7, <1>8 DEF ScopeSound, OwnConfig
<1> QED
  BY <1>1, <1>3, <1>6, <1>7, <1>9, <1>10, QuietKeeps

\* A publication of the job starts from a snapshot of its connection.
LEMMA OpenKeeps ==
  ASSUME ConnInv, NEW k \in Isolate, Open(k)
  PROVE  ConnInv'
<1>1. PICK t : t = sess[k].tenant
  OBVIOUS
<1>2. /\ Types /\ sess \in [Isolate -> Session] /\ sess[k] \in Session
      /\ live \in [Managed -> TokenType] /\ faults \in Nat
      /\ sess[k].pc = "job" /\ sess[k].call = None
      /\ t \in Managed /\ t \in Tenant /\ row[t] \in RowType /\ row[t].state # "disconnected"
      /\ OwnConfig(t, config[k]) /\ Len(frames[k]) = 1 /\ frames[k][1] = Empty
  BY <1>1, ConnAssumption DEF ConnInv, Types, Open, ScopeSound, SessionSound, IsWaiting
<1>3. PICK token : token = row[t].token
  OBVIOUS
<1>4. PICK g : g = Guard(row[t])
  OBVIOUS
<1>5. PICK pc : pc = IF t \in LinkedIn THEN "prepare" ELSE "check"
  OBVIOUS
<1>6. /\ token \in Issued /\ token.tenant = t /\ token.gen = row[t].gen /\ pc \in {"prepare", "check"}
      /\ g \in GuardType /\ g.gen = row[t].gen /\ g.rev = row[t].rev
  BY <1>2, <1>3, <1>4, <1>5 DEF ConnInv, Types, OwnGeneration, RowType, Guard, GuardType
<1>7. PICK s : s = [sess[k] EXCEPT !.pc = pc, !.guard = g, !.stored = token, !.work = sess[k].work - 1]
  OBVIOUS
<1>8. /\ s \in Session /\ s.sent = sess[k].sent /\ s.pc = pc /\ s.tenant = t /\ s.call = None
      /\ s.guard = g /\ s.stored = token
  <2>1. sess[k].work - 1 \in Nat
    BY <1>2 DEF Open, Session
  <2> QED BY <1>1, <1>2, <1>6, <1>7, <2>1 DEF Session, Outside, TokenType
<1>9. /\ sess' = [sess EXCEPT ![k] = s] /\ Enter(k, t, token)
      /\ UNCHANGED <<row, live, wire, applied, checked, failed, faults>>
  BY <1>1, <1>2, <1>3, <1>4, <1>5, <1>7 DEF Open, rowVars
<1>10. /\ frames' \in [Isolate -> Seq(Config)] /\ config' \in [Isolate -> Config]
       /\ config'[k] = [key |-> KeyFor(t, config[k]), token |-> token]
       /\ Len(frames'[k]) = 2 /\ frames'[k][2] = config[k] /\ frames'[k][1] = Empty
       /\ \A j \in Isolate \ {k} : config'[j] = config[j] /\ frames'[j] = frames[j]
  <2>a. token \in TokenType
    BY <1>6 DEF TokenType
  <2>1. /\ frames' \in [Isolate -> Seq(Config)] /\ config' \in [Isolate -> Config]
        /\ config'[k] = [key |-> KeyFor(t, config[k]), token |-> token]
        /\ Len(frames'[k]) = Len(frames[k]) + 1 /\ frames'[k][Len(frames[k]) + 1] = config[k]
        /\ \A i \in 1..Len(frames[k]) : frames'[k][i] = frames[k][i]
        /\ \A j \in Isolate \ {k} : config'[j] = config[j] /\ frames'[j] = frames[j]
    BY <1>2, <1>9, <2>a, EnterScope
  <2> QED BY <1>2, <2>1
<1>11. sess'[k] = s
  BY <1>2, <1>9
<1>12. SessionSound(k)'
  <2>1. row[t].rev \in Nat
    BY <1>2 DEF RowType
  <2>2. GuardSound(t, g, token)'
    BY <1>2, <1>3, <1>6, <1>9, <2>1 DEF GuardSound
  <2> QED BY <1>2, <1>6, <1>8, <1>10, <1>11, <2>2 DEF SessionSound, IsWaiting, Outside
<1>13. ScopeSound(k)'
  <2>1. KeyFor(t, config[k]) = KeyFor(t, Empty)
    BY <1>2 DEF OwnConfig, KeyFor
  <2> QED BY <1>2, <1>6, <1>8, <1>10, <1>11, <2>1 DEF ScopeSound, OwnConfig
<1> QED
  BY <1>2, <1>8, <1>9, <1>10, <1>12, <1>13, QuietKeeps

\* A session gives its tenant's configuration back.
LEMMA CloseKeeps ==
  ASSUME ConnInv, NEW k \in Isolate, Close(k)
  PROVE  ConnInv'
<1>1. /\ sess[k].pc \notin Outside /\ Leave(k) /\ live \in [Managed -> TokenType] /\ faults \in Nat
      /\ sess' = [sess EXCEPT ![k] = Closed(sess[k])]
      /\ UNCHANGED <<row, live, wire, applied, checked, failed, faults>>
  BY DEF Close, Outside, rowVars, ConnInv, Types
<1>2. PICK s \in Session : s = Closed(sess[k])
  BY <1>1, CloseScope
<1> QED
  BY <1>1, <1>2, CloseScope, QuietKeeps

\* A job ends, well or badly, and gives its configuration back.
LEMMA FinishKeeps ==
  ASSUME ConnInv, NEW k \in Isolate, Finish(k)
  PROVE  ConnInv'
<1>1. /\ Types /\ sess \in [Isolate -> Session] /\ sess[k] \in Session
      /\ live \in [Managed -> TokenType] /\ faults \in Nat /\ Leave(k)
      /\ sess[k].pc = "job" /\ sess[k].call = None
      /\ Len(frames[k]) = 1 /\ frames[k][1] = Empty
  BY DEF ConnInv, Types, Finish, ScopeSound, SessionSound, IsWaiting
<1>2. PICK s : s = [sess[k] EXCEPT !.pc = "idle", !.tenant = None]
  OBVIOUS
<1>3. s \in Session /\ s.sent = sess[k].sent /\ s.pc = "idle" /\ s.tenant = None /\ s.call = None
  BY <1>1, <1>2 DEF Session, Outside
<1>4. /\ sess' = [sess EXCEPT ![k] = s]
      /\ UNCHANGED <<row, live, wire, applied, checked, failed, faults>>
  BY <1>1, <1>2 DEF Finish, rowVars
<1>5. sess'[k] = s
  BY <1>1, <1>4
<1>6. /\ frames' \in [Isolate -> Seq(Config)] /\ config' \in [Isolate -> Config]
      /\ config'[k] = Empty /\ frames'[k] = <<>>
      /\ \A j \in Isolate \ {k} : config'[j] = config[j] /\ frames'[j] = frames[j]
  BY <1>1, LeaveScope
<1>7. SessionSound(k)' /\ ScopeSound(k)'
  BY <1>3, <1>5, <1>6 DEF SessionSound, ScopeSound, IsWaiting, Outside
<1> QED
  BY <1>1, <1>3, <1>4, <1>6, <1>7, QuietKeeps

\* An isolate that dies leaves its calls on the wire.
LEMMA CrashKeeps ==
  ASSUME ConnInv, NEW k \in Isolate, Crash(k)
  PROVE  ConnInv'
<1>1. /\ sess \in [Isolate -> Session] /\ sess[k] \in Session /\ config \in [Isolate -> Config]
      /\ frames \in [Isolate -> Seq(Config)] /\ live \in [Managed -> TokenType] /\ faults \in Nat
  BY DEF ConnInv, Types
<1>2. PICK s : s = [Off EXCEPT !.sent = sess[k].sent, !.ticks = sess[k].ticks]
  OBVIOUS
<1>3. s \in Session /\ s.sent = sess[k].sent /\ s.pc = "off" /\ s.tenant = None /\ s.call = None
  BY <1>1, <1>2, ConnAssumption DEF Off, Session, Outside, TokenType
<1>4. /\ sess' = [sess EXCEPT ![k] = s] /\ config' = [config EXCEPT ![k] = Empty]
      /\ frames' = [frames EXCEPT ![k] = <<>>] /\ faults' = faults + 1
      /\ UNCHANGED <<row, live, wire, applied, checked, failed>>
  BY <1>2 DEF Crash, Fault, rowVars
<1>5. Empty \in Config /\ <<>> \in Seq(Config)
  BY DEF Empty, Config, TokenType
<1>6. /\ sess'[k] = s /\ config'[k] = Empty /\ frames'[k] = <<>>
      /\ config' \in [Isolate -> Config] /\ frames' \in [Isolate -> Seq(Config)]
      /\ \A j \in Isolate \ {k} : config'[j] = config[j] /\ frames'[j] = frames[j]
  BY <1>1, <1>3, <1>4, <1>5
<1>7. SessionSound(k)' /\ ScopeSound(k)'
  BY <1>3, <1>6 DEF SessionSound, ScopeSound, IsWaiting, Outside
<1>8. faults' \in Nat
  BY <1>1, <1>4
<1> QED
  BY <1>1, <1>3, <1>4, <1>6, <1>7, <1>8, QuietKeeps

----------------------------------------------------------------------------
(* Refreshing and verifying *)

\* A refreshed token is configured and its request is sent, or the session gives up.
LEMMA RefreshKeeps ==
  ASSUME ConnInv, NEW k \in Isolate, Refresh(k)
  PROVE  ConnInv'
<1>1. /\ live \in [Managed -> TokenType] /\ faults \in Nat /\ config \in [Isolate -> Config]
      /\ checked \subseteq TokenType /\ failed \subseteq TokenType
      /\ SessionSound(k) /\ ScopeSound(k) /\ sess[k].pc \in {"prepare", "check"}
      /\ sess[k].pc \notin Outside
  BY DEF ConnInv, Types, Refresh, MayRefresh, Outside
<1>2. /\ config[k].token = sess[k].stored /\ sess[k].stored \in Issued
      /\ sess[k].stored.tenant = sess[k].tenant /\ sess[k].stored.gen = sess[k].guard.gen
  BY <1>1 DEF SessionSound
<1>3. PICK new : new = [config[k].token EXCEPT !.nth = config[k].token.nth + 1]
  OBVIOUS
<1>4. config[k].token.nth < Refreshes
  BY DEF Refresh
<1>5. new \in Issued /\ new.tenant = sess[k].tenant /\ new.gen = sess[k].guard.gen
  <2>1. config[k].token.nth + 1 \in 0..Refreshes
    BY <1>2, <1>4, ConnAssumption DEF Issued
  <2> QED BY <1>2, <1>3, <2>1 DEF Issued
<1>6. /\ live' = [live EXCEPT ![sess[k].tenant] = new] /\ UNCHANGED <<row, applied, checked>>
      /\ \/ /\ config' = [config EXCEPT ![k].token = new]
            /\ Send(k, "refresh", new) /\ UNCHANGED <<faults, failed, frames>>
         \/ Fault /\ GiveUp(k)
  BY <1>3 DEF Refresh
<1>7. new \in TokenType /\ live' \in [Managed -> TokenType]
  BY <1>1, <1>5, <1>6 DEF TokenType
<1>8. CASE config' = [config EXCEPT ![k].token = new] /\ Send(k, "refresh", new)
           /\ UNCHANGED <<faults, failed, frames>>
  <2>1. "refresh" \in MutationKind
    BY DEF MutationKind
  <2>2. config[k] \in Config
    BY <1>1
  <2>3. PICK c : c = [config[k] EXCEPT !.token = new]
    OBVIOUS
  <2>4. c \in Config /\ c.key = config[k].key /\ c.token = new
    BY <1>7, <2>2, <2>3 DEF Config
  <2>5. config' = [config EXCEPT ![k] = c]
    BY <1>1, <1>8, <2>3
  <2>6. /\ config' \in [Isolate -> Config] /\ config'[k] = c
        /\ \A j \in Isolate \ {k} : config'[j] = config[j]
    BY <1>1, <2>4, <2>5
  <2> QED BY <1>1, <1>5, <1>6, <1>7, <1>8, <2>1, <2>4, <2>6, SendKeeps
<1>9. CASE Fault /\ GiveUp(k)
  <2>1. faults' \in Nat
    BY <1>1, <1>9 DEF Fault
  <2> QED BY <1>1, <1>6, <1>7, <1>9, <2>1, GiveUpKeeps
<1> QED
  BY <1>6, <1>8, <1>9

\* The provider refuses the refresh, and the session gives up.
LEMMA RefreshRefusedKeeps ==
  ASSUME ConnInv, NEW k \in Isolate, RefreshRefused(k)
  PROVE  ConnInv'
<1>1. /\ live \in [Managed -> TokenType] /\ faults \in Nat /\ sess[k].pc \notin Outside
      /\ GiveUp(k) /\ UNCHANGED <<row, live, applied, checked>>
      /\ faults' = faults \/ faults' = faults + 1
  BY DEF ConnInv, Types, RefreshRefused, MayRefresh, Outside, Fault, NoFault
<1>2. live' \in [Managed -> TokenType] /\ faults' \in Nat
  BY <1>1
<1> QED
  BY <1>1, <1>2, GiveUpKeeps

\* A token that is good still is checked without a refresh.
LEMMA NoRefreshKeeps ==
  ASSUME ConnInv, NEW k \in Isolate, NoRefresh(k)
  PROVE  ConnInv'
<1>1. /\ sess \in [Isolate -> Session] /\ sess[k] \in Session /\ config \in [Isolate -> Config]
      /\ frames \in [Isolate -> Seq(Config)] /\ live \in [Managed -> TokenType] /\ faults \in Nat
      /\ SessionSound(k) /\ ScopeSound(k) /\ sess[k].pc = "prepare"
  BY DEF ConnInv, Types, NoRefresh
<1>2. PICK s : s = [sess[k] EXCEPT !.pc = "check"]
  OBVIOUS
<1>3. /\ s \in Session /\ s.sent = sess[k].sent /\ s.pc = "check" /\ s.tenant = sess[k].tenant
      /\ s.call = sess[k].call /\ s.guard = sess[k].guard /\ s.stored = sess[k].stored
  BY <1>1, <1>2 DEF Session, Outside
<1>4. /\ sess' = [sess EXCEPT ![k] = s]
      /\ UNCHANGED <<row, live, wire, applied, checked, failed, config, frames, faults>>
  BY <1>1, <1>2 DEF NoRefresh, rowVars
<1>5. sess'[k] = s
  BY <1>1, <1>4
<1>6. SessionSound(k)'
  BY <1>1, <1>3, <1>4, <1>5 DEF SessionSound, GuardSound, IsWaiting, Outside
<1>7. ScopeSound(k)'
  BY <1>1, <1>3, <1>4, <1>5 DEF ScopeSound, OwnConfig
<1> QED
  BY <1>1, <1>3, <1>4, <1>6, <1>7, QuietKeeps

\* The account of the token is the one on the row.
LEMMA CheckKeeps ==
  ASSUME ConnInv, NEW k \in Isolate, Check(k)
  PROVE  ConnInv'
<1>1. /\ live \in [Managed -> TokenType] /\ faults \in Nat /\ config \in [Isolate -> Config]
      /\ checked \subseteq TokenType /\ failed \subseteq TokenType
      /\ SessionSound(k) /\ ScopeSound(k) /\ sess[k].pc = "check" /\ sess[k].pc \notin Outside
  BY DEF ConnInv, Types, Check, Outside
<1>2. PICK token : token = config[k].token
  OBVIOUS
<1>3. /\ token = sess[k].stored /\ token \in Issued /\ token \in TokenType
      /\ token.tenant = sess[k].tenant /\ token.gen = sess[k].guard.gen
  BY <1>1, <1>2 DEF SessionSound, TokenType
<1>4. /\ checked' = checked \cup {token} /\ Send(k, "verify", token)
      /\ UNCHANGED <<row, live, applied, failed, config, frames, faults>>
  BY <1>2 DEF Check
<1>5. "verify" \in MutationKind
  BY DEF MutationKind
<1>6. checked \subseteq checked' /\ checked' \subseteq TokenType /\ token \in checked'
  BY <1>1, <1>3, <1>4
<1>7. config' \in [Isolate -> Config] /\ config'[k].key = config[k].key /\ config'[k].token = token
  BY <1>1, <1>2, <1>4
<1> QED
  BY <1>1, <1>3, <1>4, <1>5, <1>6, <1>7, SendKeeps

\* The account lookup fails, and the session gives up.
LEMMA CheckFailedKeeps ==
  ASSUME ConnInv, NEW k \in Isolate, CheckFailed(k)
  PROVE  ConnInv'
<1>1. /\ live \in [Managed -> TokenType] /\ faults \in Nat /\ sess[k].pc \notin Outside
      /\ GiveUp(k) /\ UNCHANGED <<row, live, applied, checked>> /\ faults' = faults + 1
  BY DEF ConnInv, Types, CheckFailed, Outside, Fault
<1>2. live' \in [Managed -> TokenType] /\ faults' \in Nat
  BY <1>1
<1> QED
  BY <1>1, <1>2, GiveUpKeeps

\* The answer to a request: confirmed, the session moves on to the guard of the row
\* it has written; refused, it gives up.
LEMMA AnswerKeeps ==
  ASSUME ConnInv, NEW k \in Isolate, Answer(k)
  PROVE  ConnInv'
<1>1. PICK m : m = sess[k].call
  OBVIOUS
<1>2. /\ sess \in [Isolate -> Session] /\ sess[k] \in Session /\ config \in [Isolate -> Config]
      /\ frames \in [Isolate -> Seq(Config)] /\ live \in [Managed -> TokenType] /\ faults \in Nat
      /\ wire \subseteq Message
      /\ SessionSound(k) /\ ScopeSound(k) /\ IsWaiting(k) /\ sess[k].pc \notin Outside
  BY DEF ConnInv, Types, Answer, IsWaiting, Outside
<1>3. /\ m \in wire /\ m \in Message /\ m.tenant = sess[k].tenant /\ m.gen = sess[k].guard.gen
      /\ sess[k].tenant \in Managed /\ sess[k].pc = Waiting[m.kind] /\ sess[k].guard \in GuardType
      /\ sess[k].pc = "verifying" \/ sess[k].pc = "persisting" => config[k].token = m.token
  BY <1>1, <1>2 DEF SessionSound
<1>4. Apply(m) /\ UNCHANGED <<live, checked, faults>>
  BY <1>1 DEF Answer
<1>5. CASE Fits(m) /\ m.kind # "failure"
  <2>1. sess' = [sess EXCEPT ![k] = Confirmed(sess[k], m)] /\ UNCHANGED <<wire, failed, config, frames>>
    BY <1>1, <1>5 DEF Answer
  <2>2. PICK s : s = Confirmed(sess[k], m)
    OBVIOUS
  <2>3. PICK pc : pc = IF m.kind = "refresh" THEN "check" ELSE "ready"
    OBVIOUS
  <2>4. PICK g : g = [gen |-> m.gen, rev |-> m.rev + 1]
    OBVIOUS
  <2>5. g \in GuardType /\ g.gen = m.gen /\ g.rev = m.rev + 1 /\ m.token \in TokenType /\ m.rev \in Nat
    BY <1>3, <2>4 DEF GuardType, Message
  <2>6. /\ s \in Session /\ s.sent = sess[k].sent /\ s.pc = pc /\ pc \in {"check", "ready"}
        /\ s.tenant = sess[k].tenant /\ s.guard = g /\ s.stored = m.token /\ s.call = None
    <3>1. s = [sess[k] EXCEPT !.pc = pc, !.guard = g, !.stored = m.token,
                              !.fresh = (m.kind = "refresh"), !.call = None, !.tries = 0]
      BY <2>2, <2>3, <2>4 DEF Confirmed
    <3>2. (m.kind = "refresh") \in BOOLEAN
      OBVIOUS
    <3> QED BY <1>2, <2>3, <2>5, <3>1, <3>2 DEF Session, Outside
  <2>7. sess'[k] = s
    BY <1>2, <2>1, <2>2
  <2>8. MessageSound(m)' /\ m.op \in applied' /\ row' \in [Managed -> RowType]
    BY <1>3, <1>4, <1>5, <2>1, ApplyKeeps
  <2>9. m.token \in Issued /\ m.token.tenant = sess[k].tenant /\ m.token.gen = g.gen
    BY <1>3, <1>5, <2>5, <2>8 DEF MessageSound
  <2>10. GuardSound(m.tenant, g, m.token)'
    <3> DEFINE t == m.tenant
    <3>1. /\ row'[t].rev \in Nat /\ m.rev < row'[t].rev
          /\ m.gen = row'[t].gen /\ m.rev + 1 = row'[t].rev =>
               row'[t].state # "disconnected" /\ row'[t].token = m.token
      BY <1>3, <1>5, <2>8 DEF MessageSound, RowType
    <3> QED BY <1>3, <2>5, <3>1 DEF GuardSound
  <2>11. SessionSound(k)'
    <3>1. config'[k].token = m.token
      BY <1>3, <1>5, <2>1 DEF Waiting, Message, MutationKind
    <3>2. m.tenant = sess[k].tenant /\ sess[k].tenant \in Managed
      BY <1>3
    <3> QED BY <2>5, <2>6, <2>7, <2>9, <2>10, <3>1, <3>2 DEF SessionSound, IsWaiting, Outside
  <2>12. ScopeSound(k)'
    BY <1>2, <2>1, <2>6, <2>7 DEF ScopeSound, OwnConfig, IsWaiting
  <2> QED BY <1>2, <1>3, <1>4, <2>1, <2>2, <2>6, <2>11, <2>12, ArrivalKeeps
<1>6. CASE Fits(m) /\ m.kind = "failure"
  <2>1. GiveUp(k) /\ sess[k].pc = "failing"
    BY <1>1, <1>3, <1>6 DEF Answer, Waiting
  <2>2. sess' = [sess EXCEPT ![k] = Closed(sess[k])] /\ Leave(k) /\ UNCHANGED <<wire, failed>>
    BY <2>1 DEF GiveUp
  <2>3. PICK s \in Session : s = Closed(sess[k])
    BY <1>2, <2>2, CloseScope
  <2> QED BY <1>2, <1>3, <1>4, <2>2, <2>3, CloseScope, ArrivalKeeps
<1>7. CASE ~Fits(m)
  <2>1. GiveUp(k) /\ UNCHANGED <<row, applied>>
    BY <1>1, <1>4, <1>7 DEF Answer, Apply
  <2>2. live' \in [Managed -> TokenType] /\ faults' \in Nat
    BY <1>2, <1>4
  <2> QED BY <1>2, <1>4, <2>1, <2>2, GiveUpKeeps
<1> QED
  BY <1>5, <1>6, <1>7

\* No answer: the call is repeated once, or given up.
LEMMA NoAnswerKeeps ==
  ASSUME ConnInv, NEW k \in Isolate, NoAnswer(k)
  PROVE  ConnInv'
<1>1. /\ sess \in [Isolate -> Session] /\ sess[k] \in Session /\ config \in [Isolate -> Config]
      /\ frames \in [Isolate -> Seq(Config)] /\ live \in [Managed -> TokenType] /\ faults \in Nat
      /\ SessionSound(k) /\ ScopeSound(k) /\ IsWaiting(k) /\ sess[k].pc \notin Outside
      /\ UNCHANGED <<row, live, applied, checked>>
  BY DEF ConnInv, Types, NoAnswer, IsWaiting, Outside
<1>2. CASE sess[k].tries < Copies
  <2>1. PICK s : s = [sess[k] EXCEPT !.tries = sess[k].tries + 1]
    OBVIOUS
  <2>2. sess[k].tries + 1 \in Nat /\ sess[k].tries + 1 \in 1..Copies
    BY <1>1, <1>2, ConnAssumption DEF Session
  <2>3. /\ s \in Session /\ s.sent = sess[k].sent /\ s.pc = sess[k].pc /\ s.tenant = sess[k].tenant
        /\ s.call = sess[k].call /\ s.guard = sess[k].guard /\ s.stored = sess[k].stored
        /\ s.tries \in 1..Copies
    BY <1>1, <2>1, <2>2 DEF Session
  <2>4. sess' = [sess EXCEPT ![k] = s] /\ UNCHANGED <<wire, failed, config, frames, faults>>
    BY <1>1, <1>2, <2>1 DEF NoAnswer, NoFault
  <2>5. sess'[k] = s
    BY <1>1, <2>4
  <2>6. SessionSound(k)'
    BY <1>1, <2>3, <2>4, <2>5 DEF SessionSound, GuardSound, IsWaiting
  <2>7. ScopeSound(k)'
    BY <1>1, <2>3, <2>4, <2>5 DEF ScopeSound, OwnConfig
  <2> QED BY <1>1, <2>3, <2>4, <2>6, <2>7, QuietKeeps
<1>3. CASE ~(sess[k].tries < Copies)
  <2>1. GiveUp(k) /\ faults' = faults + 1
    BY <1>3 DEF NoAnswer, Fault
  <2>2. live' \in [Managed -> TokenType] /\ faults' \in Nat
    BY <1>1, <2>1
  <2> QED BY <1>1, <2>1, <2>2, GiveUpKeeps
<1> QED
  BY <1>2, <1>3

----------------------------------------------------------------------------
(* The connections stay sound *)

\* Connections start sound.
LEMMA ConnInitIsSound ==
  ASSUME ConnInit
  PROVE  ConnInv
<1>1. \A t \in Managed : Token(t, 1, 0) \in Issued /\ Token(t, 1, 0).tenant = t /\ Token(t, 1, 0).gen = 1
  BY ConnAssumption DEF Token, Issued
<1>2. Off \in Session /\ Off.pc = "off" /\ Off.tenant = None /\ Off.call = None
  BY ConnAssumption DEF Off, Session, Outside, TokenType
<1>3. Empty \in Config /\ <<>> \in Seq(Config)
  BY DEF Empty, Config, TokenType
<1>4. /\ row = [t \in Managed |-> [gen |-> 1, rev |-> 0, state |-> "stored_not_verified",
                                   token |-> Token(t, 1, 0), account |-> 0]]
      /\ live = [t \in Managed |-> Token(t, 1, 0)]
      /\ wire = {} /\ applied = {} /\ checked = {} /\ failed = {}
      /\ sess = [k \in Isolate |-> Off] /\ faults = 0
      /\ config = [k \in Isolate |-> Empty] /\ frames = [k \in Isolate |-> <<>>]
  BY DEF ConnInit
<1>5. Types
  <2>1. row \in [Managed -> RowType]
    BY <1>1, <1>4, ConnAssumption DEF RowType, State, TokenType
  <2>2. live \in [Managed -> TokenType]
    BY <1>1, <1>4 DEF TokenType
  <2>3. \A t \in Managed : row[t].token \in Issued
    BY <1>1, <1>4
  <2> QED BY <1>2, <1>3, <1>4, <2>1, <2>2, <2>3 DEF Types
<1>6. OpsSound /\ \A m \in wire : MessageSound(m)
  BY <1>4 DEF OpsSound
<1>7. OwnGeneration /\ VerdictIsAboutStored
  BY <1>1, <1>4 DEF OwnGeneration, VerdictIsAboutStored
<1>8. \A k \in Isolate : SessionSound(k) /\ ScopeSound(k)
  BY <1>2, <1>4 DEF SessionSound, ScopeSound, IsWaiting, Outside
<1> QED
  BY <1>5, <1>6, <1>7, <1>8 DEF ConnInv

\* Rows, requests, sessions and configurations keep agreeing on whose token is
\* where, whatever arrives late, twice or never.
THEOREM ConnInvariance == ConnSpec => []ConnInv
<1>1. ConnInit => ConnInv
  BY ConnInitIsSound
<1>2. ConnInv /\ [ConnNext]_connVars => ConnInv'
  <2> SUFFICES ASSUME ConnInv, [ConnNext]_connVars
               PROVE  ConnInv'
    OBVIOUS
  <2>1. CASE \E t \in Managed : Replace(t) \/ Withdraw(t)
    BY <2>1, ReplaceKeeps, WithdrawKeeps
  <2>2. CASE \E m \in wire : Unheard(m)
    BY <2>2, UnheardKeeps
  <2>3. CASE \E k \in Isolate, t \in Tenant : Begin(k, t)
    BY <2>3, BeginKeeps
  <2>4. ASSUME NEW k \in Isolate,
               Tick(k) \/ EndTick(k) \/ Crash(k) \/ Open(k) \/ Close(k) \/ Finish(k)
        PROVE  ConnInv'
    BY <2>4, TickKeeps, EndTickKeeps, CrashKeeps, OpenKeeps, CloseKeeps, FinishKeeps
  <2>5. ASSUME NEW k \in Isolate,
               Refresh(k) \/ RefreshRefused(k) \/ NoRefresh(k) \/ Check(k)
                 \/ CheckFailed(k) \/ Answer(k) \/ NoAnswer(k)
        PROVE  ConnInv'
    BY <2>5, RefreshKeeps, RefreshRefusedKeeps, NoRefreshKeeps, CheckKeeps, CheckFailedKeeps,
       AnswerKeeps, NoAnswerKeeps
  <2>6. CASE UNCHANGED connVars
    <3>1. UNCHANGED <<row, live, wire, applied, checked, failed, sess, faults, config, frames>>
      BY <2>6 DEF connVars, rowVars, tickVars
    <3>2. Types' /\ OpsSound' /\ OwnGeneration' /\ VerdictIsAboutStored' /\ \A m \in wire' : MessageSound(m)'
      BY <3>1 DEF ConnInv, Types, OpsSound, OwnGeneration, VerdictIsAboutStored, MessageSound
    <3>3. \A j \in Isolate : SessionSound(j)' /\ ScopeSound(j)'
      <4>1. \A u \in Managed, guard \in GuardType, stored \in Issued :
              GuardSound(u, guard, stored) => GuardSound(u, guard, stored)'
        BY <3>1 DEF GuardSound
      <4> QED BY <3>1, <4>1, SessionStays
    <3> QED BY <3>2, <3>3 DEF ConnInv
  <2> QED
    BY <2>1, <2>2, <2>3, <2>4, <2>5, <2>6 DEF ConnNext
<1> QED
  BY <1>1, <1>2, PTL DEF ConnSpec

\* The guard and the configuration that a job works with are of its own tenant, a
\* row holds a token of its own generation, and its verdict is about that token.
THEOREM ConnectionsStaySound == ConnSpec => []ConnectionsAreSound
<1>1. ConnInv => ConnectionsAreSound
  <2> SUFFICES ASSUME ConnInv
               PROVE  ConnectionsAreSound
    OBVIOUS
  <2>1. ConnTypeOK
    BY DEF ConnInv, Types, ConnTypeOK, SessionSound
  <2>2. OwnCredentials
    <3> SUFFICES ASSUME NEW k \in Isolate
                 PROVE  LET t == sess[k].tenant IN
                          IF t = None THEN config[k] = Empty /\ frames[k] = <<>>
                          ELSE /\ config[k].key = CASE t \in Keyed -> t
                                                  [] t \notin Keyed /\ t \in Managed -> None
                                                  [] OTHER -> Operator
                               /\ config[k].token # None => config[k].token.tenant = t
      BY DEF OwnCredentials
    <3>1. ScopeSound(k)
      BY DEF ConnInv
    <3> QED BY <3>1, ConnAssumption DEF ScopeSound, OwnConfig, KeyFor, Empty
  <2> QED BY <2>1, <2>2 DEF ConnInv, ConnectionsAreSound
<1> QED
  BY <1>1, ConnInvariance, PTL

=============================================================================
