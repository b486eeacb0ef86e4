---------------------------- MODULE Connections ----------------------------
(***************************************************************************)
(* The credentials a hosted tick works with: the scoped configuration      *)
(* (src/runtime-scope.ts), the tenant runtime that fills and restores it   *)
(* (withTenantRuntime of src/supabase-worker.ts), and the connection       *)
(* session that refreshes and verifies a provider token and writes it back *)
(* under the generation and revision it started from                       *)
(* (src/connection-lifecycle.ts, src/connection-runtime.ts).               *)
(*                                                                         *)
(* Each managed tenant has one connection, X or LinkedIn.  A token carries *)
(* whose it is, the generation whose authorisation it stems from, and how  *)
(* often it has been refreshed; a provider accepts only the newest one of  *)
(* an authorisation for the next refresh.  The account behind a token is   *)
(* the one of its generation.  mutate_connection lives in the database     *)
(* project; its effects are those mutateConnection requires of the answer. *)
(*                                                                         *)
(* Not in the model: callbacks of an OAuth flow (another repository), the  *)
(* format checks of answers, a refresh that keeps the refresh token.       *)
(***************************************************************************)
EXTENDS Naturals, Sequences, FiniteSets

CONSTANTS
    Isolate,     \* Worker isolates; the gate lets one tick run at a time in each
    Tenant,
    Managed,     \* tenants whose connections have a lifecycle
    LinkedIn,    \* managed tenants whose connection is LinkedIn; the others use X
    Keyed,       \* tenants with an OpenAI key of their own
    Operator,    \* the operator's OpenAI key
    None,
    Ticks,       \* bound: ticks of an isolate
    Work,        \* bound: jobs and publications of a tick, for each isolate
    Generations, \* bound: the generation of a connection
    Refreshes,   \* bound: refreshes of an authorisation
    Faults,      \* bound: crashes, calls never answered, providers that fail
    Copies       \* requests of one connectionRpc call: the first, and a replay

\* None is no tenant; a request is sent once at least.
ASSUME ConnAssumption ==
    /\ LinkedIn \subseteq Managed /\ Managed \subseteq Tenant /\ None \notin Tenant
    /\ Ticks \in Nat /\ Work \in [Isolate -> Nat] /\ Copies \in Nat \ {0}
    /\ Generations \in Nat \ {0} /\ Refreshes \in Nat /\ Faults \in Nat

VARIABLES
    row,         \* a tenant's connection: gen, rev, state, token, account
    live,        \* the token the provider takes for the next refresh
    wire,        \* mutate_connection requests on their way
    applied,     \* operations the database has applied
    checked,     \* tokens a provider has confirmed
    failed,      \* tokens a session has reported as failed
    sess,        \* an isolate: where its tick is, the tenant of its job, the guard
                 \* and the stored token its connection session knows, whether it
                 \* has refreshed, its open call, calls so far, bounds left
    faults,      \* what has gone wrong so far
    config,      \* the scoped configuration of its tick: key and token
    frames       \* the values withTenantRuntime restores, outermost first

rowVars == <<row, live, wire, applied, checked, failed>>
tickVars == <<sess, faults, config, frames>>
connVars == <<rowVars, tickVars>>

----------------------------------------------------------------------------
(* Data *)

Token(t, g, n) == [tenant |-> t, gen |-> g, nth |-> n]
Issued == [tenant : Managed, gen : 1..Generations, nth : 0..Refreshes]
TokenType == Issued \cup {None}
State == {"stored_not_verified", "verified", "disconnected", "needs_reconnect"}
RowType == [gen : 1..Generations, rev : Nat, state : State,
            token : TokenType, account : 0..Generations]     \* account 0: null

GuardType == [gen : 1..Generations, rev : Nat]
Guard(r) == [gen |-> r.gen, rev |-> r.rev]
Empty == [key |-> Operator, token |-> None]
Off == [pc |-> "off", tenant |-> None, guard |-> None, stored |-> None, fresh |-> FALSE,
        call |-> None, tries |-> 0, sent |-> 0, ticks |-> Ticks, work |-> 0]

\* After a mutation: the row, with its guard one revision further.
Mutated(r, m) ==
    CASE m.kind = "refresh" ->
           [r EXCEPT !.rev = r.rev + 1, !.state = "stored_not_verified", !.token = m.token]
      [] m.kind = "verify" ->
           [r EXCEPT !.rev = r.rev + 1, !.state = "verified", !.account = m.token.gen]
      [] m.kind = "failure" ->
           [r EXCEPT !.rev = r.rev + 1, !.state = "needs_reconnect"]

----------------------------------------------------------------------------
(* The database and the owner *)

\* mutate_connection: a replay finds its operation applied, anything else has
\* to name the row's generation and revision.
Fits(m) == m.op \in applied \/ (row[m.tenant].gen = m.gen /\ row[m.tenant].rev = m.rev)

Apply(m) ==
    IF m.op \notin applied /\ Fits(m)
    THEN /\ row' = [row EXCEPT ![m.tenant] = Mutated(row[m.tenant], m)]
         /\ applied' = applied \cup {m.op}
    ELSE UNCHANGED <<row, applied>>

\* A request arrives and nobody hears the answer.  It may arrive again, or at
\* any time later, or never.
Unheard(m) ==
    /\ m.op \notin applied /\ Fits(m)
    /\ Apply(m)
    /\ UNCHANGED <<live, wire, checked, failed, tickVars>>

\* Replacing or disconnecting starts a generation, and ends the one before it.
Replace(t) ==
    /\ row[t].gen < Generations
    /\ LET g == row[t].gen + 1
       IN  /\ row' = [row EXCEPT ![t] = [gen |-> g, rev |-> @.rev + 1, account |-> 0,
                        state |-> "stored_not_verified", token |-> Token(t, g, 0)]]
           /\ live' = [live EXCEPT ![t] = Token(t, g, 0)]
    /\ UNCHANGED <<wire, applied, checked, failed, tickVars>>

Withdraw(t) ==
    /\ row[t].gen < Generations
    /\ row' = [row EXCEPT ![t] = [gen |-> @.gen + 1, rev |-> @.rev + 1, account |-> 0,
                                  state |-> "disconnected", token |-> None]]
    /\ UNCHANGED <<live, wire, applied, checked, failed, tickVars>>

----------------------------------------------------------------------------
(* The tenant runtime *)

\* runWithRuntimeScope: a tick starts with an empty overlay.
Tick(k) ==
    /\ sess[k].pc = "off" /\ sess[k].ticks > 0
    /\ sess' = [sess EXCEPT ![k].pc = "idle", ![k].ticks = @ - 1, ![k].work = Work[k]]
    /\ config' = [config EXCEPT ![k] = Empty]
    /\ UNCHANGED <<rowVars, frames, faults>>

EndTick(k) ==
    /\ sess[k].pc = "idle"
    /\ sess' = [sess EXCEPT ![k].pc = "off", ![k].work = 0]
    /\ UNCHANGED <<rowVars, config, frames, faults>>

\* withTenantRuntimeImpl: a managed tenant without a key has none, another one
\* falls back on what is configured.
KeyFor(t, previous) ==
    IF t \in Keyed THEN t ELSE IF t \in Managed THEN None ELSE previous.key

Enter(k, t, token) ==
    /\ frames' = [frames EXCEPT ![k] = Append(@, config[k])]
    /\ config' = [config EXCEPT ![k] = [key |-> KeyFor(t, @), token |-> token]]

\* The finally of withTenantRuntimeImpl, for a result and for an error.
Leave(k) ==
    LET last == frames[k][Len(frames[k])]
    IN  /\ config' = [config EXCEPT ![k] = last]
        /\ frames' = [frames EXCEPT ![k] = SubSeq(@, 1, Len(@) - 1)]

Tokens(t) == IF t \in Managed THEN row[t].token ELSE None

\* handleClaimedJob: the context is read once for the job ...
Begin(k, t) ==
    /\ sess[k].pc = "idle" /\ sess[k].work > 0
    /\ sess' = [sess EXCEPT ![k].pc = "job", ![k].tenant = t, ![k].work = @ - 1]
    /\ Enter(k, t, Tokens(t))
    /\ UNCHANGED <<rowVars, faults>>

\* ... and again by publishQueueRow, for a row of the queue: the snapshot holds
\* the token together with its guard.
Open(k) ==
    LET t == sess[k].tenant
    IN  /\ sess[k].pc = "job" /\ sess[k].work > 0 /\ t \in Managed
        /\ row[t].state # "disconnected"
        /\ sess' = [sess EXCEPT ![k].pc = IF t \in LinkedIn THEN "prepare" ELSE "check",
                               ![k].guard = Guard(row[t]), ![k].stored = row[t].token,
                               ![k].work = @ - 1]
        /\ Enter(k, t, row[t].token)
        /\ UNCHANGED <<rowVars, faults>>

Closed(s) == [s EXCEPT !.pc = "job", !.guard = None, !.stored = None,
                       !.fresh = FALSE, !.call = None, !.tries = 0]

\* The preparation is over: with an account to publish as, or with an error.
Close(k) ==
    /\ sess[k].pc = "ready"
    /\ sess' = [sess EXCEPT ![k] = Closed(sess[k])]
    /\ Leave(k)
    /\ UNCHANGED <<rowVars, faults>>

\* The job ends, well or badly.
Finish(k) ==
    /\ sess[k].pc = "job"
    /\ sess' = [sess EXCEPT ![k].pc = "idle", ![k].tenant = None]
    /\ Leave(k)
    /\ UNCHANGED <<rowVars, faults>>

Fault == faults < Faults /\ faults' = faults + 1
NoFault == faults' = faults

\* The isolate is gone, what it sent is not.
Crash(k) ==
    /\ sess[k].pc # "off" /\ Fault
    /\ sess' = [sess EXCEPT ![k] = [Off EXCEPT !.sent = sess[k].sent, !.ticks = sess[k].ticks]]
    /\ config' = [config EXCEPT ![k] = Empty]
    /\ frames' = [frames EXCEPT ![k] = <<>>]
    /\ UNCHANGED rowVars

----------------------------------------------------------------------------
(* The session of a connection *)

\* A session that asks for the guard at the time it writes.
MutationAfresh(k, s, kind, token) ==
    [op |-> <<k, s.sent>>, tenant |-> s.tenant, kind |-> kind, token |-> token,
     gen |-> row[s.tenant].gen, rev |-> row[s.tenant].rev]

\* ConnectionSession.apply: the request carries the guard the session has, which
\* moves on only with what the database confirms.
Mutation(k, s, kind, token) ==
    [op |-> <<k, s.sent>>, tenant |-> s.tenant, kind |-> kind, token |-> token,
     gen |-> s.guard.gen, rev |-> s.guard.rev]

Waiting == [refresh |-> "persisting", verify |-> "verifying", failure |-> "failing"]
IsWaiting(k) == sess[k].pc \in {"persisting", "verifying", "failing"}

Send(k, kind, token) ==
    LET s == [sess[k] EXCEPT !.sent = sess[k].sent + 1]
        m == Mutation(k, s, kind, token)
    IN  /\ wire' = wire \cup {m}
        /\ sess' = [sess EXCEPT ![k] = [s EXCEPT !.pc = Waiting[kind], !.call = m, !.tries = 1]]

\* The preparation ends with an error.  LinkedIn reports a refresh that failed,
\* under the guard it has, before it passes the error on.
GiveUp(k) ==
    IF sess[k].tenant \in LinkedIn /\ sess[k].pc \in {"prepare", "persisting"}
    THEN /\ Send(k, "failure", None)
         /\ failed' = failed \cup {sess[k].stored}
         /\ UNCHANGED <<config, frames>>
    ELSE /\ sess' = [sess EXCEPT ![k] = Closed(sess[k])]
         /\ Leave(k)
         /\ UNCHANGED <<wire, failed>>

\* LinkedIn refreshes a token about to expire, X one refresh after an answer 401.
MayRefresh(k) ==
    \/ sess[k].pc = "prepare"
    \/ sess[k].pc = "check" /\ sess[k].tenant \notin LinkedIn /\ ~sess[k].fresh

\* refreshAndPersistOAuth2AccessToken: the new tokens are configured, then
\* stored.  The provider takes its newest token once; its answer may be lost.
Refresh(k) ==
    LET old == config[k].token
        new == [old EXCEPT !.nth = old.nth + 1]
    IN  /\ MayRefresh(k)
        /\ old = live[sess[k].tenant] /\ old.nth < Refreshes
        /\ live' = [live EXCEPT ![sess[k].tenant] = new]
        /\ \/ /\ config' = [config EXCEPT ![k].token = new]
              /\ Send(k, "refresh", new)
              /\ UNCHANGED <<faults, failed, frames>>
           \/ Fault /\ GiveUp(k)
        /\ UNCHANGED <<row, applied, checked>>

RefreshRefused(k) ==
    /\ MayRefresh(k)
    /\ IF config[k].token = live[sess[k].tenant] THEN Fault ELSE NoFault
    /\ GiveUp(k)
    /\ UNCHANGED <<row, live, applied, checked>>

\* shouldRefreshAccessToken says no.
NoRefresh(k) ==
    /\ sess[k].pc = "prepare"
    /\ sess' = [sess EXCEPT ![k].pc = "check"]
    /\ UNCHANGED <<rowVars, config, frames, faults>>

\* The provider names the account behind the token, and it is to be recorded.
Check(k) ==
    /\ sess[k].pc = "check"
    /\ checked' = checked \cup {config[k].token}
    /\ Send(k, "verify", config[k].token)
    /\ UNCHANGED <<row, live, applied, failed, config, frames, faults>>

\* No answer, another account than the one expected, or an error.
CheckFailed(k) ==
    /\ sess[k].pc = "check" /\ Fault
    /\ GiveUp(k)
    /\ UNCHANGED <<row, live, applied, checked>>

\* What the session knows once a mutation is confirmed.
Confirmed(s, m) ==
    [s EXCEPT !.pc = IF m.kind = "refresh" THEN "check" ELSE "ready",
              !.guard = [gen |-> m.gen, rev |-> m.rev + 1],
              !.stored = m.token, !.fresh = m.kind = "refresh", !.call = None, !.tries = 0]

\* A request arrives, and its session hears the answer.
Answer(k) == LET m == sess[k].call IN
    /\ IsWaiting(k)
    /\ Apply(m)
    /\ IF Fits(m) /\ m.kind # "failure"
       THEN /\ sess' = [sess EXCEPT ![k] = Confirmed(sess[k], m)]
            /\ UNCHANGED <<wire, failed, config, frames>>
       ELSE GiveUp(k)
    /\ UNCHANGED <<live, checked, faults>>

\* connectionRpc, five seconds without an answer: the identical request once
\* more, then an error.
NoAnswer(k) ==
    /\ IsWaiting(k)
    /\ IF sess[k].tries < Copies
       THEN /\ NoFault
            /\ sess' = [sess EXCEPT ![k].tries = @ + 1]
            /\ UNCHANGED <<wire, failed, config, frames>>
       ELSE Fault /\ GiveUp(k)
    /\ UNCHANGED <<row, live, applied, checked>>

----------------------------------------------------------------------------
(* Specification *)

ConnInit ==
    /\ row = [t \in Managed |-> [gen |-> 1, rev |-> 0, state |-> "stored_not_verified",
                                 token |-> Token(t, 1, 0), account |-> 0]]
    /\ live = [t \in Managed |-> Token(t, 1, 0)]
    /\ wire = {} /\ applied = {} /\ checked = {} /\ failed = {}
    /\ sess = [k \in Isolate |-> Off] /\ faults = 0
    /\ config = [k \in Isolate |-> Empty]
    /\ frames = [k \in Isolate |-> <<>>]

ConnNext ==
    \/ \E t \in Managed : Replace(t) \/ Withdraw(t)
    \/ \E m \in wire : Unheard(m)
    \/ \E k \in Isolate, t \in Tenant : Begin(k, t)
    \/ \E k \in Isolate :
          \/ Tick(k) \/ EndTick(k) \/ Crash(k)
          \/ Open(k) \/ Close(k) \/ Finish(k)
          \/ Refresh(k) \/ RefreshRefused(k) \/ NoRefresh(k)
          \/ Check(k) \/ CheckFailed(k) \/ Answer(k) \/ NoAnswer(k)

ConnSpec == ConnInit /\ [][ConnNext]_connVars

----------------------------------------------------------------------------
(* Properties *)

ConnTypeOK ==
    /\ row \in [Managed -> RowType]
    /\ live \in [Managed -> TokenType]
    /\ checked \subseteq TokenType /\ failed \subseteq TokenType
    /\ \A k \in Isolate : sess[k].call # None => sess[k].call \in wire /\ sess[k].tries \in 1..Copies

\* A connection holds a token of its own tenant and generation, or none: what
\* an older session, a late request or a replay brings never restores it.
OwnGeneration ==
    \A t \in Managed : LET r == row[t] IN
      IF r.state = "disconnected" THEN r.token = None
      ELSE r.token.tenant = t /\ r.token.gen = r.gen

\* "verified" and "needs_reconnect" are said of the token that is stored: the
\* provider has named the account behind that very token, or a session that
\* started from it has given up on it.
VerdictIsAboutStored ==
    \A t \in Managed : LET r == row[t] IN
      /\ r.state = "verified" => r.token \in checked /\ r.account = r.token.gen
      /\ r.state = "needs_reconnect" => r.token \in failed

\* Whatever earlier jobs of the tick have configured and however they ended, a
\* job works with its own tenant's OpenAI key and provider token; only an
\* unmanaged tenant without a key is given the operator's.
OwnCredentials ==
    \A k \in Isolate : LET t == sess[k].tenant IN
      IF t = None THEN config[k] = Empty /\ frames[k] = <<>>
      ELSE /\ config[k].key = CASE t \in Keyed -> t
                               [] t \notin Keyed /\ t \in Managed -> None
                               [] OTHER -> Operator
           /\ config[k].token # None => config[k].token.tenant = t

\* The database, the sessions and the configuration agree on every connection.
ConnectionsAreSound ==
    ConnTypeOK /\ OwnGeneration /\ VerdictIsAboutStored /\ OwnCredentials

----------------------------------------------------------------------------
(* The inductive invariant behind them *)

MutationKind == {"refresh", "verify", "failure"}
Message == [op : Isolate \X Nat, tenant : Managed, kind : MutationKind, token : TokenType,
            gen : 1..Generations, rev : Nat]
Config == [key : Tenant \cup {None, Operator}, token : TokenType]
Outside == {"off", "idle", "job"}
Session == [pc : Outside \cup {"prepare", "check", "persisting", "verifying", "failing", "ready"},
            tenant : Tenant \cup {None}, guard : GuardType \cup {None}, stored : TokenType,
            fresh : BOOLEAN, call : Message \cup {None}, tries : Nat, sent : Nat, ticks : Nat, work : Nat]

Types ==
    /\ row \in [Managed -> RowType] /\ live \in [Managed -> TokenType]
    /\ wire \subseteq Message /\ checked \subseteq TokenType /\ failed \subseteq TokenType
    /\ sess \in [Isolate -> Session] /\ config \in [Isolate -> Config]
    /\ frames \in [Isolate -> Seq(Config)] /\ faults \in Nat
    /\ \A t \in Managed : row[t].state # "disconnected" => row[t].token \in Issued

\* An operation is one request, and the next one of an isolate is another.
OpsSound ==
    /\ \A m, n \in wire : m.op = n.op => m = n
    /\ \A m \in wire : m.op[2] <= sess[m.op[1]].sent
    /\ \A op \in applied : \E m \in wire : m.op = op

\* A request that may still be applied is about the token that is stored, and one
\* that was applied last has left its own.
MessageSound(m) ==
    LET r == row[m.tenant]
    IN  /\ m.rev <= r.rev /\ (m.op \in applied => m.rev < r.rev)
        /\ m.kind # "failure" =>
             m.token \in Issued /\ m.token.tenant = m.tenant /\ m.token.gen = m.gen
        /\ m.kind = "verify" => m.token \in checked
        /\ m.op \notin applied /\ m.gen = r.gen /\ m.rev = r.rev =>
             /\ r.state # "disconnected"
             /\ m.kind = "verify" => r.token = m.token
             /\ m.kind = "failure" => r.token \in failed
        /\ m.op \in applied /\ m.kind # "failure" /\ m.gen = r.gen /\ m.rev + 1 = r.rev =>
             r.state # "disconnected" /\ r.token = m.token

\* Who holds the guard of the row knows the token that is stored.
GuardSound(t, guard, stored) ==
    /\ guard.rev <= row[t].rev
    /\ guard.gen = row[t].gen /\ guard.rev = row[t].rev =>
         row[t].state # "disconnected" /\ row[t].token = stored

\* A session has a token of its tenant and of the generation of its guard, the
\* configured one is that or the one it is about to store, and its open call is
\* under its guard.
SessionSound(k) ==
    LET s == sess[k]
    IN  /\ s.pc \notin Outside =>
             /\ s.tenant \in Managed /\ s.guard \in GuardType
             /\ s.stored \in Issued /\ s.stored.tenant = s.tenant /\ s.stored.gen = s.guard.gen
             /\ GuardSound(s.tenant, s.guard, s.stored)
        /\ s.pc \in {"prepare", "check", "ready"} => config[k].token = s.stored
        /\ s.pc \in {"persisting", "verifying"} => config[k].token = s.call.token
        /\ IF IsWaiting(k)
           THEN /\ s.call \in wire /\ s.tries \in 1..Copies /\ s.pc = Waiting[s.call.kind]
                /\ s.call.tenant = s.tenant /\ s.call.gen = s.guard.gen /\ s.call.rev = s.guard.rev
           ELSE s.call = None

\* The configuration is that of the tenant, and what is restored at the end of its
\* job is the empty one.
OwnConfig(t, c) == c.key = KeyFor(t, Empty) /\ (c.token # None => c.token.tenant = t)

ScopeSound(k) ==
    LET s == sess[k]
    IN  IF s.pc \in {"off", "idle"}
        THEN s.tenant = None /\ config[k] = Empty /\ frames[k] = <<>>
        ELSE /\ s.tenant \in Tenant /\ OwnConfig(s.tenant, config[k])
             /\ IF s.pc = "job" THEN Len(frames[k]) = 1
                ELSE Len(frames[k]) = 2 /\ OwnConfig(s.tenant, frames[k][2])
             /\ frames[k][1] = Empty

ConnInv ==
    /\ Types /\ OpsSound /\ OwnGeneration /\ VerdictIsAboutStored
    /\ \A m \in wire : MessageSound(m)
    /\ \A k \in Isolate : SessionSound(k) /\ ScopeSound(k)
============================================================================
