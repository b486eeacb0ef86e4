---------------------------- MODULE ThreadsRelay ----------------------------
(***************************************************************************)
(* src/controlled-threads-relay.ts and src/threads-relay-client.ts: the    *)
(* sender of one approved Threads job, the relay on the owner's machine    *)
(* with its journal file, and the gateway that writes to Threads.          *)
(*                                                                         *)
(* Requests, once sent, may be delivered at any later time and more than   *)
(* once.  Handlers run in relay processes that may overlap (a restart      *)
(* while the old process still serves), fail at every await, and lose      *)
(* power between a write and its fsync.  assertSendingAuthority either     *)
(* lets the handler continue or ends it, so expiry is one more failure.    *)
(***************************************************************************)
EXTENDS Naturals

CONSTANTS
    Handler,     \* requests that the relay handles at the same time
    Attempt,     \* publication attempts of the job, one after another
    None,        \* no attempt
    PowerFails   \* the machine may lose power

ASSUME RelayAssumption == None \notin Attempt /\ PowerFails \in BOOLEAN

VARIABLES
    journal,     \* the journal file, as any process reads it
    synced,      \* what of it survives a loss of power
    hand,        \* what each handler is doing
    gateway,     \* the gateway's activity for the session of an attempt
    post,        \* the Threads post made for an attempt
    account,     \* the account that is signed in at the gateway
    sender,      \* the hosted sender of each attempt
    dispatches   \* how often "execute" was invoked, over all attempts

vars == <<journal, synced, hand, gateway, post, account, sender, dispatches>>

----------------------------------------------------------------------------
(* The journal *)

\* "torn" is a file created and not yet filled: it does not parse.
Written == {"reserved", "accepted", "confirmed"}
Row(state, a) == [state |-> state, attempt |-> a]
NoRow == Row("none", None)
Torn == Row("torn", None)
Journal == {NoRow, Torn} \cup [state : Written, attempt : Attempt]

\* After a loss of power: the last synced content, or the latest one, which a
\* new file may hold in part only.
Survivors ==
    {synced, journal} \cup {row \in {Torn} : journal.state = "reserved" /\ journal # synced}

\* Writing a temporary file, renaming it; Sync makes the rename durable.
Persist(state, a) == journal' = Row(state, a) /\ UNCHANGED synced
Sync == synced' = journal /\ UNCHANGED journal

----------------------------------------------------------------------------
(* Handlers and senders *)

Kind == {"ready", "publish", "receipt"}
HandlerState == [pc : {"idle", "ready", "account", "create", "sync", "send", "execute",
                       "recover", "list", "retain", "verify", "inspect", "keep"},
                 attempt : Attempt \cup {None}, kind : Kind \cup {"none"}]
Quiet == [pc |-> "idle", attempt |-> None, kind |-> "none"]

At(h, pc) == hand[h].pc = pc
Mine(h) == hand[h].attempt
Goto(h, pc) == hand' = [hand EXCEPT ![h].pc = pc]
Begin(h, a, kind, pc) == hand' = [hand EXCEPT ![h] = [pc |-> pc, attempt |-> a, kind |-> kind]]
Finish(h) == hand' = [hand EXCEPT ![h] = Quiet]

\* The receipt is served; the sender takes it if it still waits for this reply.
Serve(kind, a) ==
    \/ sender[a] = kind /\ sender' = [sender EXCEPT ![a] = "got"]
    \/ UNCHANGED sender

Sent(a) == sender[a] \notin {"new", "ready"}

----------------------------------------------------------------------------
(* handle: what a request finds in the journal.  Anything else is refused. *)

Ready(h, a) ==
    /\ hand[h] = Quiet /\ sender[a] = "new" /\ journal.state \in {"none", "confirmed"}
    /\ Begin(h, a, "ready", "ready")
    /\ UNCHANGED <<journal, synced, gateway, post, account, sender, dispatches>>

Receive(h, a, kind) ==
    /\ hand[h] = Quiet /\ Sent(a)
    /\ \/ kind = "publish" /\ journal = NoRow /\ Begin(h, a, kind, "account") /\ UNCHANGED sender
       \/ kind = "receipt" /\ journal = Row("reserved", a)
          /\ Begin(h, a, kind, "recover") /\ UNCHANGED sender
       \/ journal = Row("accepted", a) /\ Begin(h, a, kind, "verify") /\ UNCHANGED sender
       \/ journal = Row("confirmed", a) /\ Serve(kind, a) /\ UNCHANGED hand
    /\ UNCHANGED <<journal, synced, gateway, post, account, dispatches>>

\* accountIdentity has answered: the approved account is signed in.
IsReady(h) ==
    /\ At(h, "ready") /\ account = "owner"
    /\ Finish(h)
    /\ sender' = [sender EXCEPT ![Mine(h)] = IF @ = "new" THEN "ready" ELSE @]
    /\ UNCHANGED <<journal, synced, gateway, post, account, dispatches>>

\* Slip: the file is opened without O_EXCL.
ReserveAnyway(h) ==
    /\ At(h, "account") /\ account = "owner"
    /\ journal' = Torn /\ Goto(h, "create")
    /\ UNCHANGED <<synced, gateway, post, account, sender, dispatches>>

\* reserve: the file is created, or it exists and only a confirmed receipt of
\* this attempt is of use.
Reserve(h) ==
    /\ At(h, "account") /\ account = "owner"
    /\ \/ journal = NoRow /\ journal' = Torn /\ Goto(h, "create") /\ UNCHANGED sender
       \/ journal = Row("confirmed", Mine(h)) /\ Serve("publish", Mine(h))
          /\ Finish(h) /\ UNCHANGED journal
    /\ UNCHANGED <<synced, gateway, post, account, dispatches>>

Fill(h) ==
    /\ At(h, "create") /\ Goto(h, "sync")
    /\ journal' = Row("reserved", Mine(h))
    /\ UNCHANGED <<synced, gateway, post, account, sender, dispatches>>

\* Slip: nothing is synced before the dispatch.
SyncLater(h) ==
    /\ At(h, "sync") /\ Goto(h, "send")
    /\ UNCHANGED <<journal, synced, gateway, post, account, sender, dispatches>>

SyncReservation(h) ==
    /\ At(h, "sync") /\ Goto(h, "send") /\ Sync
    /\ UNCHANGED <<gateway, post, account, sender, dispatches>>

Dispatch(h) ==
    /\ At(h, "send") /\ Goto(h, "execute")
    /\ gateway' = [gateway EXCEPT ![Mine(h)] = "called"]
    /\ dispatches' = dispatches + 1
    /\ UNCHANGED <<journal, synced, post, account, sender>>

\* The verified reply of execute, or the one matching activity of a recovery:
\* the external id is kept before anything else is asked.
Accept(h) ==
    /\ At(h, "execute") \/ At(h, "list")
    /\ gateway[Mine(h)] = "success"
    /\ Persist("accepted", Mine(h)) /\ Goto(h, "retain")
    /\ UNCHANGED <<gateway, post, account, sender, dispatches>>

Retain(h) ==
    /\ At(h, "retain") /\ Goto(h, "verify") /\ Sync
    /\ UNCHANGED <<gateway, post, account, sender, dispatches>>

\* recoverReserved and verifyAccepted ask for the account first.
Recover(h) ==
    /\ At(h, "recover") /\ account = "owner" /\ Goto(h, "list")
    /\ UNCHANGED <<journal, synced, gateway, post, account, sender, dispatches>>

Verify(h) ==
    /\ At(h, "verify") /\ account = "owner" /\ Goto(h, "inspect")
    /\ UNCHANGED <<journal, synced, gateway, post, account, sender, dispatches>>

\* Slip: the post is not read back.
InspectNothing(h) ==
    /\ At(h, "inspect") /\ Goto(h, "keep")
    /\ Persist("confirmed", Mine(h))
    /\ UNCHANGED <<gateway, post, account, sender, dispatches>>

\* The post is read back: its id, text and author are the approved ones.
Inspect(h) ==
    /\ At(h, "inspect") /\ post[Mine(h)] = "exact" /\ Goto(h, "keep")
    /\ Persist("confirmed", Mine(h))
    /\ UNCHANGED <<gateway, post, account, sender, dispatches>>

Keep(h) ==
    /\ At(h, "keep") /\ Sync
    /\ Serve(hand[h].kind, Mine(h)) /\ Finish(h)
    /\ UNCHANGED <<gateway, post, account, dispatches>>

\* An error, a timeout, an expired authority, the end of the process: the
\* journal stays as it is.
Fail(h) ==
    /\ hand[h] # Quiet /\ Finish(h)
    /\ UNCHANGED <<journal, synced, gateway, post, account, sender, dispatches>>

----------------------------------------------------------------------------
(* The hosted sender *)

\* The sender of connectThreadsRelay is called; it remembers its first call.
Publish(a) ==
    /\ sender[a] = "ready"
    /\ sender' = [sender EXCEPT ![a] = "publish"]
    /\ UNCHANGED <<journal, synced, hand, gateway, post, account, dispatches>>

\* No usable reply: the receipt is asked for once, and nothing is sent again.
FallBack(a) ==
    /\ sender[a] \in {"publish", "receipt"}
    /\ sender' = [sender EXCEPT ![a] = IF @ = "publish" THEN "receipt" ELSE "unconfirmed"]
    /\ UNCHANGED <<journal, synced, hand, gateway, post, account, dispatches>>

----------------------------------------------------------------------------
(* The gateway and the machine *)

\* The gateway serves an execute call, whoever still waits for it: it refuses,
\* or writes and verifies, or is left without a verified result.
GatewayRuns(a) ==
    /\ gateway[a] = "called"
    /\ \E done \in {"refused", "success", "unresolved"}, made \in {"none", "exact", "wrong"} :
          /\ done = "refused" => made = "none"
          /\ done = "success" => made # "none"
          /\ made = "exact" => account = "owner"
          /\ gateway' = [gateway EXCEPT ![a] = done]
          /\ post' = [post EXCEPT ![a] = made]
    /\ UNCHANGED <<journal, synced, hand, account, sender, dispatches>>

SignIn ==
    /\ account' \in {"owner", "other"} \ {account}
    /\ UNCHANGED <<journal, synced, hand, gateway, post, sender, dispatches>>

PowerLoss ==
    /\ PowerFails
    /\ journal' \in Survivors /\ synced' = journal'
    /\ hand' = [h \in Handler |-> Quiet]
    /\ UNCHANGED <<gateway, post, account, sender, dispatches>>

----------------------------------------------------------------------------
(* The specification *)

Init ==
    /\ journal = NoRow /\ synced = NoRow
    /\ hand = [h \in Handler |-> Quiet]
    /\ gateway = [a \in Attempt |-> "idle"] /\ post = [a \in Attempt |-> "none"]
    /\ account = "owner" /\ sender = [a \in Attempt |-> "new"] /\ dispatches = 0

Asks(h) == \E a \in Attempt : Ready(h, a) \/ \E kind \in {"publish", "receipt"} : Receive(h, a, kind)

Works(h) ==
    \/ IsReady(h) \/ Reserve(h) \/ Fill(h) \/ SyncReservation(h) \/ Dispatch(h)
    \/ Accept(h) \/ Retain(h) \/ Recover(h) \/ Verify(h) \/ Inspect(h) \/ Keep(h)

Next ==
    \/ \E h \in Handler : Asks(h) \/ Works(h) \/ Fail(h)
    \/ \E a \in Attempt : Publish(a) \/ FallBack(a) \/ GatewayRuns(a)
    \/ SignIn \/ PowerLoss

Spec == Init /\ [][Next]_vars

----------------------------------------------------------------------------
(* Properties *)

\* Every variable stays within its type.
TypeOK ==
    /\ journal \in Journal /\ synced \in Journal
    /\ hand \in [Handler -> HandlerState]
    /\ gateway \in [Attempt -> {"idle", "called", "refused", "success", "unresolved"}]
    /\ post \in [Attempt -> {"none", "exact", "wrong"}]
    /\ account \in {"owner", "other"} /\ dispatches \in Nat
    /\ sender \in [Attempt -> {"new", "ready", "publish", "receipt", "got", "unconfirmed"}]

\* The gateway is asked to publish the job at most once, whatever requests,
\* attempts, processes, failures and losses of power come together.
OneDispatch == dispatches <= 1

\* What was dispatched is fenced by a reservation of its attempt that no loss
\* of power can take away.
DispatchIsFenced ==
    \A a \in Attempt : gateway[a] # "idle" => synced.state \in Written /\ synced.attempt = a

\* An external id that is safely on disk is never forgotten again.
IdIsKept ==
    [][synced.state \in {"accepted", "confirmed"} =>
           /\ synced'.state \in {"accepted", "confirmed"}
           /\ synced'.attempt = synced.attempt]_vars

\* A receipt, served or in the journal, is about a post that exists, of this
\* very attempt, by the approved account and with the approved text.
ReceiptsAreTrue ==
    \A a \in Attempt : sender[a] = "got" \/ journal = Row("confirmed", a) => post[a] = "exact"

\* docs/CONTROLLED_THREADS_RELAY.md promises of the confirmed state that its
\* recovery is to "return the same persisted receipt".
ConfirmedStays ==
    [][journal.state = "confirmed" => journal' = journal]_vars
----------------------------------------------------------------------------
(* The inductive invariant behind the safety properties *)

Known == {"accepted", "confirmed"}

\* One handler at a time holds a reservation that it has not dispatched yet.
Reserving(h) == hand[h].pc \in {"create", "sync", "send"}

HandlersSound ==
    \A h \in Handler :
        /\ hand[h] # Quiet => Mine(h) \in Attempt /\ hand[h].pc # "idle"
        /\ Reserving(h) => dispatches = 0
        /\ At(h, "create") => journal = Torn
        /\ At(h, "sync") => journal = Row("reserved", Mine(h))
        /\ At(h, "send") => journal = Row("reserved", Mine(h)) /\ synced = journal
        /\ hand[h].pc \in {"retain", "verify", "inspect", "keep"} => gateway[Mine(h)] = "success"
        /\ At(h, "keep") => post[Mine(h)] = "exact"
        /\ \A g \in Handler : Reserving(h) /\ Reserving(g) => h = g

\* The file and its durable content tell of the same dispatch.
Fenced ==
    /\ dispatches <= 1
    /\ synced # NoRow => journal # NoRow
    /\ dispatches # 0 => /\ journal.state \in Written /\ synced.state \in Written
                         /\ journal.attempt = synced.attempt
    /\ synced.state \in Known => journal.state \in Known
    /\ \A a \in Attempt : gateway[a] # "idle" => dispatches # 0 /\ synced.attempt = a

\* What the journal knows is what the gateway did.
JournalTrue ==
    /\ \A a \in Attempt : post[a] # "none" => gateway[a] \notin {"idle", "called"}
    /\ \A row \in {journal, synced} :
          /\ row.state \in Known => gateway[row.attempt] = "success"
          /\ row.state = "confirmed" => post[row.attempt] = "exact"
    /\ \A a \in Attempt : sender[a] = "got" => post[a] = "exact"

IInv == TypeOK /\ HandlersSound /\ Fenced /\ JournalTrue
============================================================================
