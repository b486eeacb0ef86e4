------------------------- MODULE ThreadsRelayProofs -------------------------
(***************************************************************************)
(* The relay sends a job at most once, for any number of handlers and of   *)
(* attempts.  IInv is inductive: one lemma per action, four conjuncts each. *)
(* Fenced is why OneDispatch is inductive at all: a reservation that some   *)
(* dispatch relied on is durable, so no handler ever creates the file       *)
(* again; HandlersSound says that until the dispatch its creator alone      *)
(* holds it.                                                                *)
(***************************************************************************)
EXTENDS ThreadsRelay, TLAPS

\* A request to be ready only occupies a handler.
LEMMA ReadyInv ==
  ASSUME IInv, NEW h \in Handler, NEW a \in Attempt, Ready(h, a)
  PROVE  IInv'
<1>1. TypeOK'
  BY RelayAssumption DEF IInv, Ready, Quiet, Begin, TypeOK, HandlersSound, Journal, HandlerState, Kind, Written,
       Survivors, Mine, At, Row, NoRow, Torn
<1>2. HandlersSound'
  BY RelayAssumption DEF IInv, Ready, Quiet, Begin, TypeOK, HandlersSound, Fenced, JournalTrue, Reserving,
       Written, HandlerState, Known, Mine, At, Row, NoRow, Torn
<1>3. Fenced'
  BY RelayAssumption DEF IInv, Ready, Quiet, Begin, TypeOK, HandlersSound, Fenced, JournalTrue, Reserving,
       Journal, Written, Known, Survivors, Mine, At, Row, NoRow, Torn
<1>4. JournalTrue'
  BY RelayAssumption DEF IInv, Ready, Quiet, Begin, TypeOK, HandlersSound, Fenced, JournalTrue, Known, Journal,
       Written, Survivors, Mine, At, Row, NoRow, Torn
<1> QED
  BY <1>1, <1>2, <1>3, <1>4 DEF IInv

\* What a request finds decides what its handler may do next.
LEMMA ReceiveInv ==
  ASSUME IInv, NEW h \in Handler, NEW a \in Attempt, NEW kind \in {"publish", "receipt"}, Receive(h, a, kind)
  PROVE  IInv'
<1>1. TypeOK'
  BY RelayAssumption DEF IInv, Receive, Quiet, NoRow, Begin, Row, Serve, TypeOK, HandlersSound, Journal,
       HandlerState, Kind, Written, Survivors, Mine, At, Torn
<1>2. HandlersSound'
  BY RelayAssumption DEF IInv, Receive, Quiet, NoRow, Begin, Row, Serve, TypeOK, HandlersSound, Fenced,
       JournalTrue, Reserving, Written, HandlerState, Known, Mine, At, Torn
<1>3. Fenced'
  BY RelayAssumption DEF IInv, Receive, Quiet, NoRow, Begin, Row, Serve, TypeOK, HandlersSound, Fenced,
       JournalTrue, Reserving, Journal, Written, Known, Survivors, Mine, At, Torn
<1>4. JournalTrue'
  BY RelayAssumption DEF IInv, Receive, Quiet, NoRow, Begin, Row, Serve, TypeOK, HandlersSound, Fenced,
       JournalTrue, Known, Journal, Written, Survivors, Mine, At, Torn
<1> QED
  BY <1>1, <1>2, <1>3, <1>4 DEF IInv

\* The reply to a ready request changes no more than the sender.
LEMMA IsReadyInv ==
  ASSUME IInv, NEW h \in Handler, IsReady(h)
  PROVE  IInv'
<1>1. TypeOK'
  BY RelayAssumption DEF IInv, IsReady, At, Finish, Mine, Quiet, TypeOK, HandlersSound, Journal, HandlerState,
       Kind, Written, Survivors, Row, NoRow, Torn
<1>2. HandlersSound'
  BY RelayAssumption DEF IInv, IsReady, At, Finish, Mine, Quiet, TypeOK, HandlersSound, Fenced, JournalTrue,
       Reserving, Written, HandlerState, Known, Row, NoRow, Torn
<1>3. Fenced'
  BY RelayAssumption DEF IInv, IsReady, At, Finish, Mine, Quiet, TypeOK, HandlersSound, Fenced, JournalTrue,
       Reserving, Journal, Written, Known, Survivors, Row, NoRow, Torn
<1>4. JournalTrue'
  BY RelayAssumption DEF IInv, IsReady, At, Finish, Mine, Quiet, TypeOK, HandlersSound, Fenced, JournalTrue,
       Known, Journal, Written, Survivors, Row, NoRow, Torn
<1> QED
  BY <1>1, <1>2, <1>3, <1>4 DEF IInv

\* Only the creator of the file starts to reserve; before it there was no dispatch.
LEMMA ReserveInv ==
  ASSUME IInv, NEW h \in Handler, Reserve(h)
  PROVE  IInv'
<1>1. TypeOK'
  BY RelayAssumption DEF IInv, Reserve, At, NoRow, Torn, Goto, Row, Mine, Serve, Finish, Quiet, TypeOK,
       HandlersSound, Journal, HandlerState, Kind, Written, Survivors
<1>2. HandlersSound'
  BY RelayAssumption DEF IInv, Reserve, At, NoRow, Torn, Goto, Row, Mine, Serve, Finish, Quiet, TypeOK,
       HandlersSound, Fenced, JournalTrue, Reserving, Written, HandlerState, Known
<1>3. Fenced'
  BY RelayAssumption DEF IInv, Reserve, At, NoRow, Torn, Goto, Row, Mine, Serve, Finish, Quiet, TypeOK,
       HandlersSound, Fenced, JournalTrue, Reserving, Journal, Written, Known, Survivors
<1>4. JournalTrue'
  BY RelayAssumption DEF IInv, Reserve, At, NoRow, Torn, Goto, Row, Mine, Serve, Finish, Quiet, TypeOK,
       HandlersSound, Fenced, JournalTrue, Known, Journal, Written, Survivors
<1> QED
  BY <1>1, <1>2, <1>3, <1>4 DEF IInv

\* The creator alone fills the file.
LEMMA FillInv ==
  ASSUME IInv, NEW h \in Handler, Fill(h)
  PROVE  IInv'
<1>1. TypeOK'
  BY RelayAssumption DEF IInv, Fill, At, Goto, Row, Mine, TypeOK, HandlersSound, Journal, HandlerState, Kind,
       Written, Survivors, Quiet, NoRow, Torn
<1>2. HandlersSound'
  BY RelayAssumption DEF IInv, Fill, At, Goto, Row, Mine, TypeOK, HandlersSound, Fenced, JournalTrue, Reserving,
       Written, HandlerState, Known, Quiet, NoRow, Torn
<1>3. Fenced'
  BY RelayAssumption DEF IInv, Fill, At, Goto, Row, Mine, TypeOK, HandlersSound, Fenced, JournalTrue, Reserving,
       Journal, Written, Known, Survivors, Quiet, NoRow, Torn
<1>4. JournalTrue'
  BY RelayAssumption DEF IInv, Fill, At, Goto, Row, Mine, TypeOK, HandlersSound, Fenced, JournalTrue, Known,
       Journal, Written, Survivors, Quiet, NoRow, Torn
<1> QED
  BY <1>1, <1>2, <1>3, <1>4 DEF IInv

\* A filled reservation becomes durable.
LEMMA SyncReservationInv ==
  ASSUME IInv, NEW h \in Handler, SyncReservation(h)
  PROVE  IInv'
<1>1. TypeOK'
  BY RelayAssumption DEF IInv, SyncReservation, At, Goto, Sync, TypeOK, HandlersSound, Journal, HandlerState,
       Kind, Written, Survivors, Mine, Quiet, Row, NoRow, Torn
<1>2. HandlersSound'
  BY RelayAssumption DEF IInv, SyncReservation, At, Goto, Sync, TypeOK, HandlersSound, Fenced, JournalTrue,
       Reserving, Written, HandlerState, Known, Mine, Quiet, Row, NoRow, Torn
<1>3. Fenced'
  BY RelayAssumption DEF IInv, SyncReservation, At, Goto, Sync, TypeOK, HandlersSound, Fenced, JournalTrue,
       Reserving, Journal, Written, Known, Survivors, Mine, Quiet, Row, NoRow, Torn
<1>4. JournalTrue'
  BY RelayAssumption DEF IInv, SyncReservation, At, Goto, Sync, TypeOK, HandlersSound, Fenced, JournalTrue,
       Known, Journal, Written, Survivors, Mine, Quiet, Row, NoRow, Torn
<1> QED
  BY <1>1, <1>2, <1>3, <1>4 DEF IInv

\* The one dispatch: until now the gateway was never called.
LEMMA DispatchInv ==
  ASSUME IInv, NEW h \in Handler, Dispatch(h)
  PROVE  IInv'
<1>1. TypeOK'
  BY RelayAssumption DEF IInv, Dispatch, At, Goto, Mine, TypeOK, HandlersSound, Journal, HandlerState, Kind,
       Written, Survivors, Quiet, Row, NoRow, Torn
<1>2. HandlersSound'
  BY RelayAssumption DEF IInv, Dispatch, At, Goto, Mine, TypeOK, HandlersSound, Fenced, JournalTrue, Reserving,
       Written, HandlerState, Known, Quiet, Row, NoRow, Torn
<1>3. Fenced'
  BY RelayAssumption DEF IInv, Dispatch, At, Goto, Mine, TypeOK, HandlersSound, Fenced, JournalTrue, Reserving,
       Journal, Written, Known, Survivors, Quiet, Row, NoRow, Torn
<1>4. JournalTrue'
  <2>1. dispatches = 0 /\ journal = Row("reserved", Mine(h)) /\ synced = journal
    BY DEF IInv, HandlersSound, Dispatch, Reserving, At
  <2>2. \A b \in Attempt : gateway[b] = "idle" /\ post[b] = "none"
    BY <2>1 DEF IInv, TypeOK, Fenced, JournalTrue
  <2>3. journal'.state = "reserved" /\ synced'.state = "reserved"
    BY <2>1 DEF Dispatch, Row
  <2>4. \A b \in Attempt : sender'[b] # "got"
    BY <2>2 DEF IInv, JournalTrue, Dispatch
  <2>5. UNCHANGED post
    BY DEF Dispatch
  <2>6. \A b \in Attempt : post'[b] = "none"
    BY <2>2, <2>5
  <2> QED
    BY <2>3, <2>4, <2>6 DEF JournalTrue, Known
<1> QED
  BY <1>1, <1>2, <1>3, <1>4 DEF IInv

\* An id is kept of a call that the gateway reports as a success.
LEMMA AcceptInv ==
  ASSUME IInv, NEW h \in Handler, Accept(h)
  PROVE  IInv'
<1>1. TypeOK'
  BY RelayAssumption DEF IInv, Accept, At, Mine, Persist, Goto, Row, TypeOK, HandlersSound, Journal,
       HandlerState, Kind, Written, Survivors, Quiet, NoRow, Torn
<1>2. HandlersSound'
  BY RelayAssumption DEF IInv, Accept, At, Mine, Persist, Goto, Row, TypeOK, HandlersSound, Fenced, JournalTrue,
       Reserving, Written, HandlerState, Known, Quiet, NoRow, Torn
<1>3. Fenced'
  BY RelayAssumption DEF IInv, Accept, At, Mine, Persist, Goto, Row, TypeOK, HandlersSound, Fenced, JournalTrue,
       Reserving, Journal, Written, Known, Survivors, Quiet, NoRow, Torn
<1>4. JournalTrue'
  BY RelayAssumption DEF IInv, Accept, At, Mine, Persist, Goto, Row, TypeOK, HandlersSound, Fenced, JournalTrue,
       Known, Journal, Written, Survivors, Quiet, NoRow, Torn
<1> QED
  BY <1>1, <1>2, <1>3, <1>4 DEF IInv

\* The kept id becomes durable.
LEMMA RetainInv ==
  ASSUME IInv, NEW h \in Handler, Retain(h)
  PROVE  IInv'
<1>1. TypeOK'
  BY RelayAssumption DEF IInv, Retain, At, Goto, Sync, TypeOK, HandlersSound, Journal, HandlerState, Kind,
       Written, Survivors, Mine, Quiet, Row, NoRow, Torn
<1>2. HandlersSound'
  BY RelayAssumption DEF IInv, Retain, At, Goto, Sync, TypeOK, HandlersSound, Fenced, JournalTrue, Reserving,
       Written, HandlerState, Known, Mine, Quiet, Row, NoRow, Torn
<1>3. Fenced'
  BY RelayAssumption DEF IInv, Retain, At, Goto, Sync, TypeOK, HandlersSound, Fenced, JournalTrue, Reserving,
       Journal, Written, Known, Survivors, Mine, Quiet, Row, NoRow, Torn
<1>4. JournalTrue'
  BY RelayAssumption DEF IInv, Retain, At, Goto, Sync, TypeOK, HandlersSound, Fenced, JournalTrue, Known,
       Journal, Written, Survivors, Mine, Quiet, Row, NoRow, Torn
<1> QED
  BY <1>1, <1>2, <1>3, <1>4 DEF IInv

\* A recovery goes on to the list of activities.
LEMMA RecoverInv ==
  ASSUME IInv, NEW h \in Handler, Recover(h)
  PROVE  IInv'
<1>1. TypeOK'
  BY RelayAssumption DEF IInv, Recover, At, Goto, TypeOK, HandlersSound, Journal, HandlerState, Kind, Written,
       Survivors, Mine, Quiet, Row, NoRow, Torn
<1>2. HandlersSound'
  BY RelayAssumption DEF IInv, Recover, At, Goto, TypeOK, HandlersSound, Fenced, JournalTrue, Reserving, Written,
       HandlerState, Known, Mine, Quiet, Row, NoRow, Torn
<1>3. Fenced'
  BY RelayAssumption DEF IInv, Recover, At, Goto, TypeOK, HandlersSound, Fenced, JournalTrue, Reserving, Journal,
       Written, Known, Survivors, Mine, Quiet, Row, NoRow, Torn
<1>4. JournalTrue'
  BY RelayAssumption DEF IInv, Recover, At, Goto, TypeOK, HandlersSound, Fenced, JournalTrue, Known, Journal,
       Written, Survivors, Mine, Quiet, Row, NoRow, Torn
<1> QED
  BY <1>1, <1>2, <1>3, <1>4 DEF IInv

\* A verification goes on to the post.
LEMMA VerifyInv ==
  ASSUME IInv, NEW h \in Handler, Verify(h)
  PROVE  IInv'
<1>1. TypeOK'
  BY RelayAssumption DEF IInv, Verify, At, Goto, TypeOK, HandlersSound, Journal, HandlerState, Kind, Written,
       Survivors, Mine, Quiet, Row, NoRow, Torn
<1>2. HandlersSound'
  BY RelayAssumption DEF IInv, Verify, At, Goto, TypeOK, HandlersSound, Fenced, JournalTrue, Reserving, Written,
       HandlerState, Known, Mine, Quiet, Row, NoRow, Torn
<1>3. Fenced'
  BY RelayAssumption DEF IInv, Verify, At, Goto, TypeOK, HandlersSound, Fenced, JournalTrue, Reserving, Journal,
       Written, Known, Survivors, Mine, Quiet, Row, NoRow, Torn
<1>4. JournalTrue'
  BY RelayAssumption DEF IInv, Verify, At, Goto, TypeOK, HandlersSound, Fenced, JournalTrue, Known, Journal,
       Written, Survivors, Mine, Quiet, Row, NoRow, Torn
<1> QED
  BY <1>1, <1>2, <1>3, <1>4 DEF IInv

\* The journal confirms a post that was read back.
LEMMA InspectInv ==
  ASSUME IInv, NEW h \in Handler, Inspect(h)
  PROVE  IInv'
<1>1. TypeOK'
  BY RelayAssumption DEF IInv, Inspect, At, Mine, Goto, Persist, Row, TypeOK, HandlersSound, Journal,
       HandlerState, Kind, Written, Survivors, Quiet, NoRow, Torn
<1>2. HandlersSound'
  BY RelayAssumption DEF IInv, Inspect, At, Mine, Goto, Persist, Row, TypeOK, HandlersSound, Fenced, JournalTrue,
       Reserving, Written, HandlerState, Known, Quiet, NoRow, Torn
<1>3. Fenced'
  BY RelayAssumption DEF IInv, Inspect, At, Mine, Goto, Persist, Row, TypeOK, HandlersSound, Fenced, JournalTrue,
       Reserving, Journal, Written, Known, Survivors, Quiet, NoRow, Torn
<1>4. JournalTrue'
  BY RelayAssumption DEF IInv, Inspect, At, Mine, Goto, Persist, Row, TypeOK, HandlersSound, Fenced, JournalTrue,
       Known, Journal, Written, Survivors, Quiet, NoRow, Torn
<1> QED
  BY <1>1, <1>2, <1>3, <1>4 DEF IInv

\* The confirmed receipt is durable and served.
LEMMA KeepInv ==
  ASSUME IInv, NEW h \in Handler, Keep(h)
  PROVE  IInv'
<1>1. TypeOK'
  BY RelayAssumption DEF IInv, Keep, At, Sync, Serve, Mine, Finish, Quiet, TypeOK, HandlersSound, Journal,
       HandlerState, Kind, Written, Survivors, Row, NoRow, Torn
<1>2. HandlersSound'
  BY RelayAssumption DEF IInv, Keep, At, Sync, Serve, Mine, Finish, Quiet, TypeOK, HandlersSound, Fenced,
       JournalTrue, Reserving, Written, HandlerState, Known, Row, NoRow, Torn
<1>3. Fenced'
  BY RelayAssumption DEF IInv, Keep, At, Sync, Serve, Mine, Finish, Quiet, TypeOK, HandlersSound, Fenced,
       JournalTrue, Reserving, Journal, Written, Known, Survivors, Row, NoRow, Torn
<1>4. JournalTrue'
  BY RelayAssumption DEF IInv, Keep, At, Sync, Serve, Mine, Finish, Quiet, TypeOK, HandlersSound, Fenced,
       JournalTrue, Known, Journal, Written, Survivors, Row, NoRow, Torn
<1> QED
  BY <1>1, <1>2, <1>3, <1>4 DEF IInv

\* A handler that ends leaves the files alone.
LEMMA FailInv ==
  ASSUME IInv, NEW h \in Handler, Fail(h)
  PROVE  IInv'
<1>1. TypeOK'
  BY RelayAssumption DEF IInv, Fail, Quiet, Finish, TypeOK, HandlersSound, Journal, HandlerState, Kind, Written,
       Survivors, Mine, At, Row, NoRow, Torn
<1>2. HandlersSound'
  BY RelayAssumption DEF IInv, Fail, Quiet, Finish, TypeOK, HandlersSound, Fenced, JournalTrue, Reserving,
       Written, HandlerState, Known, Mine, At, Row, NoRow, Torn
<1>3. Fenced'
  BY RelayAssumption DEF IInv, Fail, Quiet, Finish, TypeOK, HandlersSound, Fenced, JournalTrue, Reserving,
       Journal, Written, Known, Survivors, Mine, At, Row, NoRow, Torn
<1>4. JournalTrue'
  BY RelayAssumption DEF IInv, Fail, Quiet, Finish, TypeOK, HandlersSound, Fenced, JournalTrue, Known, Journal,
       Written, Survivors, Mine, At, Row, NoRow, Torn
<1> QED
  BY <1>1, <1>2, <1>3, <1>4 DEF IInv

\* The sender asks.
LEMMA PublishInv ==
  ASSUME IInv, NEW a \in Attempt, Publish(a)
  PROVE  IInv'
<1>1. TypeOK'
  BY RelayAssumption DEF IInv, Publish, TypeOK, HandlersSound, Journal, HandlerState, Kind, Written, Survivors,
       Mine, Quiet, At, Row, NoRow, Torn
<1>2. HandlersSound'
  BY RelayAssumption DEF IInv, Publish, TypeOK, HandlersSound, Fenced, JournalTrue, Reserving, Written,
       HandlerState, Known, Mine, Quiet, At, Row, NoRow, Torn
<1>3. Fenced'
  BY RelayAssumption DEF IInv, Publish, TypeOK, HandlersSound, Fenced, JournalTrue, Reserving, Journal, Written,
       Known, Survivors, Mine, Quiet, At, Row, NoRow, Torn
<1>4. JournalTrue'
  BY RelayAssumption DEF IInv, Publish, TypeOK, HandlersSound, Fenced, JournalTrue, Known, Journal, Written,
       Survivors, Mine, Quiet, At, Row, NoRow, Torn
<1> QED
  BY <1>1, <1>2, <1>3, <1>4 DEF IInv

\* The sender falls back to the receipt.
LEMMA FallBackInv ==
  ASSUME IInv, NEW a \in Attempt, FallBack(a)
  PROVE  IInv'
<1>1. TypeOK'
  BY RelayAssumption DEF IInv, FallBack, TypeOK, HandlersSound, Journal, HandlerState, Kind, Written, Survivors,
       Mine, Quiet, At, Row, NoRow, Torn
<1>2. HandlersSound'
  BY RelayAssumption DEF IInv, FallBack, TypeOK, HandlersSound, Fenced, JournalTrue, Reserving, Written,
       HandlerState, Known, Mine, Quiet, At, Row, NoRow, Torn
<1>3. Fenced'
  BY RelayAssumption DEF IInv, FallBack, TypeOK, HandlersSound, Fenced, JournalTrue, Reserving, Journal, Written,
       Known, Survivors, Mine, Quiet, At, Row, NoRow, Torn
<1>4. JournalTrue'
  BY RelayAssumption DEF IInv, FallBack, TypeOK, HandlersSound, Fenced, JournalTrue, Known, Journal, Written,
       Survivors, Mine, Quiet, At, Row, NoRow, Torn
<1> QED
  BY <1>1, <1>2, <1>3, <1>4 DEF IInv

\* The gateway answers a call it has got.
LEMMA GatewayRunsInv ==
  ASSUME IInv, NEW a \in Attempt, GatewayRuns(a)
  PROVE  IInv'
<1>1. TypeOK'
  BY RelayAssumption DEF IInv, GatewayRuns, TypeOK, HandlersSound, Journal, HandlerState, Kind, Written,
       Survivors, Mine, Quiet, At, Row, NoRow, Torn
<1>2. HandlersSound'
  BY RelayAssumption DEF IInv, GatewayRuns, TypeOK, HandlersSound, Fenced, JournalTrue, Reserving, Written,
       HandlerState, Known, Mine, Quiet, At, Row, NoRow, Torn
<1>3. Fenced'
  BY RelayAssumption DEF IInv, GatewayRuns, TypeOK, HandlersSound, Fenced, JournalTrue, Reserving, Journal,
       Written, Known, Survivors, Mine, Quiet, At, Row, NoRow, Torn
<1>4. JournalTrue'
  BY RelayAssumption DEF IInv, GatewayRuns, TypeOK, HandlersSound, Fenced, JournalTrue, Known, Journal, Written,
       Survivors, Mine, Quiet, At, Row, NoRow, Torn
<1> QED
  BY <1>1, <1>2, <1>3, <1>4 DEF IInv

\* Another account signs in.
LEMMA SignInInv ==
  ASSUME IInv, SignIn
  PROVE  IInv'
<1>1. TypeOK'
  BY RelayAssumption DEF IInv, SignIn, TypeOK, HandlersSound, Journal, HandlerState, Kind, Written, Survivors,
       Mine, Quiet, At, Row, NoRow, Torn
<1>2. HandlersSound'
  BY RelayAssumption DEF IInv, SignIn, TypeOK, HandlersSound, Fenced, JournalTrue, Reserving, Written,
       HandlerState, Known, Mine, Quiet, At, Row, NoRow, Torn
<1>3. Fenced'
  BY RelayAssumption DEF IInv, SignIn, TypeOK, HandlersSound, Fenced, JournalTrue, Reserving, Journal, Written,
       Known, Survivors, Mine, Quiet, At, Row, NoRow, Torn
<1>4. JournalTrue'
  BY RelayAssumption DEF IInv, SignIn, TypeOK, HandlersSound, Fenced, JournalTrue, Known, Journal, Written,
       Survivors, Mine, Quiet, At, Row, NoRow, Torn
<1> QED
  BY <1>1, <1>2, <1>3, <1>4 DEF IInv

\* The journal survives a loss of power as its synced content, or as a later one.
LEMMA PowerLossInv ==
  ASSUME IInv, PowerLoss
  PROVE  IInv'
<1>1. TypeOK'
  BY RelayAssumption DEF IInv, PowerLoss, Survivors, Quiet, Torn, Row, TypeOK, HandlersSound, Journal,
       HandlerState, Kind, Written, Mine, At, NoRow
<1>2. HandlersSound'
  BY RelayAssumption DEF IInv, PowerLoss, Survivors, Quiet, Torn, Row, TypeOK, HandlersSound, Fenced,
       JournalTrue, Reserving, Written, HandlerState, Known, Mine, At, NoRow
<1>3. Fenced'
  BY RelayAssumption DEF IInv, PowerLoss, Survivors, Quiet, Torn, Row, TypeOK, HandlersSound, Fenced,
       JournalTrue, Reserving, Journal, Written, Known, Mine, At, NoRow
<1>4. JournalTrue'
  BY RelayAssumption DEF IInv, PowerLoss, Survivors, Quiet, Torn, Row, TypeOK, HandlersSound, Fenced,
       JournalTrue, Known, Journal, Written, Mine, At, NoRow
<1> QED
  BY <1>1, <1>2, <1>3, <1>4 DEF IInv
----------------------------------------------------------------------------
(* The theorems *)

\* Nothing is reserved and nothing dispatched at first.
LEMMA InvInit == Init => IInv
<1> SUFFICES ASSUME Init PROVE IInv
  OBVIOUS
<1>1. TypeOK
  BY RelayAssumption DEF Init, TypeOK, Journal, HandlerState, NoRow, Row, Quiet, Kind
<1>2. HandlersSound
  BY DEF Init, HandlersSound, Reserving, At, Mine, Quiet
<1>3. Fenced
  BY DEF Init, Fenced, NoRow, Row, Known
<1>4. JournalTrue
  BY DEF Init, JournalTrue, NoRow, Row, Known
<1> QED
  BY <1>1, <1>2, <1>3, <1>4 DEF IInv

\* Every step of the relay, its callers and its surroundings keeps IInv.
LEMMA InvStep == IInv /\ [Next]_vars => IInv'
<1> SUFFICES ASSUME IInv, [Next]_vars PROVE IInv'
  OBVIOUS
<1>1. ASSUME NEW h \in Handler, Asks(h) PROVE IInv'
  BY <1>1, ReadyInv, ReceiveInv DEF Asks
<1>2. ASSUME NEW h \in Handler, Works(h) PROVE IInv'
  <2>1. CASE IsReady(h)
    BY <2>1, IsReadyInv
  <2>2. CASE Reserve(h)
    BY <2>2, ReserveInv
  <2>3. CASE Fill(h)
    BY <2>3, FillInv
  <2>4. CASE SyncReservation(h)
    BY <2>4, SyncReservationInv
  <2>5. CASE Dispatch(h)
    BY <2>5, DispatchInv
  <2>6. CASE Accept(h)
    BY <2>6, AcceptInv
  <2>7. CASE Retain(h)
    BY <2>7, RetainInv
  <2>8. CASE Recover(h)
    BY <2>8, RecoverInv
  <2>9. CASE Verify(h)
    BY <2>9, VerifyInv
  <2>10. CASE Inspect(h)
    BY <2>10, InspectInv
  <2>11. CASE Keep(h)
    BY <2>11, KeepInv
  <2> QED
    BY <1>2, <2>1, <2>2, <2>3, <2>4, <2>5, <2>6, <2>7, <2>8, <2>9, <2>10, <2>11 DEF Works
<1>3. ASSUME NEW h \in Handler, Fail(h) PROVE IInv'
  BY <1>3, FailInv
<1>4. ASSUME NEW a \in Attempt, Publish(a) \/ FallBack(a) \/ GatewayRuns(a) PROVE IInv'
  BY <1>4, PublishInv, FallBackInv, GatewayRunsInv
<1>5. CASE SignIn
  BY <1>5, SignInInv
<1>6. CASE PowerLoss
  BY <1>6, PowerLossInv
<1>7. CASE UNCHANGED vars
  <2>1. TypeOK'
    BY <1>7 DEF IInv, TypeOK, vars
  <2>2. HandlersSound'
    BY <1>7 DEF IInv, HandlersSound, Reserving, At, Mine, vars
  <2>3. Fenced'
    BY <1>7 DEF IInv, Fenced, vars
  <2>4. JournalTrue'
    BY <1>7 DEF IInv, JournalTrue, vars
  <2> QED
    BY <2>1, <2>2, <2>3, <2>4 DEF IInv
<1> QED
  BY <1>1, <1>2, <1>3, <1>4, <1>5, <1>6, <1>7 DEF Next

\* The inductive invariant that the runs check holds for every instance.
THEOREM Invariance == Spec => []IInv
<1> QED
  BY InvInit, InvStep, PTL DEF Spec

\* Every variable of the relay keeps its type.
THEOREM TypeCorrect == Spec => []TypeOK
<1>1. IInv => TypeOK
  BY DEF IInv
<1> QED
  BY <1>1, Invariance, PTL

\* However many relay processes, requests and attempts there are, the gateway
\* is asked to publish the job at most once.
THEOREM SendsOnce == Spec => []OneDispatch
<1>1. IInv => OneDispatch
  BY DEF IInv, Fenced, OneDispatch
<1> QED
  BY <1>1, Invariance, PTL

\* The reservation of what was dispatched is durable.
THEOREM DispatchesAreFenced == Spec => []DispatchIsFenced
<1>1. IInv => DispatchIsFenced
  BY DEF IInv, Fenced, DispatchIsFenced
<1> QED
  BY <1>1, Invariance, PTL

\* No receipt is served of a post that is not the approved one.
THEOREM ReceiptsTrue == Spec => []ReceiptsAreTrue
<1>1. IInv => ReceiptsAreTrue
  <2> SUFFICES ASSUME IInv, NEW a \in Attempt, sender[a] = "got" \/ journal = Row("confirmed", a)
               PROVE  post[a] = "exact"
    BY DEF ReceiptsAreTrue
  <2>1. CASE sender[a] = "got"
    BY <2>1 DEF IInv, JournalTrue
  <2>2. CASE journal = Row("confirmed", a)
    BY <2>2 DEF IInv, JournalTrue, Row
  <2> QED
    BY <2>1, <2>2
<1> QED
  BY <1>1, Invariance, PTL

\* An id that is safely on disk stays there, through every loss of power.
THEOREM IdsAreKept == Spec => IdIsKept
<1> DEFINE Keeps ==
      synced.state \in {"accepted", "confirmed"} =>
          /\ synced'.state \in {"accepted", "confirmed"}
          /\ synced'.attempt = synced.attempt
<1>1. IInv /\ IInv' /\ [Next]_vars => [Keeps]_vars
  <2> SUFFICES ASSUME IInv, IInv', Next, synced.state \in Known
               PROVE  synced'.state \in Known /\ synced'.attempt = synced.attempt
    BY DEF Known
  <2>1. PICK a \in Attempt : gateway[a] = "success" /\ synced.attempt = a
    BY RelayAssumption DEF IInv, TypeOK, JournalTrue, Journal, Known, NoRow, Torn, Row
  <2>2. journal.state \in Known /\ journal.attempt = a
    BY <2>1 DEF IInv, Fenced
  <2>3. ASSUME NEW h \in Handler, Asks(h) \/ Works(h) \/ Fail(h)
        PROVE  synced' \in {synced, journal}
    BY <2>3 DEF Asks, Works, Ready, Receive, IsReady, Reserve, Fill, SyncReservation, Dispatch,
                Accept, Retain, Recover, Verify, Inspect, Keep, Fail, Persist, Sync
  <2>4. ASSUME NEW b \in Attempt, Publish(b) \/ FallBack(b) \/ GatewayRuns(b)
        PROVE  synced' = synced
    BY <2>4 DEF Publish, FallBack, GatewayRuns
  <2>5. SignIn => synced' = synced
    BY DEF SignIn
  <2>6. PowerLoss => synced' \in {synced, journal}
    BY <2>2 DEF PowerLoss, Survivors, Known
  <2>7. synced' \in {synced, journal}
    BY <2>3, <2>4, <2>5, <2>6 DEF Next
  <2> QED
    BY <2>1, <2>2, <2>7
<1> QED
  BY <1>1, Invariance, PTL DEF Spec, IdIsKept
============================================================================
