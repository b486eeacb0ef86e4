-------------------------- MODULE SchedulerProofs --------------------------
(***************************************************************************)
(* Safety of the scheduler, for any tenants, rows, leases, intents, pages  *)
(* and schedulers side by side.  A tick asks for a refresh only where it   *)
(* has just seen none under way, so that each scheduler adds one at most;  *)
(* and it asks for a fetch under a cursor that was current once, so that a *)
(* key which is still unknown is the one that is due.                      *)
(***************************************************************************)
EXTENDS Scheduler, FiniteSetTheorems, SequenceTheorems, TLAPS

----------------------------------------------------------------------------
(* Sequences and sets *)

\* An arrangement of a set is a sequence over it.
LEMMA SeqsOfSet ==
  ASSUME NEW S, IsFiniteSet(S), NEW q \in SetToSeqs(S)
  PROVE  q \in Seq(S)
<1>1. Cardinality(S) \in Nat
  BY FS_CardinalityType
<1>2. q \in [1..Cardinality(S) -> S]
  BY DEF SetToSeqs
<1> QED
  BY <1>1, <1>2

\* A page is a sequence over what the line is made of.
LEMMA FirstOfType ==
  ASSUME NEW S, NEW q \in Seq(S)
  PROVE  FirstOf(q) \in Seq(S)
<1>1. PICK n : n = IF Len(q) < Page THEN Len(q) ELSE Page
  OBVIOUS
<1>2. n \in 0..Len(q)
  BY <1>1, SchedulerAssumption
<1>3. SubSeq(q, 1, n) \in Seq(S)
  BY <1>2
<1> QED
  BY <1>1, <1>3 DEF FirstOf

\* What is left of a line is a line.
LEMMA WithoutType ==
  ASSUME NEW S, NEW q \in Seq(S), NEW x
  PROVE  Without(q, x) \in Seq(S)
<1>1. CASE x \in ToSet(q)
  <2>1. PICK i : i = CHOOSE j \in DOMAIN q : q[j] = x
    OBVIOUS
  <2>2. i \in 1..Len(q)
    BY <1>1, <2>1 DEF ToSet
  <2>3. SubSeq(q, 1, i - 1) \in Seq(S) /\ SubSeq(q, i + 1, Len(q)) \in Seq(S)
    BY <2>2
  <2>4. SubSeq(q, 1, i - 1) \o SubSeq(q, i + 1, Len(q)) \in Seq(S)
    BY <2>3
  <2> QED BY <1>1, <2>1, <2>4 DEF Without, RemoveAt
<1> QED
  BY <1>1 DEF Without

\* A sequence over tenants, rows, leases or intents is one over items.
LEMMA ItemSeqs == Seq(Tenant) \cup Seq(Row) \cup Seq(Lease) \cup Seq(Intent) \subseteq Seq(Item)
BY DEF Item

\* The rest of a list.
LEMMA TailType ==
  ASSUME NEW S, NEW q \in Seq(S), q # <<>>
  PROVE  Head(q) \in S /\ Tail(q) \in Seq(S)
OBVIOUS

\* A key is of one kind.
LEMMA KeyKinds ==
  ASSUME NEW k \in Key
  PROVE  /\ k \in RefreshKey <=> k[1] \in {"fetch", "inventory", "fill"}
         /\ k \in FetchKey <=> k[1] = "fetch"
         /\ k \in InventoryKey <=> k[1] = "inventory"
         /\ k \in FetchKey => k = <<"fetch", k[2], k[3]>> /\ k[2] \in Tenant /\ k[3] \in Nat
         /\ k \in RefreshKey => k \notin PublishKey
BY DEF Key, RefreshKey, FetchKey, InventoryKey, FillKey, PublishKey, ManualKey

----------------------------------------------------------------------------
(* What a step has to keep *)

\* The types of all that is neither a job, a cursor nor a tick.
RestOK ==
    /\ row \in [Row -> Status] /\ at \in [Row -> Day]
    /\ work \in [Tenant -> Work]
    /\ backoff \subseteq Tenant /\ fetchDue \subseteq Tenant
    /\ lapsed \in Seq(Lease) /\ held \subseteq Lease /\ stale \in Seq(Intent)
    /\ down \subseteq Stage /\ faults \in 0..MaxFaults

\* Fewer refreshes under way and fewer asked for are few.
LEMMA FewStay ==
  ASSUME IInv, NEW t \in Tenant, Refreshes(t)' \subseteq Refreshes(t), Asking(t)' \subseteq Asking(t)
  PROVE  Cardinality(Refreshes(t)') + Cardinality(Asking(t)') <= Cardinality(Worker)
<1>1. IsFiniteSet(Refreshes(t)) /\ IsFiniteSet(Asking(t))
  <2>1. Refreshes(t) \in SUBSET live /\ Asking(t) \in SUBSET Worker
    BY DEF Refreshes, Asking
  <2> QED BY <2>1, FS_Subset, SchedulerAssumption DEF IInv
<1>2. /\ Cardinality(Refreshes(t)') <= Cardinality(Refreshes(t))
      /\ Cardinality(Asking(t)') <= Cardinality(Asking(t))
  BY <1>1, FS_Subset
<1>3. /\ Cardinality(Refreshes(t)) \in Nat /\ Cardinality(Asking(t)) \in Nat /\ Cardinality(Worker) \in Nat
      /\ Cardinality(Refreshes(t)') \in Nat /\ Cardinality(Asking(t)') \in Nat
  BY <1>1, FS_Subset, FS_CardinalityType, SchedulerAssumption
<1>4. Cardinality(Refreshes(t)) + Cardinality(Asking(t)) <= Cardinality(Worker)
  BY DEF IInv, RefreshesAreFew
<1> QED
  BY <1>2, <1>3, <1>4

\* Where none is under way each scheduler may ask for one.
LEMMA NoneUnderWay ==
  ASSUME IInv, NEW t \in Tenant, ~Refreshing(t), UNCHANGED live
  PROVE  Cardinality(Refreshes(t)') + Cardinality(Asking(t)') <= Cardinality(Worker)
<1>1. Refreshes(t)' = {}
  BY DEF Refreshes, Refreshing
<1>2. Cardinality(Refreshes(t)') = 0
  BY <1>1, FS_EmptySet
<1>3. Asking(t)' \in SUBSET Worker
  BY DEF Asking
<1>4. Cardinality(Asking(t)') <= Cardinality(Worker) /\ Cardinality(Asking(t)') \in Nat
  BY <1>3, FS_Subset, FS_CardinalityType, SchedulerAssumption
<1> QED
  BY <1>2, <1>4

\* A tick stays sound while cursors are moved on.
LEMMA OthersSound ==
  ASSUME IInv, NEW w \in Worker, tick'[w] = tick[w], round' \in [Tenant -> Nat],
         \A t \in Tenant : round[t] <= round'[t]
  PROVE  TickSound(w)'
<1>1. /\ tick[w] \in Tick /\ round \in [Tenant -> Nat] /\ TickSound(w)
      /\ \A stage : In(w, stage)' <=> In(w, stage)
  BY DEF IInv, TypeOK, In
<1>2. In(w, "fetch") => \A t \in Tenant : tick[w].seen.round[t] <= round'[t]
  <2> SUFFICES ASSUME In(w, "fetch"), NEW t \in Tenant
               PROVE  tick[w].seen.round[t] <= round'[t]
    OBVIOUS
  <2>1. tick[w].seen \in Cursors /\ tick[w].seen.round[t] <= round[t]
    BY <1>1 DEF TickSound
  <2>2. tick[w].seen.round[t] \in Nat
    BY <2>1 DEF Cursors
  <2> QED BY <1>1, <2>1, <2>2
<1>3. tick[w].key \in FetchKey => tick[w].key[3] <= round'[tick[w].key[2]]
  <2> SUFFICES ASSUME tick[w].key \in FetchKey
               PROVE  tick[w].key[3] <= round'[tick[w].key[2]]
    OBVIOUS
  <2>1. tick[w].key[2] \in Tenant /\ tick[w].key[3] \in Nat
    BY DEF FetchKey
  <2> QED BY <1>1, <2>1 DEF TickSound
<1> QED
  BY <1>1, <1>2, <1>3 DEF TickSound

\* One tick moves, and asks for a refresh at most where none is under way.
LEMMA TickKeeps ==
  ASSUME IInv, NEW w \in Worker, NEW n \in Tick, tick' = [tick EXCEPT ![w] = n],
         UNCHANGED <<day, live, over, round>>, RestOK', TickSound(w)',
         n.key \in RefreshKey => n.key = tick[w].key \/ ~Refreshing(n.key[2])
  PROVE  IInv'
<1>1. /\ tick \in [Worker -> Tick] /\ tick'[w] = n /\ round \in [Tenant -> Nat]
      /\ \A v \in Worker \ {w} : tick'[v] = tick[v]
  BY DEF IInv, TypeOK
<1>2. TypeOK'
  BY <1>1 DEF IInv, TypeOK, RestOK
<1>3. RefreshesAreFew'
  <2> SUFFICES ASSUME NEW t \in Tenant
               PROVE  Cardinality(Refreshes(t)') + Cardinality(Asking(t)') <= Cardinality(Worker)
    BY DEF RefreshesAreFew
  <2>1. CASE Refreshing(t)
    <3>1. Refreshes(t)' \subseteq Refreshes(t)
      BY DEF Refreshes
    <3>2. Asking(t)' \subseteq Asking(t)
      <4> SUFFICES ASSUME NEW v \in Asking(t)'
                   PROVE  v \in Asking(t)
        OBVIOUS
      <4>1. v \in Worker /\ tick'[v].key \in RefreshKey /\ ~Known(tick'[v].key) /\ tick'[v].key[2] = t
        BY DEF Asking, Known
      <4>2. tick'[v].key = tick[v].key
        BY <1>1, <2>1, <4>1
      <4> QED BY <4>1, <4>2 DEF Asking
    <3> QED BY <3>1, <3>2, FewStay
  <2> QED BY <2>1, NoneUnderWay
<1>4. EachRoundIsFetched'
  BY DEF IInv, EachRoundIsFetched, Known
<1>5. \A v \in Worker : TickSound(v)'
  BY <1>1, OthersSound
<1> QED
  BY <1>2, <1>3, <1>4, <1>5 DEF IInv

\* The jobs, the queue or the time move, and no tick.
LEMMA WorldKeeps ==
  ASSUME IInv, UNCHANGED <<tick, round>>, day' \in 1..LastDay, RestOK',
         live' \subseteq Key, over' \subseteq Key, IsFiniteSet(live'),
         live \cup over \subseteq live' \cup over',
         \A k \in (live' \cup over') \ (live \cup over) : k \notin FetchKey,
         \A k \in live' \ live : k \notin RefreshKey
  PROVE  IInv'
<1>1. TypeOK'
  BY SchedulerAssumption DEF IInv, TypeOK, RestOK, Day
<1>2. RefreshesAreFew'
  <2> SUFFICES ASSUME NEW t \in Tenant
               PROVE  Cardinality(Refreshes(t)') + Cardinality(Asking(t)') <= Cardinality(Worker)
    BY DEF RefreshesAreFew
  <2>1. Refreshes(t)' \subseteq Refreshes(t) /\ Asking(t)' \subseteq Asking(t)
    BY DEF Refreshes, Asking, Known
  <2> QED BY <2>1, FewStay
<1>3. EachRoundIsFetched'
  <2>1. \A k \in live' \cup over' : k \in FetchKey => k[3] < round[k[2]]
    BY DEF IInv, EachRoundIsFetched
  <2>2. \A t \in Tenant : \A n \in 0..round[t] : n < round[t] => Known(<<"fetch", t, n>>)'
    BY DEF IInv, EachRoundIsFetched, Known
  <2> QED BY <2>1, <2>2 DEF EachRoundIsFetched
<1>4. \A w \in Worker : TickSound(w)'
  BY DEF IInv, TickSound, In
<1> QED
  BY <1>1, <1>2, <1>3, <1>4 DEF IInv

----------------------------------------------------------------------------
(* The moves of a tick *)

\* The first item is done with.
LEMMA DropKeeps ==
  ASSUME IInv, NEW w \in Worker, tick' = Drop(w), tick[w].todo # <<>>,
         UNCHANGED <<day, live, over, round>>, RestOK'
  PROVE  IInv'
<1>1. PICK n : n = [tick[w] EXCEPT !.todo = Tail(tick[w].todo), !.key = None,
                                   !.seen = IF In(w, "fill") THEN None ELSE tick[w].seen]
  OBVIOUS
<1>2. /\ tick \in [Worker -> Tick] /\ tick[w] \in Tick /\ TickSound(w) /\ round \in [Tenant -> Nat]
      /\ None \notin Key /\ FetchKey \subseteq Key
  BY KeyAssumption DEF IInv, TypeOK, Key, RefreshKey
<1>3. Tail(tick[w].todo) \in Seq(Item)
  BY <1>2, TailType DEF Tick
<1>4. /\ n \in Tick /\ n.key = None /\ n.todo = Tail(tick[w].todo) /\ n.stage = tick[w].stage
      /\ n.now = tick[w].now /\ n.seen = IF In(w, "fill") THEN None ELSE tick[w].seen
  BY <1>1, <1>2, <1>3 DEF Tick
<1>5. tick' = [tick EXCEPT ![w] = n] /\ tick'[w] = n
  BY <1>1, <1>2 DEF Drop
<1>6. \A stage : In(w, stage)' <=> In(w, stage)
  BY <1>4, <1>5 DEF In
<1>7. \A S : tick[w].todo \in Seq(S) => n.todo \in Seq(S)
  BY <1>4, TailType
<1>8. ~(In(w, "fetch") /\ In(w, "fill"))
  BY DEF In
<1>9. TickSound(w)'
  BY <1>2, <1>4, <1>5, <1>6, <1>7, <1>8 DEF TickSound
<1>10. n.key \notin RefreshKey
  BY <1>2, <1>4 DEF Key
<1> QED
  BY <1>4, <1>5, <1>9, <1>10, TickKeeps

\* A job is asked for.
LEMMA AskKeeps ==
  ASSUME IInv, NEW w \in Worker, NEW k \in Key, tick' = Ask(w, k), tick[w].todo # <<>>,
         UNCHANGED <<day, live, over, round>>, RestOK',
         k \in FetchKey => k[3] <= round[k[2]],
         k \in RefreshKey => ~Refreshing(k[2])
  PROVE  IInv'
<1>1. PICK n : n = [tick[w] EXCEPT !.key = k]
  OBVIOUS
<1>2. tick \in [Worker -> Tick] /\ tick[w] \in Tick /\ TickSound(w)
  BY DEF IInv, TypeOK
<1>3. /\ n \in Tick /\ n.key = k /\ n.todo = tick[w].todo /\ n.stage = tick[w].stage
      /\ n.now = tick[w].now /\ n.seen = tick[w].seen
  BY <1>1, <1>2 DEF Tick
<1>4. tick' = [tick EXCEPT ![w] = n] /\ tick'[w] = n
  BY <1>1, <1>2 DEF Ask
<1>5. \A stage : In(w, stage)' <=> In(w, stage)
  BY <1>3, <1>4 DEF In
<1>6. TickSound(w)'
  BY <1>2, <1>3, <1>4, <1>5 DEF TickSound
<1> QED
  BY <1>3, <1>4, <1>6, TickKeeps

----------------------------------------------------------------------------
(* A tick goes from stage to stage *)

\* The five stages, by number.
LEMMA StagesAre ==
  /\ Len(Stages) = 5 /\ Stages[1] = "publications" /\ Stages[2] = "jobs" /\ Stages[3] = "fetch"
  /\ Stages[4] = "fill" /\ Stages[5] = "publish"
  /\ Stage = {"publications", "jobs", "fetch", "fill", "publish"}
<1>1. DOMAIN Stages = {1, 2, 3, 4, 5}
  BY DEF Stages
<1> QED
  BY <1>1 DEF Stages, Stage, ToSet

\* What a page holds.
LEMMA PagesType ==
  ASSUME IInv, NEW stage \in Stage, NEW now, NEW page \in {<<>>} \cup Pages(stage, now)
  PROVE  /\ page \in Seq(Item)
         /\ stage = "publications" => page \in Seq(Intent)
         /\ stage = "jobs" => page \in Seq(Lease)
         /\ stage \in {"fetch", "fill"} => page \in Seq(Tenant)
         /\ stage = "publish" => page \in Seq(Row)
<1>1. CASE page = <<>>
  BY <1>1
<1>2. ASSUME page \in Pages(stage, now), stage = "publications"
      PROVE  page \in Seq(Intent)
  <2>1. page = FirstOf(stale) /\ stale \in Seq(Intent)
    BY <1>2 DEF Pages, IInv, TypeOK
  <2> QED BY <2>1, FirstOfType
<1>3. ASSUME page \in Pages(stage, now), stage = "jobs"
      PROVE  page \in Seq(Lease)
  <2>1. page = FirstOf(lapsed) /\ lapsed \in Seq(Lease)
    BY <1>3 DEF Pages, IInv, TypeOK
  <2> QED BY <2>1, FirstOfType
<1>4. ASSUME page \in Pages(stage, now), stage \in {"fetch", "fill"}
      PROVE  page \in Seq(Tenant)
  <2>1. page \in SetToSeqs(Tenant \ Off)
    BY <1>4 DEF Pages
  <2>2. IsFiniteSet(Tenant \ Off)
    BY FS_Subset, SchedulerAssumption
  <2>3. page \in Seq(Tenant \ Off)
    BY <2>1, <2>2, SeqsOfSet
  <2> QED BY <2>3
<1>5. ASSUME page \in Pages(stage, now), stage = "publish"
      PROVE  page \in Seq(Row)
  <2>1. PICK q \in SetToSeqs(Due(now)) : page = FirstOf(q)
    BY <1>5 DEF Pages
  <2>2. Due(now) \in SUBSET Row
    BY DEF Due
  <2>3. IsFiniteSet(Due(now))
    BY <2>2, FS_Subset, SchedulerAssumption
  <2>4. q \in Seq(Due(now))
    BY <2>3, SeqsOfSet
  <2>5. q \in Seq(Row)
    BY <2>2, <2>4
  <2> QED BY <2>1, <2>5, FirstOfType
<1>6. page \in Pages(stage, now) => page \in Seq(Tenant) \cup Seq(Row) \cup Seq(Lease) \cup Seq(Intent)
  BY <1>2, <1>3, <1>4, <1>5, StagesAre
<1> QED
  BY <1>1, <1>2, <1>3, <1>4, <1>5, <1>6, ItemSeqs

\* A stage is entered with its page; the fetch stage with the cursors of this moment.
LEMMA EnterKeeps ==
  ASSUME IInv, NEW w \in Worker, NEW i \in 1..Len(Stages), NEW now \in 1..LastDay,
         NEW page \in IF Stages[i] \in down THEN {<<>>} ELSE Pages(Stages[i], now),
         NEW n, n.stage = i, n.now = now, n.todo = page, n.key = None,
         n.seen = IF Stages[i] = "fetch" THEN [due |-> fetchDue, round |-> round] ELSE None,
         n = [stage |-> n.stage, now |-> n.now, todo |-> n.todo, seen |-> n.seen, key |-> n.key],
         tick' = [tick EXCEPT ![w] = n],
         UNCHANGED <<day, live, over, round, row, at, work, backoff, fetchDue, lapsed, held, stale, down, faults>>
  PROVE  IInv'
<1>1. /\ tick \in [Worker -> Tick] /\ round \in [Tenant -> Nat] /\ fetchDue \subseteq Tenant /\ RestOK'
      /\ None \notin Key /\ FetchKey \subseteq Key /\ RefreshKey \subseteq Key
  BY KeyAssumption DEF IInv, TypeOK, RestOK, Key, RefreshKey
<1>2. Stages[i] \in Stage /\ i \in 1..5
  BY StagesAre
<1>3. /\ page \in Seq(Item)
      /\ Stages[i] = "publications" => page \in Seq(Intent)
      /\ Stages[i] = "jobs" => page \in Seq(Lease)
      /\ Stages[i] \in {"fetch", "fill"} => page \in Seq(Tenant)
      /\ Stages[i] = "publish" => page \in Seq(Row)
  BY <1>2, PagesType
<1>4. Stages[i] = "fetch" => n.seen = [due |-> fetchDue, round |-> round] /\ n.seen \in Cursors
  BY <1>1 DEF Cursors
<1>5. n \in Tick
  <2>1. n.seen \in Cursors \cup Plan \cup {None} /\ n.stage \in 0..Len(Stages) /\ n.now \in 0..LastDay + 1
    BY <1>2, <1>4, StagesAre, SchedulerAssumption
  <2> QED BY <1>3, <2>1 DEF Tick
<1>6. tick'[w] = n
  BY <1>1
<1>7. \A stage : In(w, stage)' <=> Stages[i] = stage
  BY <1>2, <1>6 DEF In
<1>8. TickSound(w)'
  <2>1. \A t \in Tenant : round[t] <= round[t]
    BY <1>1
  <2> QED BY <1>1, <1>3, <1>4, <1>6, <1>7, <2>1 DEF TickSound
<1> QED
  BY <1>1, <1>5, <1>8, TickKeeps

\* Nothing is left to do, or nothing was begun.
LEMMA IdleKeeps ==
  ASSUME IInv, NEW w \in Worker, tick' = [tick EXCEPT ![w] = Idle],
         UNCHANGED <<day, live, over, round, row, at, work, backoff, fetchDue, lapsed, held, stale, down, faults>>
  PROVE  IInv'
<1>1. tick \in [Worker -> Tick] /\ RestOK' /\ None \notin Key /\ FetchKey \subseteq Key /\ RefreshKey \subseteq Key
  BY KeyAssumption DEF IInv, TypeOK, RestOK, Key, RefreshKey
<1>2. Idle \in Tick /\ Idle.stage = 0 /\ Idle.key = None
  BY SchedulerAssumption, StagesAre DEF Idle, Tick
<1>3. tick'[w] = Idle
  BY <1>1
<1>4. TickSound(w)'
  BY <1>1, <1>2, <1>3 DEF TickSound, In
<1> QED
  BY <1>1, <1>2, <1>4, TickKeeps

\* A tick begins, and fixes its clock.
LEMMA BeginKeeps ==
  ASSUME IInv, NEW w \in Worker, Begin(w)
  PROVE  IInv'
<1>1. PICK page \in IF Stages[1] \in down THEN {<<>>} ELSE Pages(Stages[1], day) :
           tick' = [tick EXCEPT ![w] = [Idle EXCEPT !.stage = 1, !.now = day, !.todo = page]]
  BY DEF Begin
<1>2. PICK n : n = [Idle EXCEPT !.stage = 1, !.now = day, !.todo = page]
  OBVIOUS
<1>3. /\ n.stage = 1 /\ n.now = day /\ n.todo = page /\ n.key = None /\ n.seen = None
      /\ n = [stage |-> n.stage, now |-> n.now, todo |-> n.todo, seen |-> n.seen, key |-> n.key]
  BY <1>2 DEF Idle
<1>4. day \in 1..LastDay /\ 1 \in 1..Len(Stages) /\ Stages[1] # "fetch"
  BY SchedulerAssumption, StagesAre DEF IInv, TypeOK, Day
<1>5. UNCHANGED <<day, live, over, round, row, at, work, backoff, fetchDue, lapsed, held, stale, down, faults>>
  BY DEF Begin, queueVars, recoveryVars
<1> QED
  BY ZenonT(60), <1>1, <1>2, <1>3, <1>4, <1>5, EnterKeeps

\* The next stage, or the end.
LEMMA NextStageKeeps ==
  ASSUME IInv, NEW w \in Worker, NextStage(w)
  PROVE  IInv'
<1>1. /\ tick[w] \in Tick /\ TickSound(w) /\ tick[w].stage # 0 /\ tick[w].todo = <<>>
      /\ UNCHANGED <<day, live, over, round, row, at, work, backoff, fetchDue, lapsed, held, stale, down, faults>>
  BY DEF IInv, TypeOK, NextStage, queueVars, recoveryVars
<1>2. CASE tick' = [tick EXCEPT ![w] = Idle]
  BY <1>1, <1>2, IdleKeeps
<1>3. CASE tick[w].stage # Len(Stages)
  <2>1. PICK i : i = tick[w].stage + 1
    OBVIOUS
  <2>2. i \in 1..Len(Stages) /\ tick[w].now \in 1..LastDay /\ tick[w].key = None
    <3>1. tick[w].stage \in 0..5 /\ tick[w].stage # 0 /\ tick[w].stage # 5
      BY <1>1, <1>3, StagesAre DEF Tick
    <3> QED BY <1>1, <2>1, <3>1, StagesAre DEF TickSound
  <2>3. PICK page \in IF Stages[i] \in down THEN {<<>>} ELSE Pages(Stages[i], tick[w].now) :
           tick' = [tick EXCEPT ![w] = [tick[w] EXCEPT !.stage = i, !.todo = page,
                       !.seen = IF Stages[i] = "fetch" THEN [due |-> fetchDue, round |-> round] ELSE None]]
    BY <1>3, <2>1 DEF NextStage
  <2>4. PICK n : n = [tick[w] EXCEPT !.stage = i, !.todo = page,
                       !.seen = IF Stages[i] = "fetch" THEN [due |-> fetchDue, round |-> round] ELSE None]
    OBVIOUS
  <2>5. /\ n.stage = i /\ n.now = tick[w].now /\ n.todo = page /\ n.key = None
        /\ n.seen = IF Stages[i] = "fetch" THEN [due |-> fetchDue, round |-> round] ELSE None
        /\ n = [stage |-> n.stage, now |-> n.now, todo |-> n.todo, seen |-> n.seen, key |-> n.key]
    BY <1>1, <2>2, <2>4 DEF Tick
  <2>6. tick' = [tick EXCEPT ![w] = n]
    BY <2>3, <2>4
  <2>7. PICK now \in 1..LastDay : now = tick[w].now
    BY <2>2
  <2>8. page \in IF Stages[i] \in down THEN {<<>>} ELSE Pages(Stages[i], now)
    BY <2>3, <2>7
  <2> QED BY <1>1, <2>2, <2>5, <2>6, <2>7, <2>8, EnterKeeps
<1> QED
  BY <1>2, <1>3 DEF NextStage

----------------------------------------------------------------------------
(* Recovery *)

\* An item is passed over.
LEMMA ItemFailsKeeps ==
  ASSUME IInv, NEW w \in Worker, ItemFails(w)
  PROVE  IInv'
<1>1. /\ tick[w].todo # <<>> /\ tick' = Drop(w)
      /\ UNCHANGED <<day, live, over, round, row, at, work, backoff, fetchDue, lapsed, held, stale, down>>
      /\ faults \in 0..MaxFaults /\ (faults' = faults \/ (faults < MaxFaults /\ faults' = faults + 1))
  BY DEF IInv, TypeOK, ItemFails, queueVars, recoveryVars
<1>2. RestOK'
  BY <1>1, SchedulerAssumption DEF IInv, TypeOK, RestOK
<1> QED
  BY <1>1, <1>2, DropKeeps

\* A publication is settled.
LEMMA ReconcileKeeps ==
  ASSUME IInv, NEW w \in Worker, Reconcile(w)
  PROVE  IInv'
<1>1. /\ tick[w].todo # <<>> /\ tick' = Drop(w) /\ stale' = Without(stale, Cur(w)) /\ stale \in Seq(Intent)
      /\ UNCHANGED <<day, live, over, round, row, at, work, backoff, fetchDue, lapsed, held, down, faults>>
  BY DEF IInv, TypeOK, Reconcile, At, queueVars
<1>2. stale' \in Seq(Intent)
  BY <1>1, WithoutType
<1>3. RestOK'
  BY <1>1, <1>2 DEF IInv, TypeOK, RestOK
<1> QED
  BY <1>1, <1>3, DropKeeps

\* A lapsed job is recovered, or its lease begins anew.
LEMMA RecoverKeeps ==
  ASSUME IInv, NEW w \in Worker, Recover(w)
  PROVE  IInv'
<1>1. PICK l : l = Cur(w)
  OBVIOUS
<1>2. /\ tick[w].todo # <<>> /\ tick' = Drop(w) /\ lapsed \in Seq(Lease) /\ held \subseteq Lease
      /\ lapsed' \in {lapsed, Without(lapsed, l)} /\ held' \in {held, held \cup {l}}
      /\ UNCHANGED <<day, live, over, round, row, at, work, backoff, fetchDue, stale, down, faults>>
      /\ In(w, "jobs") /\ TickSound(w)
  BY <1>1 DEF IInv, TypeOK, Recover, At, queueVars
<1>3. l \in Lease
  BY <1>1, <1>2, TailType DEF TickSound, Cur
<1>4. lapsed' \in Seq(Lease) /\ held' \subseteq Lease
  BY <1>2, <1>3, WithoutType
<1>5. RestOK'
  BY <1>2, <1>4 DEF IInv, TypeOK, RestOK
<1> QED
  BY <1>2, <1>5, DropKeeps

----------------------------------------------------------------------------
(* What is due *)

\* A fetch is asked for where no refresh is under way, with the cursor that was read.
LEMMA CheckFetchKeeps ==
  ASSUME IInv, NEW w \in Worker, CheckFetch(w)
  PROVE  IInv'
<1>1. PICK t : t = Cur(w)
  OBVIOUS
<1>2. /\ tick[w].todo # <<>> /\ In(w, "fetch") /\ TickSound(w) /\ RestOK'
      /\ UNCHANGED <<day, live, over, round, row, at, work, backoff, fetchDue, lapsed, held, stale, down, faults>>
  BY DEF IInv, TypeOK, RestOK, CheckFetch, At, queueVars, recoveryVars
<1>3. t \in Tenant /\ tick[w].seen \in Cursors /\ tick[w].seen.round[t] <= round[t]
  BY <1>1, <1>2, TailType DEF TickSound, Cur
<1>4. PICK k : k = <<"fetch", t, tick[w].seen.round[t]>>
  OBVIOUS
<1>5. k \in FetchKey /\ k \in Key /\ k[2] = t /\ k[3] <= round[k[2]]
  BY <1>3, <1>4 DEF Cursors, FetchKey, Key, RefreshKey
<1>6. tick' = Drop(w) \/ (tick' = Ask(w, k) /\ ~Refreshing(t))
  BY <1>1, <1>4 DEF CheckFetch
<1> QED
  BY <1>2, <1>5, <1>6, DropKeeps, AskKeeps

\* The queue is read, and a plan made.
LEMMA PlanFillKeeps ==
  ASSUME IInv, NEW w \in Worker, PlanFill(w)
  PROVE  IInv'
<1>1. /\ tick[w].todo # <<>> /\ tick[w].key = None /\ In(w, "fill") /\ TickSound(w) /\ RestOK'
      /\ UNCHANGED <<day, live, over, round, row, at, work, backoff, fetchDue, lapsed, held, stale, down, faults>>
      /\ tick \in [Worker -> Tick] /\ tick[w] \in Tick
  BY DEF IInv, TypeOK, RestOK, PlanFill, At, queueVars, recoveryVars
<1>2. CASE tick' = Drop(w)
  BY <1>1, <1>2, DropKeeps
<1>3. CASE tick' = [tick EXCEPT ![w] = [tick[w] EXCEPT !.seen = [rows |-> Active(Cur(w))]]]
  <2>1. PICK seen : seen = [rows |-> Active(Cur(w))]
    OBVIOUS
  <2>2. PICK n : n = [tick[w] EXCEPT !.seen = seen]
    OBVIOUS
  <2>3. seen \in Plan
    BY <2>1 DEF Plan, Active
  <2>4. /\ n \in Tick /\ n.key = tick[w].key /\ n.todo = tick[w].todo /\ n.stage = tick[w].stage
        /\ n.now = tick[w].now /\ n.seen = seen
    BY <1>1, <2>2, <2>3 DEF Tick
  <2>5. tick' = [tick EXCEPT ![w] = n] /\ tick'[w] = n
    BY <1>1, <1>3, <2>1, <2>2
  <2>6. /\ \A stage : In(w, stage)' <=> In(w, stage)
        /\ \A stage : In(w, stage) => stage = "fill"
    BY <1>1, <2>4, <2>5 DEF In
  <2>7. TickSound(w)'
    BY <1>1, <2>3, <2>4, <2>5, <2>6 DEF TickSound
  <2> QED BY <1>1, <2>4, <2>5, <2>7, TickKeeps
<1> QED
  BY <1>2, <1>3 DEF PlanFill

\* A fill is asked for where no refresh is under way.
LEMMA CheckFillKeeps ==
  ASSUME IInv, NEW w \in Worker, CheckFill(w)
  PROVE  IInv'
<1>1. PICK t, k : t = Cur(w) /\ k = FillOf(t, tick[w].now, tick[w].seen.rows)
  OBVIOUS
<1>2. /\ tick[w].todo # <<>> /\ In(w, "fill") /\ TickSound(w) /\ RestOK' /\ tick[w].seen # None /\ tick[w].stage # 0
      /\ UNCHANGED <<day, live, over, round, row, at, work, backoff, fetchDue, lapsed, held, stale, down, faults>>
  BY DEF IInv, TypeOK, RestOK, CheckFill, At, In, queueVars, recoveryVars
<1>3. /\ t \in Tenant /\ tick[w].seen \in Plan /\ tick[w].now \in 1..LastDay
  BY <1>1, <1>2, TailType DEF TickSound, Cur
<1>4. k \in InventoryKey \cup FillKey /\ k[2] = t
  <2>1. /\ tick[w].seen.rows \in SUBSET Row /\ tick[w].now \in Day /\ tick[w].now + 1 \in Day
        /\ (work[t] = "angles") \in BOOLEAN
    BY <1>3, SchedulerAssumption DEF Plan, Day
  <2> QED BY <1>1, <1>3, <2>1 DEF FillOf, InventoryKey, FillKey
<1>5. k \in Key /\ k \notin FetchKey
  BY <1>4 DEF Key, RefreshKey, InventoryKey, FillKey, FetchKey
<1>6. tick' = Drop(w) \/ (tick' = Ask(w, k) /\ ~Refreshing(t))
  BY <1>1 DEF CheckFill
<1> QED
  BY <1>2, <1>4, <1>5, <1>6, DropKeeps, AskKeeps

\* A post is asked for, or its paused recovery skipped.
LEMMA CheckPublishKeeps ==
  ASSUME IInv, NEW w \in Worker, CheckPublish(w)
  PROVE  IInv'
<1>1. PICK r, k : r = Cur(w) /\ k = <<"publish", r, at[r]>>
  OBVIOUS
<1>2. /\ tick[w].todo # <<>> /\ In(w, "publish") /\ TickSound(w)
      /\ row' \in {row, [row EXCEPT ![r] = "skipped"]} /\ row \in [Row -> Status] /\ at \in [Row -> Day]
      /\ UNCHANGED <<day, live, over, round, at, work, backoff, fetchDue, lapsed, held, stale, down, faults>>
  BY <1>1 DEF IInv, TypeOK, CheckPublish, At, recoveryVars
<1>3. r \in Row
  BY <1>1, <1>2, TailType DEF TickSound, Cur
<1>4. row' \in [Row -> Status]
  BY <1>2 DEF Status
<1>5. RestOK'
  BY <1>2, <1>4 DEF IInv, TypeOK, RestOK
<1>6. k \in PublishKey /\ k \in Key /\ k \notin FetchKey /\ k \notin RefreshKey
  BY <1>1, <1>2, <1>3 DEF Day, PublishKey, Key, RefreshKey, FetchKey, InventoryKey, FillKey
<1>7. tick' = Drop(w) \/ tick' = Ask(w, k)
  BY <1>1 DEF CheckPublish
<1> QED
  BY <1>2, <1>5, <1>6, <1>7, DropKeeps, AskKeeps

----------------------------------------------------------------------------
(* The queue takes a job *)

\* A scheduler that asked for a refresh asks no longer once the queue has it.
LEMMA RefreshIsTaken ==
  ASSUME IInv, NEW w \in Worker, NEW t \in Tenant, NEW k, k = tick[w].key, k \in RefreshKey, k[2] = t,
         ~Known(k), live' = live \cup {k}, UNCHANGED over, tick' \in {tick, Drop(w)}
  PROVE  Cardinality(Refreshes(t)') + Cardinality(Asking(t)') <= Cardinality(Worker)
<1>1. IsFiniteSet(Refreshes(t)) /\ IsFiniteSet(Asking(t))
  <2>1. Refreshes(t) \in SUBSET live /\ Asking(t) \in SUBSET Worker
    BY DEF Refreshes, Asking
  <2> QED BY <2>1, FS_Subset, SchedulerAssumption DEF IInv
<1>2. Refreshes(t)' = Refreshes(t) \cup {k} /\ k \notin Refreshes(t)
  BY DEF Refreshes, Known
<1>3. w \in Asking(t) /\ Asking(t)' \subseteq Asking(t) \ {w}
  <2>1. w \in Asking(t)
    BY DEF Asking
  <2>2. tick \in [Worker -> Tick] /\ tick[w] \in Tick /\ None \notin RefreshKey
    BY KeyAssumption DEF IInv, TypeOK, Key
  <2>3. \A v \in Worker : tick'[v].key \in {tick[v].key, None}
    BY ZenonT(60), <2>2 DEF Drop, Tick
  <2>4. ASSUME NEW v \in Asking(t)'
        PROVE  v \in Asking(t) \ {w}
    <3>1. v \in Worker /\ tick'[v].key \in RefreshKey /\ tick'[v].key \notin live' \cup over' /\ tick'[v].key[2] = t
      BY <2>4 DEF Asking, Known
    <3>2. tick'[v].key = tick[v].key
      BY <2>2, <2>3, <3>1
    <3> QED BY <3>1, <3>2 DEF Asking, Known
  <2> QED BY <2>1, <2>4
<1>4. Cardinality(Refreshes(t)') = Cardinality(Refreshes(t)) + 1
  BY ZenonT(60), <1>1, <1>2, FS_AddElement
<1>5. /\ Cardinality(Asking(t) \ {w}) = Cardinality(Asking(t)) - 1
      /\ IsFiniteSet(Asking(t) \ {w})
  BY <1>1, <1>3, FS_RemoveElement
<1>6. Cardinality(Asking(t)') <= Cardinality(Asking(t)) - 1 /\ Cardinality(Asking(t)') \in Nat
  BY <1>3, <1>5, FS_Subset, FS_CardinalityType
<1>7. Cardinality(Refreshes(t)) \in Nat /\ Cardinality(Asking(t)) \in Nat /\ Cardinality(Worker) \in Nat
  BY <1>1, FS_CardinalityType, SchedulerAssumption
<1>8. Cardinality(Refreshes(t)) + Cardinality(Asking(t)) <= Cardinality(Worker)
  BY DEF IInv, RefreshesAreFew
<1> QED
  BY <1>4, <1>6, <1>7, <1>8

\* The key of a fetch that is new names the round that is due.
LEMMA EnqueueKeeps ==
  ASSUME IInv, NEW w \in Worker, Enqueue(w)
  PROVE  IInv'
<1>1. PICK k : k = tick[w].key
  OBVIOUS
<1>2. PICK new \in BOOLEAN : new = (~Known(k) /\ ~Refused(k))
  OBVIOUS
<1>3. PICK fetch \in BOOLEAN : fetch = (new /\ k \in FetchKey)
  OBVIOUS
<1>4. /\ k # None /\ tick' \in {tick, Drop(w)} /\ TickSound(w) /\ tick \in [Worker -> Tick] /\ tick[w] \in Tick
      /\ UNCHANGED <<day, row, at, work, backoff, over, lapsed, held, stale, down>>
      /\ faults \in 0..MaxFaults /\ (faults' = faults \/ (faults < MaxFaults /\ faults' = faults + 1))
      /\ round \in [Tenant -> Nat] /\ fetchDue \subseteq Tenant /\ live \subseteq Key /\ over \subseteq Key
      /\ IsFiniteSet(live)
  BY <1>1 DEF IInv, TypeOK, Enqueue, recoveryVars
<1>5. /\ live' = IF new THEN live \cup {k} ELSE live
      /\ round' = IF fetch THEN [round EXCEPT ![k[2]] = round[k[2]] + 1] ELSE round
      /\ fetchDue' = IF fetch THEN fetchDue \ {k[2]} ELSE fetchDue
  BY <1>1, <1>2, <1>3 DEF Enqueue, Admit
<1>6. k \in Key /\ tick[w].todo # <<>>
  BY <1>1, <1>4 DEF Tick, TickSound
<1>7. /\ k \in FetchKey => /\ k = <<"fetch", k[2], k[3]>> /\ k[2] \in Tenant /\ k[3] \in Nat
                           /\ k[3] <= round[k[2]]
  BY <1>1, <1>4, <1>6, KeyKinds DEF TickSound
<1>8. live' \subseteq Key /\ IsFiniteSet(live') /\ live \subseteq live'
  <2>1. IsFiniteSet(live \cup {k})
    BY <1>4, FS_AddElement
  <2>2. live' = live \/ live' = live \cup {k}
    BY <1>5
  <2> QED BY <1>4, <1>6, <2>1, <2>2
<1>9. round' \in [Tenant -> Nat] /\ \A t \in Tenant : round[t] <= round'[t]
  <2>1. CASE fetch
    <3>1. round' = [round EXCEPT ![k[2]] = round[k[2]] + 1] /\ k[2] \in Tenant /\ round[k[2]] \in Nat
      BY <1>3, <1>4, <1>5, <1>7, <2>1
    <3> QED BY <1>4, <3>1
  <2>2. CASE ~fetch
    BY <1>4, <1>5, <2>2
  <2> QED BY <2>1, <2>2
<1>10. RestOK'
  BY <1>4, <1>5, SchedulerAssumption DEF IInv, TypeOK, RestOK
<1>11. /\ tick' \in [Worker -> Tick] /\ \A v \in Worker \ {w} : tick'[v] = tick[v]
       /\ \A v \in Worker : tick'[v].key \in {tick[v].key, None}
       /\ TickSound(w)'
  <2>1. CASE tick' = tick
    BY <1>4, <1>9, <2>1, OthersSound
  <2>2. CASE tick' = Drop(w)
    <3>1. PICK n : n = [tick[w] EXCEPT !.todo = Tail(tick[w].todo), !.key = None,
                                       !.seen = IF In(w, "fill") THEN None ELSE tick[w].seen]
      OBVIOUS
    <3>2. Tail(tick[w].todo) \in Seq(Item)
      BY <1>4, <1>6, TailType DEF Tick
    <3>3. /\ n \in Tick /\ n.key = None /\ n.todo = Tail(tick[w].todo) /\ n.stage = tick[w].stage
          /\ n.now = tick[w].now /\ n.seen = IF In(w, "fill") THEN None ELSE tick[w].seen
      BY <1>4, <3>1, <3>2 DEF Tick
    <3>4. tick' = [tick EXCEPT ![w] = n] /\ tick'[w] = n
      BY <1>4, <2>2, <3>1 DEF Drop
    <3>5. \A stage : In(w, stage)' <=> In(w, stage)
      BY <3>3, <3>4 DEF In
    <3>6. \A S : tick[w].todo \in Seq(S) => n.todo \in Seq(S)
      BY <1>6, <3>3, TailType
    <3>7. None \notin FetchKey
      BY KeyAssumption DEF Key, RefreshKey
    <3>8. In(w, "fetch") => n.seen = tick[w].seen /\ \A t \in Tenant : n.seen.round[t] <= round'[t]
      <4> SUFFICES ASSUME In(w, "fetch")
                   PROVE  n.seen = tick[w].seen /\ \A t \in Tenant : n.seen.round[t] <= round'[t]
        OBVIOUS
      <4>1. n.seen = tick[w].seen /\ n.seen \in Cursors /\ \A t \in Tenant : n.seen.round[t] <= round[t]
        BY <1>4, <3>3 DEF TickSound, In
      <4>2. \A t \in Tenant : n.seen.round[t] \in Nat
        BY <4>1 DEF Cursors
      <4> QED BY <1>4, <1>9, <4>1, <4>2
    <3>9. TickSound(w)'
      BY <1>4, <3>3, <3>4, <3>5, <3>6, <3>7, <3>8 DEF TickSound
    <3> QED BY <1>4, <3>3, <3>4, <3>9
  <2> QED BY <1>4, <2>1, <2>2
<1>12. TypeOK'
  BY <1>4, <1>8, <1>9, <1>10, <1>11 DEF IInv, TypeOK, RestOK
<1>13. RefreshesAreFew'
  <2> SUFFICES ASSUME NEW t \in Tenant
               PROVE  Cardinality(Refreshes(t)') + Cardinality(Asking(t)') <= Cardinality(Worker)
    BY DEF RefreshesAreFew
  <2>1. CASE new /\ k \in RefreshKey /\ k[2] = t
    <3>1. ~Known(k) /\ live' = live \cup {k} /\ UNCHANGED over
      BY <1>2, <1>4, <1>5, <2>1
    <3> QED BY <1>1, <1>4, <2>1, <3>1, RefreshIsTaken
  <2>2. CASE ~(new /\ k \in RefreshKey /\ k[2] = t)
    <3>1. Refreshes(t)' \subseteq Refreshes(t)
      BY <1>5, <2>2 DEF Refreshes
    <3>2. Asking(t)' \subseteq Asking(t)
      <4> SUFFICES ASSUME NEW v \in Asking(t)'
                   PROVE  v \in Asking(t)
        OBVIOUS
      <4>1. v \in Worker /\ tick'[v].key \in RefreshKey /\ tick'[v].key \notin live' \cup over'
            /\ tick'[v].key[2] = t
        BY DEF Asking, Known
      <4>2. tick'[v].key = tick[v].key
        BY <1>11, <4>1, KeyAssumption DEF Key
      <4> QED BY <1>4, <1>8, <4>1, <4>2 DEF Asking, Known
    <3> QED BY <3>1, <3>2, FewStay
  <2> QED BY <2>1, <2>2
<1>14. EachRoundIsFetched'
  <2>1. /\ \A q \in live \cup over : q \in FetchKey => q[3] < round[q[2]]
        /\ \A t \in Tenant : \A m \in 0..round[t] : m < round[t] => Known(<<"fetch", t, m>>)
    BY DEF IInv, EachRoundIsFetched
  <2>2. ASSUME NEW q \in live' \cup over', q \in FetchKey
        PROVE  q[3] < round'[q[2]]
    <3>1. q[2] \in Tenant /\ q[3] \in Nat
      BY <2>2 DEF FetchKey
    <3>2. CASE q \in live \cup over
      BY <1>4, <1>9, <2>1, <2>2, <3>1, <3>2
    <3>3. CASE q \notin live \cup over
      <4>1. q = k /\ fetch
        BY <1>3, <1>4, <1>5, <2>2, <3>3
      <4> QED BY <1>4, <1>5, <1>7, <2>2, <3>1, <4>1
    <3> QED BY <3>2, <3>3
  <2>3. ASSUME NEW t \in Tenant, NEW m \in 0..round'[t], m < round'[t]
        PROVE  <<"fetch", t, m>> \in live' \cup over'
    <3>1. CASE m < round[t]
      BY <1>4, <1>8, <2>1, <2>3, <3>1 DEF Known
    <3>2. CASE ~(m < round[t])
      <4>1. fetch /\ k[2] = t /\ m = round[t]
        BY <1>4, <1>5, <1>7, <1>9, <2>3, <3>2
      <4>2. ~Known(k) /\ k \in FetchKey /\ new
        BY <1>2, <1>3, <4>1
      <4>3. k[3] = round[t]
        BY <1>4, <1>7, <2>1, <4>1, <4>2
      <4> QED BY <1>5, <1>7, <4>1, <4>2, <4>3
    <3> QED BY <3>1, <3>2
  <2> QED BY <2>2, <2>3 DEF EachRoundIsFetched, Known
<1>15. \A v \in Worker : TickSound(v)'
  BY <1>9, <1>11, OthersSound
<1> QED
  BY <1>4, <1>8, <1>12, <1>13, <1>14, <1>15 DEF IInv

----------------------------------------------------------------------------
(* Jobs end, people act, time passes *)

\* A job that has ended is still known.
LEMMA EndsKeeps ==
  ASSUME IInv, NEW k \in live, Ends(k), UNCHANGED <<tick, round, day>>, RestOK'
  PROVE  IInv'
<1>1. /\ live' = live \ {k} /\ over' = over \cup {k} /\ live \subseteq Key /\ over \subseteq Key
      /\ IsFiniteSet(live) /\ day \in 1..LastDay
  BY SchedulerAssumption DEF Ends, IInv, TypeOK, Day
<1>2. IsFiniteSet(live')
  BY <1>1, FS_RemoveElement
<1> QED
  BY <1>1, <1>2, WorldKeeps

\* A refresh has drafted something, or nothing.
LEMMA RefreshEndsKeeps ==
  ASSUME IInv, RefreshEnds
  PROVE  IInv'
<1>1. PICK k \in live, t \in Tenant :
        /\ Drafts(t, IF k \in InventoryKey THEN {k[3]} ELSE {day, day + 1}) \/ DraftsNothing(t)
        /\ Ends(k) /\ UNCHANGED <<day, fetchDue, round, recoveryVars, down, faults, tick>>
  BY DEF RefreshEnds
<1>2. PICK days : days = IF k \in InventoryKey THEN {k[3]} ELSE {day, day + 1}
  OBVIOUS
<1>3. days \subseteq Day
  BY <1>2, SchedulerAssumption DEF IInv, TypeOK, InventoryKey, Day
<1>4. row \in [Row -> Status] /\ at \in [Row -> Day] /\ work \in [Tenant -> Work] /\ backoff \subseteq Tenant
  BY DEF IInv, TypeOK
<1>5. row' \in [Row -> Status] /\ at' \in [Row -> Day] /\ work' \in [Tenant -> Work] /\ backoff' \subseteq Tenant
  <2>1. PICK left \in Work : work' = [work EXCEPT ![t] = left]
    BY <1>1 DEF Drafts, DraftsNothing
  <2>2. work' \in [Tenant -> Work]
    BY <1>4, <2>1
  <2>3. CASE Drafts(t, days)
    <3>1. PICK r \in Row, d \in days : row' = [row EXCEPT ![r] = "ready"] /\ at' = [at EXCEPT ![r] = d]
      BY <2>3 DEF Drafts
    <3>2. UNCHANGED backoff /\ d \in Day /\ "ready" \in Status
      BY <1>3, <2>3 DEF Drafts, Status
    <3> QED BY <1>4, <2>2, <3>1, <3>2
  <2>4. CASE DraftsNothing(t)
    BY <1>4, <2>2, <2>4 DEF DraftsNothing
  <2> QED BY <1>1, <1>2, <2>3, <2>4
<1>6. RestOK'
  BY <1>1, <1>5 DEF IInv, TypeOK, RestOK, recoveryVars
<1> QED
  BY <1>1, <1>6, EndsKeeps

\* A post is out, or has failed.
LEMMA PublishEndsKeeps ==
  ASSUME IInv, PublishEnds
  PROVE  IInv'
<1>1. PICK k \in live, r \in Row :
        /\ row' \in {row, [row EXCEPT ![r] = "published"], [row EXCEPT ![r] = "failed"]}
        /\ Ends(k) /\ UNCHANGED <<day, at, work, backoff, fetchDue, round, recoveryVars, down, faults, tick>>
  BY DEF PublishEnds
<1>2. RestOK'
  BY <1>1 DEF IInv, TypeOK, RestOK, recoveryVars, Status
<1> QED
  BY <1>1, <1>2, EndsKeeps

\* A person's job is no scheduled refresh.
LEMMA StartKeeps ==
  ASSUME IInv, NEW x \in Manual, Start(x)
  PROVE  IInv'
<1>1. PICK k : k = <<"manual", x>>
  OBVIOUS
<1>2. k \in Key /\ k \notin RefreshKey /\ k \notin FetchKey
  BY <1>1 DEF Key, ManualKey, RefreshKey, FetchKey, InventoryKey, FillKey
<1>3. /\ live' = live \cup {k} /\ live \subseteq Key /\ over \subseteq Key /\ IsFiniteSet(live) /\ day \in 1..LastDay
      /\ UNCHANGED <<day, row, at, work, backoff, fetchDue, round, over, lapsed, held, stale, down, faults, tick>>
  BY <1>1, SchedulerAssumption DEF Start, IInv, TypeOK, Day, recoveryVars
<1>4. IsFiniteSet(live') /\ live' \subseteq Key
  BY <1>2, <1>3, FS_AddElement
<1>5. RestOK'
  BY <1>3 DEF IInv, TypeOK, RestOK
<1> QED
  BY <1>2, <1>3, <1>4, <1>5, WorldKeeps

\* The steps that touch no job: a row is moved, a day, a cursor, a pause or a lease ends.
LEMMA TimeKeeps ==
  ASSUME IInv,
         \/ \E r \in Row : Reschedule(r)
         \/ NewDay
         \/ \E t \in Tenant : FetchFallsDue(t) \/ BackoffEnds(t)
         \/ \E l \in Lease : Lapse(l)
  PROVE  IInv'
<1>1. UNCHANGED <<tick, round, live, over>> /\ live \subseteq Key /\ over \subseteq Key /\ IsFiniteSet(live)
  BY DEF IInv, TypeOK, Reschedule, NewDay, FetchFallsDue, BackoffEnds, Lapse, queueVars
<1>2. day' \in 1..LastDay
  BY SchedulerAssumption DEF IInv, TypeOK, Day, Reschedule, NewDay, FetchFallsDue, BackoffEnds, Lapse
<1>3. RestOK'
  <2>1. ASSUME NEW r \in Row, Reschedule(r)
        PROVE  RestOK'
    <3>1. PICK d \in (at[r] + 1)..LastDay : at' = [at EXCEPT ![r] = d]
      BY <2>1 DEF Reschedule
    <3>2. at \in [Row -> Day] /\ at[r] \in Day
      BY DEF IInv, TypeOK
    <3>3. d \in Day
      BY <3>2, SchedulerAssumption DEF Day
    <3>4. at' \in [Row -> Day]
      BY <3>1, <3>2, <3>3
    <3> QED BY <2>1, <3>4 DEF IInv, TypeOK, RestOK, Reschedule, recoveryVars
  <2>2. CASE NewDay
    BY <2>2 DEF IInv, TypeOK, RestOK, NewDay, queueVars, recoveryVars
  <2>3. ASSUME NEW t \in Tenant, FetchFallsDue(t) \/ BackoffEnds(t)
        PROVE  RestOK'
    BY <2>3 DEF IInv, TypeOK, RestOK, FetchFallsDue, BackoffEnds, recoveryVars
  <2>4. ASSUME NEW l \in Lease, Lapse(l)
        PROVE  RestOK'
    <3>1. lapsed' \in Seq(Lease) /\ held' \subseteq Lease
      BY <2>4 DEF IInv, TypeOK, Lapse
    <3> QED BY <2>4, <3>1 DEF IInv, TypeOK, RestOK, Lapse, queueVars
  <2> QED BY <2>1, <2>2, <2>3, <2>4
<1> QED
  BY <1>1, <1>2, <1>3, WorldKeeps

----------------------------------------------------------------------------
(* The theorems *)

\* Whatever queue, cursors, leases and intents a scheduler finds when it is first started.
LEMMA InitIsSound == Init => IInv
<1> SUFFICES ASSUME Init
             PROVE  IInv
  OBVIOUS
<1>1. /\ Idle \in Tick /\ Idle.stage = 0 /\ Idle.key = None
  BY SchedulerAssumption, StagesAre DEF Idle, Tick
<1>2. None \notin RefreshKey /\ None \notin FetchKey
  BY KeyAssumption DEF Key, RefreshKey
<1>3. stale \in Seq(Intent)
  <2>1. PICK left \in SUBSET Intent : stale \in SetToSeqs(left)
    BY DEF Init
  <2>2. IsFiniteSet(left)
    BY FS_Subset, SchedulerAssumption
  <2>3. stale \in Seq(left)
    BY <2>1, <2>2, SeqsOfSet
  <2> QED BY <2>3
<1>4. round \in [Tenant -> Nat] /\ \A t \in Tenant : round[t] \in 0..LastRound
  BY SchedulerAssumption DEF Init
<1>5. over \subseteq Key
  BY SchedulerAssumption DEF Init, Key, RefreshKey, FetchKey
<1>6. TypeOK
  BY <1>1, <1>3, <1>4, <1>5, SchedulerAssumption DEF Init, TypeOK, Day
<1>7. RefreshesAreFew
  <2> SUFFICES ASSUME NEW t \in Tenant
               PROVE  Cardinality(Refreshes(t)) + Cardinality(Asking(t)) <= Cardinality(Worker)
    BY DEF RefreshesAreFew
  <2>1. Refreshes(t) = {} /\ Asking(t) = {}
    BY <1>1, <1>2 DEF Init, Refreshes, Asking
  <2> QED BY <2>1, FS_EmptySet, FS_CardinalityType, SchedulerAssumption
<1>8. EachRoundIsFetched
  <2>1. \A k \in live \cup over : k \in FetchKey => k[3] < round[k[2]]
    BY DEF Init
  <2>2. ASSUME NEW t \in Tenant, NEW n \in 0..round[t], n < round[t]
        PROVE  <<"fetch", t, n>> \in over
    BY <1>4, <2>2, SchedulerAssumption DEF Init
  <2> QED BY <2>1, <2>2 DEF EachRoundIsFetched, Known
<1>9. day <= LastDay /\ IsFiniteSet(live)
  BY SchedulerAssumption, FS_EmptySet DEF Init
<1>10. \A w \in Worker : TickSound(w)
  BY <1>1, <1>2 DEF Init, TickSound, In
<1> QED
  BY <1>6, <1>7, <1>8, <1>9, <1>10 DEF IInv

\* Types, refreshes, rounds, and what a tick has read of the past
\* (supabase-worker.ts runSupabaseAutomationScheduler).
THEOREM SchedulerInvariance == Spec => []IInv
<1>1. Init => IInv
  BY InitIsSound
<1>2. IInv /\ [Next]_vars => IInv'
  <2> SUFFICES ASSUME IInv, [Next]_vars
               PROVE  IInv'
    OBVIOUS
  <2>1. ASSUME NEW w \in Worker, TickStep(w)
        PROVE  IInv'
    BY <2>1, BeginKeeps, NextStageKeeps, ItemFailsKeeps, ReconcileKeeps, RecoverKeeps, CheckFetchKeeps,
       PlanFillKeeps, CheckFillKeeps, CheckPublishKeeps, EnqueueKeeps DEF TickStep
  <2>2. CASE RefreshEnds \/ PublishEnds
    BY <2>2, RefreshEndsKeeps, PublishEndsKeeps
  <2>3. ASSUME NEW x \in Manual, Start(x)
        PROVE  IInv'
    BY <2>3, StartKeeps
  <2>4. CASE \/ \E r \in Row : Reschedule(r)
             \/ NewDay
             \/ \E t \in Tenant : FetchFallsDue(t) \/ BackoffEnds(t)
             \/ \E l \in Lease : Lapse(l)
    BY <2>4, TimeKeeps
  <2>5. CASE UNCHANGED vars
    <3>1. /\ UNCHANGED <<day, row, at, work, backoff, fetchDue, round, live, over, lapsed, held, stale, down, faults, tick>>
          /\ live \subseteq Key /\ over \subseteq Key /\ IsFiniteSet(live) /\ day \in 1..LastDay
      BY <2>5, SchedulerAssumption DEF vars, queueVars, recoveryVars, IInv, TypeOK, Day
    <3>2. RestOK'
      BY <3>1 DEF IInv, TypeOK, RestOK
    <3> QED BY <3>1, <3>2, WorldKeeps
  <2> QED BY <2>1, <2>2, <2>3, <2>4, <2>5 DEF Next
<1> QED
  BY <1>1, <1>2, PTL DEF Spec

\* A tenant never has more scheduled refreshes drafting or about to be enqueued than there
\* are schedulers side by side (hasPendingOrRunningFetch, before every enqueue of the kind).
THEOREM RefreshesStayFew == Spec => []RefreshesAreFew
<1>1. IInv => RefreshesAreFew
  BY DEF IInv
<1> QED
  BY <1>1, SchedulerInvariance, PTL

\* No replayed, delayed or repeated enqueue skips a fetch or makes one twice
\* (agent-jobs.ts scheduledOperationKey, enqueueScheduledAgentJob).
THEOREM RoundsStayFetched == Spec => []EachRoundIsFetched
<1>1. IInv => EachRoundIsFetched
  BY DEF IInv
<1> QED
  BY <1>1, SchedulerInvariance, PTL

=============================================================================
