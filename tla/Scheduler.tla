----------------------------- MODULE Scheduler -----------------------------
(***************************************************************************)
(* runSupabaseAutomationScheduler of src/supabase-worker.ts: every tick    *)
(* goes through five stages, each reads one page of what is due and looks  *)
(* at its items one after the other.  Recovery of stale publications       *)
(* (src/publication-executor.ts) and of expired job leases comes first,    *)
(* then fetches, slot fills and posts are enqueued under keys that name    *)
(* what they are about, so that the database answers a repeated key with   *)
(* the job it already has.                                                 *)
(*                                                                         *)
(* What the enqueued jobs do in detail is in AgentJobs, Publication and    *)
(* DraftPipeline; here they end and leave their mark on the queue.  A page *)
(* is Page long (100 rows, 50 leases and 50 intents in the code, 200       *)
(* tenants, whose page is taken to hold them all).  A time of day is       *)
(* abstracted to its day, a platform has PerDay slots a day.               *)
(*                                                                         *)
(* Not in the model: log and settings records of what was skipped.         *)
(***************************************************************************)
EXTENDS Naturals, FiniteSets, Sequences, SequencesExt

CONSTANTS
    Worker,      \* schedulers that may run side by side, one tick at a time each
    Tenant,
    Row,         \* rows of queue_items, all of one platform
    Lease,       \* jobs whose owner died and left an expiring lease
    Intent,      \* publications that stopped half way
    Owner,       \* the tenant of a row
    Off,         \* tenants whose automation is off or whose access has lapsed
    Held,        \* rows with a legacy_revision_hold_id
    Recovery,    \* rows with a recovery_execution_id
    Broken,      \* tenants, rows, leases and intents whose handling always fails
    Manual,      \* tenants and rows a person may start a job for, once, or move
    Page,        \* the length of a page of rows, leases or intents
    PerDay,      \* DAILY_SLOT_HOURS.length
    PlannerFrom, \* DAILY_INVENTORY_PLANNER_START_LOCAL_DATE
    LastDay,     \* bound: the days that pass
    LastRound,   \* bound: the fetches of a tenant
    MaxFaults,   \* bound: calls for one item that fail
    None

ASSUME SchedulerAssumption ==
    /\ IsFiniteSet(Worker) /\ IsFiniteSet(Tenant) /\ IsFiniteSet(Row) /\ IsFiniteSet(Intent)
    /\ Owner \in [Row -> Tenant]
    /\ Off \subseteq Tenant /\ Held \subseteq Row /\ Recovery \subseteq Row
    /\ Page \in Nat \ {0} /\ PerDay \in Nat \ {0}
    /\ PlannerFrom \in Nat /\ LastDay \in Nat \ {0} /\ LastRound \in Nat /\ MaxFaults \in Nat

VARIABLES
    day,         \* the tenants' local date
    row,         \* queue_items.status; pending and publishing count as ready
    at,          \* queue_items.scheduled_for
    work,        \* what a tenant's drafting can start from
    backoff,     \* tenants with a recent OpenAI failure
    fetchDue,    \* tenants whose next_fetch_at has passed
    round,       \* user_settings.next_fetch_at: how often it has been moved on
    live, over,  \* operation keys of the pending or running, and of the ended jobs
    lapsed,      \* expired leases, the longest expired first
    held,        \* leases that have not expired
    stale,       \* claimed or dispatching intents, the longest untouched first
    down,        \* stages whose page can not be read
    faults,
    tick         \* the ticks: stage, clock, items to look at, what was read, key to enqueue

queueVars == <<row, at, work, backoff, fetchDue, round, live, over>>
recoveryVars == <<lapsed, held, stale>>
vars == <<day, queueVars, recoveryVars, down, faults, tick>>

----------------------------------------------------------------------------
(* Data *)

Stages == <<"publications", "jobs", "fetch", "fill", "publish">>
Stage == ToSet(Stages)
Day == 1..LastDay + 1
Work == {"angles", "sources", "nothing"}
Status == {"none", "ready", "published", "failed", "skipped"}

\* Durable identities (scheduledOperationKey); a manual job has its own.
FetchKey == {"fetch"} \X Tenant \X Nat
InventoryKey == {"inventory"} \X Tenant \X Day \X BOOLEAN \X SUBSET Row
FillKey == {"fill"} \X Tenant \X Day \X SUBSET Row
PublishKey == {"publish"} \X Row \X Nat
ManualKey == {"manual"} \X Manual
RefreshKey == FetchKey \cup InventoryKey \cup FillKey
Key == RefreshKey \cup PublishKey \cup ManualKey

ASSUME KeyAssumption == None \notin Key

\* What a stage has read of the settings, or of the queue, before it acts.
Cursors == [due : SUBSET Tenant, round : [Tenant -> Nat]]
Plan == [rows : SUBSET Row]
Item == Tenant \cup Row \cup Lease \cup Intent
Tick == [stage : 0..Len(Stages), now : 0..LastDay + 1, todo : Seq(Item),
         seen : Cursors \cup Plan \cup {None}, key : Key \cup {None}]
Idle == [stage |-> 0, now |-> 0, todo |-> <<>>, seen |-> None, key |-> None]

Known(k) == k \in live \cup over
Failing(x) == x \in Broken \/ (x \in Row /\ Owner[x] \in Broken)
\* ACTIVE_QUEUE_STATUSES, and the revision of inventoryJobRevision.
Active(t) == {r \in Row : Owner[r] = t /\ row[r] = "ready"}
Due(now) == {r \in Row : row[r] = "ready" /\ at[r] <= now}

\* loadPriorFailedRecovery
RecoveryFailed(r) ==
    r \in Recovery /\ \E q \in Recovery : Owner[q] = Owner[r] /\ row[q] = "failed" /\ at[q] <= at[r]

\* hasPendingOrRunningFetch: the kinds fetch_sources and refresh_queue, whoever asked.
Refreshing(t) == \E k \in live : k \in RefreshKey \cup ManualKey /\ k[2] = t

\* Slip: a fill looks for other fills only.
RefreshingFillOnly(t) == \E k \in live : k[1] \in {"fill", "inventory"} /\ k[2] = t

\* hasPendingOrRunningPublish
Posting(r) == \E k \in live : k \in PublishKey \cup ManualKey /\ k[2] = r

\* plannerActiveForTarget
Planned(now) == now + 1 >= PlannerFrom

\* buildDailyInventoryPlan; active rows hold slots of their own.
InventoryComplete(t, target) == Cardinality({r \in Active(t) : at[r] = target}) >= PerDay

\* platformSlotCapacitySnapshot: the active rows of all days share one day's slots.
SlotsFull(t) == Cardinality(Active(t)) >= PerDay

Complete(t, now) == IF Planned(now) THEN InventoryComplete(t, now + 1) ELSE SlotsFull(t)

\* hasDraftableActiveAngle first, sources only for the planner.
CanDraft(t, now) == work[t] = "angles" \/ (Planned(now) /\ work[t] = "sources")

\* Slip: the key does not tell what the queue held.
FillOfTheDay(t, now, rows) ==
    IF Planned(now) THEN <<"inventory", t, now + 1, work[t] = "angles", {}>>
                    ELSE <<"fill", t, now, {}>>

FillOf(t, now, rows) ==
    IF Planned(now) THEN <<"inventory", t, now + 1, work[t] = "angles", rows>>
                    ELSE <<"fill", t, now, rows>>

----------------------------------------------------------------------------
(* The store: enqueue_worker_agent_job *)

\* A second job of a row is refused while one is active.
Refused(k) == k \in PublishKey /\ Posting(k[2])

\* A known key changes nothing; a new fetch moves the tenant's next fetch on.
Admit(k) ==
    LET new == ~Known(k) /\ ~Refused(k)
        fetch == new /\ k \in FetchKey
    IN  /\ live' = IF new THEN live \cup {k} ELSE live
        /\ round' = IF fetch THEN [round EXCEPT ![k[2]] = @ + 1] ELSE round
        /\ fetchDue' = IF fetch THEN fetchDue \ {k[2]} ELSE fetchDue

----------------------------------------------------------------------------
(* A tick *)

In(w, stage) == tick[w].stage # 0 /\ Stages[tick[w].stage] = stage
Cur(w) == Head(tick[w].todo)
At(w, stage) == In(w, stage) /\ tick[w].todo # <<>> /\ tick[w].key = None
Drop(w) == [tick EXCEPT ![w] = [tick[w] EXCEPT !.todo = Tail(tick[w].todo), !.key = None,
                                               !.seen = IF In(w, "fill") THEN None ELSE tick[w].seen]]
Ask(w, k) == [tick EXCEPT ![w] = [tick[w] EXCEPT !.key = k]]

\* The rows in the order of their times; equal times come in any order.
Ordered(q) == \A i, j \in DOMAIN q : i < j => at[q[i]] <= at[q[j]]
Without(q, x) == IF x \in ToSet(q) THEN RemoveAt(q, CHOOSE i \in DOMAIN q : q[i] = x) ELSE q
FirstOf(q) == SubSeq(q, 1, IF Len(q) < Page THEN Len(q) ELSE Page)

\* The page a stage reads.
Pages(stage, now) ==
    CASE stage = "publications" -> {FirstOf(stale)}
      [] stage = "jobs"         -> {FirstOf(lapsed)}
      [] stage \in {"fetch", "fill"} -> SetToSeqs(Tenant \ Off)
      [] stage = "publish"      -> {FirstOf(q) : q \in {p \in SetToSeqs(Due(now)) : Ordered(p)}}

\* runSupabaseAutomationScheduler fixes its clock at the start.
Begin(w) ==
    /\ tick[w] = Idle
    /\ \E page \in IF Stages[1] \in down THEN {<<>>} ELSE Pages(Stages[1], day) :
           tick' = [tick EXCEPT ![w] = [Idle EXCEPT !.stage = 1, !.now = day, !.todo = page]]
    /\ UNCHANGED <<day, queueVars, recoveryVars, down, faults>>

\* Slip: a stage that fails takes the rest of the tick with it.
NextStageIfReadable(w) ==
    /\ tick[w].stage # 0 /\ tick[w].todo = <<>>
    /\ IF tick[w].stage = Len(Stages) \/ Stages[tick[w].stage] \in down
         THEN tick' = [tick EXCEPT ![w] = Idle]
         ELSE LET next == tick[w].stage + 1 IN
              \E page \in IF Stages[next] \in down THEN {<<>>} ELSE Pages(Stages[next], tick[w].now) :
                 tick' = [tick EXCEPT ![w] = [tick[w] EXCEPT !.stage = next, !.todo = page,
                             !.seen = IF Stages[next] = "fetch"
                                        THEN [due |-> fetchDue, round |-> round] ELSE None]]
    /\ UNCHANGED <<day, queueVars, recoveryVars, down, faults>>

\* A stage whose page can not be read is recorded and passed over.
NextStage(w) ==
    /\ tick[w].stage # 0 /\ tick[w].todo = <<>>
    /\ IF tick[w].stage = Len(Stages)
         THEN tick' = [tick EXCEPT ![w] = Idle]
         ELSE LET next == tick[w].stage + 1 IN
              \E page \in IF Stages[next] \in down THEN {<<>>} ELSE Pages(Stages[next], tick[w].now) :
                 tick' = [tick EXCEPT ![w] = [tick[w] EXCEPT !.stage = next, !.todo = page,
                             !.seen = IF Stages[next] = "fetch"
                                        THEN [due |-> fetchDue, round |-> round] ELSE None]]
    /\ UNCHANGED <<day, queueVars, recoveryVars, down, faults>>

\* A call for the item fails, now and then or always; the next item follows.
ItemFails(w) ==
    /\ tick[w].todo # <<>>
    /\ \/ Failing(Cur(w)) /\ ~In(w, "jobs") /\ UNCHANGED faults
       \/ ~Failing(Cur(w)) /\ faults < MaxFaults /\ faults' = faults + 1
    /\ tick' = Drop(w)
    /\ UNCHANGED <<day, queueVars, recoveryVars, down>>

\* recoverStalePublications: reconcilePublication settles the intent.
Reconcile(w) ==
    /\ At(w, "publications") /\ ~Failing(Cur(w))
    /\ stale' = Without(stale, Cur(w))
    /\ tick' = Drop(w)
    /\ UNCHANGED <<day, queueVars, lapsed, held, down, faults>>

\* Slip: the recovery claim does not extend the lease.
RecoverInPlace(w) ==
    /\ At(w, "jobs")
    /\ LET l == Cur(w)
           granted == l \in ToSet(lapsed)
       IN  /\ lapsed' = IF granted /\ ~Failing(l) THEN Without(lapsed, l) ELSE lapsed
           /\ UNCHANGED held
    /\ tick' = Drop(w)
    /\ UNCHANGED <<day, queueVars, stale, down, faults>>

\* cleanupStaleRunningJobs: the recovery claim renews the lease, the result is
\* reconstructed and recorded; if that fails the new lease has to run out.
Recover(w) ==
    /\ At(w, "jobs")
    /\ LET l == Cur(w)
           granted == l \in ToSet(lapsed)
       IN  /\ lapsed' = IF granted THEN Without(lapsed, l) ELSE lapsed
           /\ held' = IF granted /\ Failing(l) THEN held \cup {l} ELSE held
    /\ tick' = Drop(w)
    /\ UNCHANGED <<day, queueVars, stale, down, faults>>

\* enqueueDueFetchJobs, up to the enqueue.
CheckFetch(w) ==
    /\ At(w, "fetch") /\ ~Failing(Cur(w))
    /\ tick' = IF Cur(w) \in tick[w].seen.due /\ ~Refreshing(Cur(w))
                 THEN Ask(w, <<"fetch", Cur(w), tick[w].seen.round[Cur(w)]>>) ELSE Drop(w)
    /\ UNCHANGED <<day, queueVars, recoveryVars, down, faults>>

\* enqueueDueSlotFillJobs reads the queue and makes its plan ...
PlanFill(w) ==
    /\ At(w, "fill") /\ ~Failing(Cur(w)) /\ tick[w].seen = None
    /\ tick' = IF Cur(w) \in backoff \/ Complete(Cur(w), tick[w].now)
                 THEN Drop(w) ELSE [tick EXCEPT ![w] = [tick[w] EXCEPT !.seen = [rows |-> Active(Cur(w))]]]
    /\ UNCHANGED <<day, queueVars, recoveryVars, down, faults>>

\* Slip: the fill does not ask whether a fetch is under way.
CheckFillBlindly(w) ==
    /\ At(w, "fill") /\ tick[w].seen # None
    /\ tick' = IF ~RefreshingFillOnly(Cur(w)) /\ CanDraft(Cur(w), tick[w].now)
                 THEN Ask(w, FillOf(Cur(w), tick[w].now, tick[w].seen.rows)) ELSE Drop(w)
    /\ UNCHANGED <<day, queueVars, recoveryVars, down, faults>>

\* ... then looks for a job under way and for something to draft from.
CheckFill(w) ==
    /\ At(w, "fill") /\ tick[w].seen # None
    /\ tick' = IF ~Refreshing(Cur(w)) /\ CanDraft(Cur(w), tick[w].now)
                 THEN Ask(w, FillOf(Cur(w), tick[w].now, tick[w].seen.rows)) ELSE Drop(w)
    /\ UNCHANGED <<day, queueVars, recoveryVars, down, faults>>

\* enqueueDuePublishJobs, up to the enqueue; a paused recovery is skipped if
\* it is still waiting.
CheckPublish(w) ==
    /\ At(w, "publish") /\ ~Failing(Cur(w))
    /\ LET r == Cur(w)
           open == r \notin Held /\ Owner[r] \notin Off
           pause == open /\ RecoveryFailed(r)
       IN  /\ row' = IF pause /\ row[r] = "ready" THEN [row EXCEPT ![r] = "skipped"] ELSE row
           /\ tick' = IF open /\ ~pause /\ ~Posting(r) THEN Ask(w, <<"publish", r, at[r]>>) ELSE Drop(w)
    /\ UNCHANGED <<day, at, work, backoff, fetchDue, round, live, over, recoveryVars, down, faults>>

\* enqueueScheduledAgentJob; retrySafe, so that a lost reply repeats the call.
Enqueue(w) ==
    /\ tick[w].key # None
    /\ Admit(tick[w].key)
    /\ \/ tick' = Drop(w) /\ UNCHANGED faults
       \/ faults < MaxFaults /\ faults' = faults + 1 /\ UNCHANGED tick
    /\ UNCHANGED <<day, row, at, work, backoff, over, recoveryVars, down>>

TickStep(w) ==
    \/ Begin(w) \/ NextStage(w) \/ ItemFails(w)
    \/ Reconcile(w) \/ Recover(w)
    \/ CheckFetch(w) \/ PlanFill(w) \/ CheckFill(w) \/ CheckPublish(w) \/ Enqueue(w)

----------------------------------------------------------------------------
(* Jobs and people *)

Ends(k) == live' = live \ {k} /\ over' = over \cup {k}

\* A refresh drafts one row into the days ahead, or for the planned day, and
\* leaves something else to draft from.
Drafts(t, days) ==
    /\ \E r \in Row \ Recovery : \E d \in days :
           /\ Owner[r] = t /\ row[r] = "none"
           /\ row' = [row EXCEPT ![r] = "ready"]
           /\ at' = [at EXCEPT ![r] = d]
    /\ \E left \in Work : work' = [work EXCEPT ![t] = left]
    /\ UNCHANGED backoff

\* Nothing came of it; an OpenAI failure pauses the tenant's fills.
DraftsNothing(t) ==
    /\ \E left \in Work : work' = [work EXCEPT ![t] = left]
    /\ backoff' \in {backoff, backoff \cup {t}}
    /\ UNCHANGED <<row, at>>

RefreshEnds ==
    \E k \in live : \E t \in Tenant :
        /\ k \in RefreshKey \cup ManualKey /\ k[2] = t
        /\ \/ Drafts(t, IF k \in InventoryKey THEN {k[3]} ELSE {day, day + 1})
           \/ DraftsNothing(t)
        /\ Ends(k)
        /\ UNCHANGED <<day, fetchDue, round, recoveryVars, down, faults, tick>>

\* The post is out, has failed, or waits for a decision.
PublishEnds ==
    \E k \in live : \E r \in Row :
        /\ k \in PublishKey \cup ManualKey /\ k[2] = r
        /\ \/ row[r] = "ready" /\ \E s \in {"published", "failed"} : row' = [row EXCEPT ![r] = s]
           \/ UNCHANGED row
        /\ Ends(k)
        /\ UNCHANGED <<day, at, work, backoff, fetchDue, round, recoveryVars, down, faults, tick>>

\* A person starts a job by hand ...
Start(x) ==
    /\ ~Known(<<"manual", x>>)
    /\ x \in Row => row[x] = "ready" /\ ~Posting(x)
    /\ live' = live \cup {<<"manual", x>>}
    /\ UNCHANGED <<day, row, at, work, backoff, fetchDue, round, over, recoveryVars, down, faults, tick>>

\* ... or moves a waiting row to a later day.
Reschedule(r) ==
    /\ r \in Manual /\ row[r] = "ready"
    /\ \E d \in (at[r] + 1)..LastDay : at' = [at EXCEPT ![r] = d]
    /\ UNCHANGED <<day, row, work, backoff, fetchDue, round, live, over, recoveryVars, down, faults, tick>>

(* Time *)

NewDay ==
    /\ day < LastDay /\ day' = day + 1
    /\ UNCHANGED <<queueVars, recoveryVars, down, faults, tick>>

FetchFallsDue(t) ==
    /\ t \notin fetchDue /\ round[t] < LastRound
    /\ fetchDue' = fetchDue \cup {t}
    /\ UNCHANGED <<day, row, at, work, backoff, round, live, over, recoveryVars, down, faults, tick>>

\* OPENAI_GENERATION_BACKOFF_MS have passed.
BackoffEnds(t) ==
    /\ t \in backoff /\ backoff' = backoff \ {t}
    /\ UNCHANGED <<day, row, at, work, fetchDue, round, live, over, recoveryVars, down, faults, tick>>

Lapse(l) ==
    /\ l \in held /\ held' = held \ {l} /\ lapsed' = Append(lapsed, l)
    /\ UNCHANGED <<day, queueVars, stale, down, faults, tick>>

----------------------------------------------------------------------------

Init ==
    /\ day = 1
    /\ row \in [Row -> Status] /\ at \in [Row -> Day]
    /\ work \in [Tenant -> Work]
    /\ backoff = {} /\ fetchDue \in SUBSET Tenant /\ round \in [Tenant -> 0..LastRound]
    /\ live = {}
    /\ over = {k \in {"fetch"} \X Tenant \X (0..LastRound) : k[3] < round[k[2]]}
    /\ lapsed = <<>> /\ held \in SUBSET Lease
    /\ \E left \in SUBSET Intent : stale \in SetToSeqs(left)
    /\ down \in SUBSET Stage /\ Cardinality(down) <= 1
    /\ faults = 0
    /\ tick = [w \in Worker |-> Idle]

Next ==
    \/ \E w \in Worker : TickStep(w)
    \/ RefreshEnds \/ PublishEnds \/ NewDay
    \/ \E x \in Manual : Start(x)
    \/ \E r \in Row : Reschedule(r)
    \/ \E t \in Tenant : FetchFallsDue(t) \/ BackoffEnds(t)
    \/ \E l \in Lease : Lapse(l)

\* The poll interval brings a next tick, a tick goes on, jobs end (AgentJobs)
\* and leases and pauses run out.  Nobody has to start or to move anything.
Fairness ==
    /\ \A w \in Worker : WF_vars(TickStep(w))
    /\ WF_vars(RefreshEnds) /\ WF_vars(PublishEnds)
    /\ \A t \in Tenant : WF_vars(BackoffEnds(t))
    /\ \A l \in Lease : WF_vars(Lapse(l))

Spec == Init /\ [][Next]_vars /\ Fairness

----------------------------------------------------------------------------
(* Properties *)

TypeOK ==
    /\ day \in Day
    /\ row \in [Row -> Status] /\ at \in [Row -> Day]
    /\ work \in [Tenant -> Work]
    /\ backoff \subseteq Tenant /\ fetchDue \subseteq Tenant /\ round \in [Tenant -> Nat]
    /\ live \subseteq Key /\ over \subseteq Key
    /\ lapsed \in Seq(Lease) /\ held \subseteq Lease /\ stale \in Seq(Intent)
    /\ down \subseteq Stage /\ faults \in 0..MaxFaults
    /\ tick \in [Worker -> Tick]

\* The scheduled refreshes of a tenant under way are no more than the schedulers
\* that run side by side: one scheduler never has two of them drafting for the
\* same queue, whichever stage asked for them and however a call was retried
\* (hasPendingOrRunningFetch, before every enqueue of the kind).
Refreshes(t) == {k \in live : k \in RefreshKey /\ k[2] = t}
Asking(t) ==
    {w \in Worker : tick[w].key \in RefreshKey /\ ~Known(tick[w].key) /\ tick[w].key[2] = t}
RefreshesAreFew ==
    \A t \in Tenant : Cardinality(Refreshes(t)) + Cardinality(Asking(t)) <= Cardinality(Worker)

\* Every time the next fetch was moved on exactly one fetch was enqueued: a
\* replayed key neither skips a fetch nor asks for one twice
\* (enqueueScheduledAgentJob: "must not ... advance its cursor again").
EachRoundIsFetched ==
    /\ \A k \in live \cup over : k \in FetchKey => k[3] < round[k[2]]
    /\ \A t \in Tenant : \A n \in 0..round[t] : n < round[t] => Known(<<"fetch", t, n>>)

\* A tick has read the past: its page is of the stage it is in, a fetch is asked
\* for with a cursor that was current once, and only the first item has a key.
TickSound(w) ==
    LET s == tick[w]
    IN  /\ s.stage # 0 => s.now \in 1..LastDay
        /\ In(w, "publications") => s.todo \in Seq(Intent)
        /\ In(w, "jobs") => s.todo \in Seq(Lease)
        /\ In(w, "fetch") => /\ s.todo \in Seq(Tenant) /\ s.seen \in Cursors
                             /\ \A t \in Tenant : s.seen.round[t] <= round[t]
        /\ In(w, "fill") => s.todo \in Seq(Tenant) /\ s.seen \in Plan \cup {None}
        /\ In(w, "publish") => s.todo \in Seq(Row)
        /\ s.key # None => s.todo # <<>>
        /\ s.key \in FetchKey => s.key[3] <= round[s.key[2]]

IInv ==
    /\ TypeOK /\ RefreshesAreFew /\ EachRoundIsFetched
    /\ day <= LastDay /\ IsFiniteSet(live) /\ \A w \in Worker : TickSound(w)

\* A due row waits for its first try.
Triable(r) ==
    /\ row[r] = "ready" /\ at[r] <= day /\ ~Known(<<"publish", r, at[r]>>)
    /\ ~Failing(r) /\ r \notin Held /\ Owner[r] \notin Off /\ "publish" \notin down

\* Rows ahead of r that stay on the page although nothing can be done for them:
\* held, refused, failing, or tried without an end.
Crowded(r) == Cardinality({q \in Due(day) : at[q] <= at[r] /\ ~Triable(q)}) >= Page

\* A due row is tried, paused or moved as long as the rows stuck ahead of it
\* leave room on the page, whatever fails for other rows, tenants and stages
\* (enqueueDuePublishJobs, recordSchedulerFailure: "Other checks will continue").
DueRowsAreTried == \A r \in Row : Triable(r) ~> ~Triable(r) \/ Crowded(r)

\* A job for just this day and this queue has been asked for.
Tried(t) ==
    \/ \E k \in live \cup over : k[1] = "inventory" /\ Planned(day) /\ k[2] = t /\ k[3] = day + 1
                                /\ k[4] = (work[t] = "angles") /\ k[5] = Active(t)
    \/ \E k \in live \cup over : k[1] = "fill" /\ ~Planned(day) /\ k[2] = t /\ k[3] = day
                                /\ k[4] = Active(t)

\* A tenant whose fetch is due gets it, and a tenant with open slots and
\* something to draft from gets a job for just the queue it has now, unless
\* that very job has been tried: each job that changed the queue is followed
\* by the next one until the day is full.
CanFill(t) ==
    /\ t \notin Off \cup Broken \cup backoff /\ "fill" \notin down
    /\ ~Complete(t, day) /\ CanDraft(t, day)
    /\ ~Tried(t)
CanFetch(t) == t \in fetchDue /\ t \notin Off \cup Broken /\ "fetch" \notin down

RefreshesGoOn ==
    \A t \in Tenant : /\ []<>(~CanFetch(t))
                      /\ []<>(~CanFill(t))

\* A lapsed job that can be recovered is, however many others fail for ever:
\* a failed recovery goes to the end of the line.  A stale publication is
\* settled as long as those that can not be leave room on the page.
RecoveryGoesOn ==
    /\ \A l \in Lease \ Broken : []<>(l \notin ToSet(lapsed) \/ "jobs" \in down)
    /\ \A i \in Intent \ Broken :
           []<>(\/ i \notin ToSet(stale) \/ "publications" \in down
                \/ Cardinality(ToSet(stale) \cap Broken) >= Page)
============================================================================
