# Formal models of social-agents

TLA+ models of the parts of this repository that decide whether a social post
is published once, recorded truthfully and never forgotten, with TLC runs on
small instances and proofs checked by TLAPS for all instances.

## 1. The system

Two runtimes share one code base.

- The **hosted runtime**: a Cloudflare Worker tick (`cloudflare-worker.ts`) runs
  `runSupabaseAutomationScheduler` and `processPendingSupabaseJobs`
  (`supabase-worker.ts`) against a Postgres database reached over HTTP
  (`supabase-client.ts`). All durable state is in rows behind stored procedures.
  Ticks overlap (isolates, retried cron calls), calls are repeated, and an
  isolate may be stopped anywhere.
- The **local runtime**: a server or command line (`server.ts`, `cli.ts`) over a
  SQLite file (`store.ts`), and a relay process on the owner's machine
  (`controlled-threads-relay.ts`) that posts to Threads for the hosted runtime.

### Inventory

| Component | State | Operations | Talks to | What is hard | What makes it correct |
| --- | --- | --- | --- | --- | --- |
| Publication executor, ledger (`publication-*.ts`) | `publication_intents`, `publication_attempts`, history; locals of an execution | `executePublication`, `reconcilePublication`, `recoverStalePublications`; claim, release, begin, accept, reject, unknown, resolve | stored procedures, provider, angle rows | lost and late calls, lease takeover, a provider that does not deduplicate, snapshots of three reads, stale recovery | one write per item, recorded first; truthful records and results; nothing dispatched is reopened; every claim and dispatch is settled |
| Agent jobs, worker tick (`agent-jobs.ts`, `supabase-worker.ts` 4776-4899) | `agent_jobs`, the tenant's automation result; the scope's `lost` flag | enqueue, claim, renew, `withAgentJobLease`, `assertActiveAgentJob`, finish, fail, recovery | stored procedures; runs the publication executor | overlapping ticks, replayed claims, leases lost while a handler runs, contradicting completions | a handler runs once; outcomes are final and truthful; a handler that lost its job stops at its next assertion; every job ends |
| Controlled Threads relay (`controlled-threads-relay.ts`, `threads-relay-client.ts`) | a journal file, the sender's first call | ready, publish, receipt; reserve, accept, verify, recover | hosted sender over HTTPS, a gateway, Threads | overlapping processes, repeated requests, power loss, account switches | one dispatch per job, fenced durably; ids are kept; receipts are true |
| Scheduler (`supabase-worker.ts` 3893-4414, `slot-scheduler.ts`) | cursors in settings, due rows | enqueue due fetch, fill, publish jobs; recovery pages | agent jobs, queue rows | bounded pages over all tenants, check-then-enqueue, permanent keys | no row is starved; one job per due row |
| Draft pipeline (`worker-claims.ts`, `supabase-worker.ts` 1056-3540) | source and angle claims, queue slots, worker logs as the OpenAI budget | claim, renew, release, commit, exhaust | stored procedures, OpenAI | lost commit replies, stale occupancy, budget counted per job | paid work is not repeated; one row per slot; a claim ends |
| Local runtime (`automation-service.ts`, `content-engine.ts`, `publish.ts`, `store.ts`) | slots, angles, history, platform state, automation lock | fetch, post slot, post all, release, update | SQLite, providers | a lock that expires while held, shared owner strings, crashes between two transactions | one slot per source; slots, angles and history agree; what is on record is not posted again (section 6: while a run holds its lock) |
| Social connector (`social-connector*.ts`, `store.ts` 396-487) | social action ledger | execute, verify, relay bookkeeping | providers, browser relay | unconditional finalisation, verifications that name any post and any key, reservations that are never finished | one write per key; a success and an id are of a post made for the action, unless a verification named another post |
| Connection lifecycle (`connection-*.ts`) | generation, revision, state per provider | refresh, verify, failure, replace, disconnect | stored procedures | two sessions from one snapshot | one winner per revision |
| Tick gate, tenant runtime (`exclusive-run-gate.ts`, `runtime-scope.ts`, `withTenantRuntime`) | a promise chain, the configuration of a tick | run, begin and end a tenant's job | the tick | a job that throws, configuration shared by tenants | one tick at a time; a job has its own tenant's credentials |
| Collector ingest (`browser-collector-ingest.ts`, `reddit-connector.ts`) | pairing codes, devices, source rows | pair, revoke, ingest a batch | stored procedures | a code presented twice, look up then insert | a code pairs once; rows are single and of their own user |
| Control plane (`control-plane.ts`, `server.ts`) | users, sessions, the billing state | bootstrap, log in and out, change users, check out, webhooks | SQLite, Stripe | awaits between reading and writing billing, sessions that outlive their account | an owner remains; sessions are current; billing is what was last heard |
| Policies, adapters, drafting, settings, command line | see `PROJECT.json` | | | | |

How they interact: the scheduler enqueues a job; a tick claims it
(AgentJobs); its handler calls `executePublication` for each item
(Publication), whose `send` asserts the job once more and then calls a provider
adapter or, for a controlled Threads job, the relay's sender (ThreadsRelay).
The recovery stages of the next tick look after what an earlier one left.

Every component is listed in `PROJECT.json` with its status; every hazard we
found while reading is listed there at its line with the properties that cover
it, or with the reason that none does yet.

## 2. Modules

| Module | Models | Uses |
| --- | --- | --- |
| `PublicationLedger` | the two rows of an item and the stored procedures as guards and effects of requests; requests on the wire | |
| `Publication` | executions and recoverers step by step, the provider, leases, crashes | extends `PublicationLedger`; refines `PublicationPromise` |
| `PublicationPromise` | the abstract promise: open, dispatched, unknown, published, refused | |
| `JobTable` | `agent_jobs` rows, claim, renew, finish, enqueue, the tenant's projection | |
| `AgentJobs` | ticks, lease scopes, handlers, recovery, faults | extends `JobTable`; refines `JobPromise` |
| `JobPromise` | the abstract promise about one operation | |
| `ThreadsRelay` | handlers, journal and its durable content, sender, gateway, power loss | |
| `Scheduler` | the five stages of a tick over bounded pages, the jobs' ends, days passing, rows and tenants that always fail | |
| `DraftPipeline` | jobs of one tenant that claim, draft, pay, commit, release and skip | |
| `LocalStore` | the tables of the local SQLite file and their transactions | |
| `LocalRuntime` | local runs await by await, the automation lock, crashes | extends `LocalStore` |
| `Connections` | isolates, the tenant runtime, connection sessions, the mutation procedure | |
| `SocialAction` | one ledger row per action, API, relay and verifying callers | |
| `Ingest` | pairing, devices, batches of records | |
| `ControlPlane` | accounts, sessions, billing | |
| `MCServices` | `Connections`, `SocialAction`, `Ingest`, `ControlPlane` in one run | extends the four |
| `MC...` | constants, symmetry, views and initial states for TLC | extends its component |
| `PublicationProofs`, `AgentJobsProofs`, `ThreadsRelayProofs`, `SchedulerProofs`, `DraftPipelineProofs`, `LocalRuntimeProofs`, `ConnectionsProofs` | lemmas and theorems of that component | extends it, `TLAPS` and theorem modules of the library |
| `ServicesProofs` | lemmas and theorems of `SocialAction`, `Ingest`, `ControlPlane` | extends the three and `TLAPS` |

Operators called *slips* (`ReserveAnyway`, `SyncLater`, `AssertRemembers`, ...)
stand next to the definition they would replace: each is a plausible mistake in
that piece of code, and `PROJECT.json` names the property that notices it.

### Publication

*State.* `intent` and `attempt` are the item's rows; `net` the calls sent and
not yet served; `pc`, `rd`, `row`, `try`, `outcome` the locals of each process;
`inbox`, `posted`, `refused`, `writes` the provider; `angle` the draft's angle.
*Actions.* A call is sent (`Request`), applied or refused by the database at any
later time, answered or not; a copy may be sent again while its caller waits
(`fetchSupabase` repeats what is marked `retrySafe`). A snapshot is three reads
with commits between them. `Crash` ends an execution anywhere. A lease runs out
at any time, also during `prepare`; `begin` on an expired lease may succeed or
fail, because the check is the database's. The procedures are not in `src/src`:
they are modelled from what the callers send and expect and from the
integration tests (a release is accepted on a live lease by its token; a
repeated claim keeps token and fence; a terminal row is not claimable).
*Abstractions.* A draft, a platform and an account are one item; a post is the
operation that made it. Recoverers' results are not kept. A recoverer's calls
that have the same body merge.

### AgentJobs

*State.* `job` (state, claim token, version, mode, whether the lease is live),
`latest` and `shown` for what the tenant is shown, `net`, one record per tick,
and three history variables: `runs`, `late`, `success`. *Actions.* A tick lists,
claims, renews (`Start`), asserts (`AssertActive`), starts effects (`Act`),
returns or throws, and finishes; then it takes the next job. An effect is a post, a
paid request, or the upload that ends one. After one assertion a handler starts up
to `Stretch` of them: one for an extraction (`supabase-worker.ts:2352`) or a post
(3718), but for a draft (3290) all that `ai.draftPlatforms` does: draft, revision,
image prompt, image, upload. The timer may find the lease gone between any two of
them, and the stretch goes on. A handler's own reads, its writes to Supabase and
its token refreshes are not counted. Renewal changes no
row in this untimed model, its answer does: `Owns`. A tick that leaves a job
leaves claim copies behind whose token nobody knows any more; they are renamed
to `Stray`. `completed_with_errors` is merged into `completed`; `blocked` is
what `failJob` writes. Enqueueing is one step, since its key is permanent and a
repeated call finds the row.

### ThreadsRelay

*State.* `journal` is the file as processes read it and `synced` what survives
a loss of power; `hand` says what each handler waits for; `gateway`, `post` and
`account` are the other side; `sender` the hosted caller of each attempt;
`dispatches` counts invocations of `execute`. *Actions.* Requests that were
once sent are delivered at any time and any number of times. A handler goes
from await to await: account, `O_EXCL` creation, content, fsync, execute,
accept, fsync, account, read back, confirm, fsync. `Fail` ends it at each of
these points, for whatever reason (a thrown error, an expired authority, the
end of the process). `PowerLoss` keeps the synced content or the latest one,
and may tear a reservation that was not synced. *Abstractions.* One session per
attempt; a changed user name counts as another account; of several renames that
were never synced only the last may survive.

### Scheduler

*State.* `live` and `over` are the job keys the database knows, `row`, `at` the
queue rows, `lapsed` and `stale` the two lines of what is to be recovered,
`fetchDue`, `round`, `work`, `backoff` what each tenant's stages ask, `down` a
stage that cannot be read, `tick` each worker's place in its tick. *Actions.* A
tick enters a stage with its page (`NextStage`), takes its items one after the
other, looks (`CheckFetch`, `PlanFill`, `CheckFill`, `CheckPublish`) and enqueues
in a later step, so that two workers may both have looked. A failing item is
passed over. The jobs end in one step and leave their mark on the queue.
*Abstractions.* A platform's slots of a day are a number; the work of a refresh
is what there is to draft from. `Broken` names what fails for ever.

### DraftPipeline

*State.* `claim` of every source and angle, `angle`, `rows`, `banked` revisions,
`log` (what the guards of a day count, and calls started and not settled),
`paid` (the calls that were really made), one record per job. *Actions.* A job
reads the logs once, then angles and slots, claims an angle, makes the calls of
a draft one by one (`Start`, `Reply`), commits or gives back or exhausts; then it
turns to sources and extraction. A reply may be lost before or after the effect.
Claims lapse, jobs are cut off, the source is edited, rows are published,
released and skipped at any time. *Abstractions.* Texts are left out; what a
check says of one is a choice.

### LocalStore and LocalRuntime

*State.* The angles' status, the sources' status and hash, the used ids, the
slots' items, the history and the lock are the store; `run` holds a run's place
and locals. `told` is what a provider was told, `again` what it was told twice
after it had been recorded, `late` that a run has outlived its lock, `crashed`
that a run was cut off. *Actions.* Between two awaits the code is synchronous, so
that an action is one stretch of it with all its transactions; where a stretch
has several transactions, a crash may fall between them. *Abstractions.* A text
is whether a platform has one.

### Connections, SocialAction, Ingest, ControlPlane

`Connections`: `row` is a connection with its guard (generation and revision),
`live` the newest token of its provider, `wire` and `applied` the mutation calls,
`sess` an isolate's session, `config` and `frames` the configuration of its tick
and what is to be restored. A session remembers the guard it read, refreshes,
checks, and writes back; the call is repeated once and may arrive late.
`SocialAction`: `entry` is the ledger row, `posts` what was written, `call` a
caller between its awaits; a caller that crashed asks again. A verification names any
post and any key; the provider answers with that post or with another, made here
or elsewhere, or the lookup throws; what it answered is recorded later, over any
status, and an answer that is no post of the key's action puts it into the history
variable `misnamed`. `Ingest`: codes,
pairing attempts, devices, rows; `raced` names users whose batches overlapped.
`ControlPlane`: accounts, sessions, the billing state; `heard` is what the last
event, checkout or bootstrap said of the subscription.

The four share no state with each other. They are checked in one run: the
variable `moving` of `MCServices` picks the component that moves, and the others
stay at their beginning. A behaviour of the run is a behaviour of one component,
so that the run says of each of them what a run of its own would say.

## 3. Runs

| Run | Instance | Shows |
| --- | --- | --- |
| `publication_races` | 2 executions, 1 recoverer, no repeated copies | one write, recorded first, truthful results, dispatch is final, recovery steals nothing; the executor refines the promise |
| `publication_retries` | 2 executions (1 for an unavailable platform), 1 recoverer, 2 copies per call, skewed clock | the inductive invariant, true records, the angle follows the post |
| `publication_liveness` | 1 execution, 1 recoverer, fairness | an execution returns, claims come back, dispatches are settled |
| `agent_jobs` | 2 ticks, 2 scheduled jobs, 2 claims per job | one run, late effects of one stretch, truthful and final outcomes, the newest job is shown |
| `agent_jobs_recovery` | 2 ticks, 2 jobs of one row, 2 copies per call | the inductive invariant; every operation moves as the promise allows |
| `agent_jobs_liveness` | 1 tick, 1 job, 4 claims, fairness | a job whose first three claims crash or lapse is ended by the fourth |
| `threads_relay` | 3 handlers, 2 attempts, power loss | one dispatch, durable fence, ids kept, true receipts |
| `threads_relay_confirmed` | 2 handlers, 1 attempt, no power loss | *violated*: a late reply of `execute` writes `accepted` over `confirmed` |
| `scheduler` | 1 worker, 2 tenants (one always failing), 4 rows, 3 leases, 2 intents, pages of 2, fairness | due rows are tried, fetches and fills go on, recovery goes on; refreshes do not pile up (invariant) |
| `draft_pipeline` | 2 jobs, 1 source of 2 revisions, 1 slot, limits of 2 texts and 1 image, 1 fault | queued angles are not draftable, slots are single, drafts are kept, calls stay near the limit, unsettled calls are not repeated |
| `local_runtime` | 2 runs of two owners, 2 sources, 3 angles, 2 platforms, 2 slots, a lock that lapses | the store's invariant, one slot per source, the books agree, what is recorded is not posted again |
| `services` | 2 isolates and 2 tenants with connections; 2 actions with 1 API caller, 1 relay, 1 verifier and 1 post from elsewhere; 2 pairings, 2 batches of 2; 2 persons, 2 checkouts, 3 events | each of the four components keeps its safety invariant |

*Bounds and why they are enough.* Two executions (ticks) suffice for takeover:
a victim and a thief; the recoverer is the third party whose knowledge is
stale. `Tries = 2` lets a copy of each call arrive after its twin was served,
which is all that a longer sequence of copies can do to an idempotent or
refused call. `MaxVer` bounds the claims of a job: 2 is one execution and one
recovery; `Stretch = 2` lets a lease be lost before, between and after the effects
of one assertion. In the liveness run `MaxVer` bounds the faults, since a job that is struck
at every claim never ends. Three handlers let one recover, one confirm and one
arrive late. The scheduler's pages of 2 are shorter than its lines of 3 and its 4 rows,
so that a page may be crowded; `MCScheduler` begins with leases and intents to
recover, with recoveries to post, or with a day to fill, and every step of `Next`
may follow each. `MaxFaults` bounds what the environment does against a job
(cut-offs, lapses, lost lines of the log, midnights): one beside any number of lost
replies and edits, because a lost reply leaves a claim as a cut-off does and the one
fault can then make that claim lapse; the proof has no such bound. In `local_runtime`, `SmallOverlap` follows
runs past an outlived lock only while they fetch, because the other properties
are about runs that hold their lock. In `services`, an API caller and a relay
caller race for a key as two API callers would, by the same reservation; `OneConnection` lets one of
two connections at a time leave its first token, since tenants share only the
isolate and its configuration; `OneSide` follows either accounts or billing, which
share only the owner's session; `MCWork` gives one isolate three jobs, so that
jobs of different tenants follow one another in it; `Faults`, `Copies` and
`Generations` are large enough for a lost reply, a late copy and a replacement
in the middle of a session. The proofs (section 4) remove these bounds for every
safety property: what only TLC says is liveness.

*View and symmetry.* `MCPublication` and `MCAgentJobs` identify states that
differ only in calls that nobody waits for and that no later row would accept:
such a call behaves as if it had been lost, and losing it is a step of the
model. Once there is an attempt, `MCPublication` also forgets the claim it came
from and the fences that calls and snapshots of claims still carry, since no
row accepts a call on a claim any more. Symmetry is used in the runs without liveness, over processes that the
specification never tells apart.

*Deadlock* is checked for Publication, ThreadsRelay and LocalRuntime. The other
runs do not check it: when every job has ended and nothing is left to enqueue, to
draft or to ask for within the bounds, those systems stop.

*Fairness.* An execution moves (the event loop and the timeouts of every fetch),
cron keeps scanning, and time passes (leases end), which is weak fairness.
Strong fairness is asked of what a repeated scan relies on: that some of the
repeated reads and calls are served, and that a handler ends. Nothing is assumed
of the provider, of a call that is made only once, or of the absence of crashes
before the bound. The scheduler's tick, the ends of the jobs it enqueued, the end of a
tenant's backoff and the lapse of leases are weakly fair: cron, the job's own
lease, and time; nothing is assumed of the browser, of days passing or of what
is `Broken`. Liveness is not asked of the relay: only an operator who asks
for the receipt again would finish an interrupted job.

## 4. Proofs

Every safety invariant and every action property that a run checks is a theorem.

| Module | Theorems | What they state, for any instance |
| --- | --- | --- |
| `PublicationProofs` | `Invariance`, `TypeCorrect`, `OneWrite`, `Recorded`, `Truth`, `Reports`, `Angle`, `Final`, `NothingIsStolen`, `Refinement` | at most one provider write; it is on record; records, results and angles are true; a dispatch is final; with honest clocks recovery releases no live claim; the executor implements `PublicationPromise` |
| `AgentJobsProofs` | `Invariance`, `TypeCorrect`, `OneExecution`, `OneLateStretch`, `Truthful`, `Projection`, `Final`, `Refinement` | a handler is entered once; at most `Stretch` late effects; completions are true; the newest job is shown; outcomes are final; each operation moves as `JobPromise` allows |
| `ThreadsRelayProofs` | `Invariance`, `TypeCorrect`, `SendsOnce`, `DispatchesAreFenced`, `ReceiptsTrue`, `IdsAreKept` | one dispatch, durable fence, true receipts, no id is forgotten |
| `SchedulerProofs` | `SchedulerInvariance`, `RefreshesStayFew`, `RoundsStayFetched` | no more scheduled refreshes of a tenant than schedulers; each move of the fetch cursor has exactly one fetch |
| `DraftPipelineProofs` | `PipelineInvariance`, `QueueStaysSound`, `DraftsStayKept`, `InProgressStaysClaimed`, `CallsStayNearLimit`, `UnsettledStaysUnrepeated` | queued angles are not draftable and slots are single; drafts are kept; work in progress is claimed; a day's calls pass the limit by one draft at most; an unsettled call is not repeated |
| `LocalRuntimeProofs` | `LocalInvariance`, `SlotsStayDistinct`, `BooksStayTogether`, `RecordedStaysUnrepeated` | one slot per source; angles, slots and history agree; what is recorded is not posted again |
| `ConnectionsProofs` | `RowMoves`, `ConnInvariance`, `ConnectionsStaySound` | a row holds a token of its generation, its verdict is about that token, a job has its own tenant's configuration |
| `ServicesProofs` | `Social...`, `Ingest...`, `Control...` (an invariance and a safety theorem each) | one write per action, and true rows where no verification named another post; a code pairs once, rows are single and their user's own; an owner remains, sessions are current, billing is what was last heard |

*Assumptions* are the named ones of the modules and nothing else: `None` is none of
the things it stands beside, sets of different kinds are disjoint, bounds are
natural numbers (a copy count, a page, a slot count, a last day at least 1), and
where the model counts or enumerates (`Scheduler`, `Ingest`) the sets are finite. No
size is fixed. `NothingIsStolen` has the hypothesis `~ClockSkew`: recoverers compare
`claim_expires_at` with their own clock, and one whose clock is ahead may take a live
lease for an expired one.

*The arguments.* One write: only the owner of the attempt row may write, a row
gets its owner once, and an execution becomes the owner in the same step that
takes it out of the early program counters; that is `Ownership`, and it needs
`CallsHonest` (a call on the wire speaks for the execution that sent it) and
`RowsAgree` to be inductive. Nothing stolen: a takeover gives the next version, so
that a claim once expired is never live again under the version a recoverer has read
(`Lapsed`), and `RecoverySound` says so of what recoverers read, hold and have on
the wire. One execution: version 1 of a claim is an
execution and only version 1; whoever holds a version is its only owner
(`OwnersApart`), and copies of calls cannot be ahead of their sender
(`WireSound`), so after the handler was entered nobody is on the way into it
(`RunOnce`). One late stretch: whoever asserts owns the job, so that nothing of it was
late before; from then on the late effects and those left of the stretch are
together `Stretch` at most (`LateBounded`). One dispatch: until the dispatch the creator alone holds the file
(`HandlersSound`), and after it the reservation is durable (`Fenced`), so that
the file is never created again.

Few refreshes: a scheduler asks for a refresh only when none of the tenant is
under way, and then is one of those counted, together with the jobs others have
asked for in between; hence the sum of the two counts, `Refreshes` and `Asking`,
is what is inductive, not the count of jobs. One fetch per round: the cursor that a tick
has read is at most the present one (`TickSound`), so that a key nobody knows
can only name the present round. A permanently known key is why the jobs that
have ended stay in the argument (`EndsKeeps`).

Drafts: `WorkSound` says what a job has in hand at each point, `InProgressIsClaimed`
ties angles in progress to a claim or to a job about to give them back, and
`ReleasesAreAlone` makes the two steps of a release the business of one job. The
limit: while one job refreshes and the logs are written, log and job know of every call that counts
(`Counted`), and a draft in progress has room for its own (`RoomLeft`).

Local runs: until a run is late, it is alone and holds the lock (`Alone`), so that what it
read before an await is still so after it (`ReadStands`); `BooksStand` names the
transactions a run has done and those it has not (`Placing`, `Leaving`, `Logging`), which is
what makes the books an invariant of every point between two awaits.

Connections: a request whose guard is the row's knows the token that is stored
(`GuardSound`), and one that was passed over stays harmless when the row moves (`RowMoves`).
Social actions: between reservation and report one request owns the row
(`Owns`), and no verification makes or removes a row, so that a key stays closed
whatever is recorded under it. Ingest: what a batch is about to insert was not there when it
looked, and, unless batches of the user overlap, still is not (`BatchSound`).
Billing: whoever names a customer names one that was made (`CustomersAreMade`).

*Only model-checked:* the liveness properties (`JobsEnd`, `ExecutionsReturn`,
`ClaimsComeBack`, `InterruptedDispatchSettles`, `DueRowsAreTried`, `RefreshesGoOn`,
`RecoveryGoesOn`), since fairness and `ENABLED` are beyond the prover, and
the violation of section 5.

## 5. Finding

`docs/CONTROLLED_THREADS_RELAY.md:97` says that a confirmed job's permitted
recovery is to return the same persisted receipt. `accept` persists without
reading the journal again, so that the reply of `execute` may replace a
`confirmed` record by an `accepted` one, after which a receipt needs the account and the post
once more. The id is the same and nothing is sent again (`IdIsKept`,
`OneDispatch`).

## 6. What the models say beyond their properties

The properties are as strong as the code is. Where one has a condition, the
condition is needed: without it the model has a counterexample, which the code
has too.

*Local runtime.* A run that outlives the ten minutes of its lock may draft and
post what another one drafts and posts. A crash between a post and its record,
or between the publication of an angle and the clearing of its slot, may post
again. Releasing a partly posted slot drops its ids, and its angle may be posted
to the same platform again.

*Draft pipeline.* One preflight covers the draft, its revision and the prompt of
its image, so that a day's texts may pass the limit by two. Jobs count from
the snapshot they began with: two refresh jobs that overlap may each use what is left of
the day, and a call whose start was not logged is not counted by later jobs, which is why
`CallsNearLimit` is about one refresh job at a time and logs that were written. After a commit that was not applied the claim lapses and another
job extracts again, although the row's next action (`supabase-worker.ts:2607`)
says that paid extraction is not repeated automatically. Calls that were never
settled are forgotten at midnight UTC. Release and skip choose rows by slot
without asking for their status or date, and then set their angles whatever became of
these.

*Scheduler.* A page filled by rows that can never be settled, held rows, or rows
tried without an end starves what is behind it; hence the condition `Crowded`, and
the third disjunct of `RecoveryGoesOn`. The comment at
`publication-executor.ts:380`, that a blocked tenant cannot stop other recovery,
is true of fewer than fifty blocked intents. A failed fill of an unchanged queue
is replayed by its key, and not tried again that day. Without the planner, rows
of all dates count for the slots of a day.

*Connections.* Two sessions that refresh at once, a lost reply, or a crash between
the provider's refresh and the write lose a rotated token, while the X row still
says `verified`. Any error of a refresh makes LinkedIn `needs_reconnect`. A tick that
hangs blocks the later ones of its isolate.

*Agent jobs.* A handler whose lease is gone is not stopped before its next assertion,
and the assertion before a draft covers up to five paid requests and uploads; hence
`Stretch` in `LateEffectsAreOneStretch` and in `JobPromise`. With `Stretch = 1` both
are true of publications and extractions only.

*Social action.* A network error other than a timeout is recorded as
`confirmed_failure` after the write may have happened. `verifySocialConnectorAction`
reads no row: a verification that names another post, of this account or of another
action, records `success` and that post's id under a key that nobody has written for;
one that is answered with another post records `confirmed_failure` and the other id;
and a late one may replace `success` by a failure. Hence `misnamed` in
`SuccessIsReal`. `OneWritePerKey` needs no such condition. A failed or pending key is
never retried.

*Ingest.* The lookup of existing rows is limited to as many rows as it asks for
values, so that rows with several matches may hide others. A disconnect that races with a
pairing leaves the new device; a revoked device finishes the batch it
was authorised for.

*Control plane.* Two checkouts may each make a Stripe customer, and the later one is
stored. Webhooks carry no order: an older event replaces a newer one, which is
why `BillingIsLastHeard` speaks of what was last heard.

## 7. Plan

1. Composition: a job of `AgentJobs` whose effects are `Publication` executions,
   with the relay as the provider and `JobPromise`, `PublicationPromise` as their
   interfaces. Until then the seam is by hand: `Publication` lets any number of executions
   of an item race, which is more than overlapping jobs can do.
2. Abstract specifications of the connection lifecycle (one winner per revision)
   and of the social connector (one write per key), and proofs that the
   components refine them as the executor and the jobs refine theirs.
3. Proofs of what the runs do not name: that a scheduled key is asked for by the
   state it names, and that a draft's row is never lost between commit and publication.

## 8. Not modelled

- Rollout and readiness policies, tenant credentials and settings: pure decisions
  and copies of configuration. `Cleared` in `Publication`, `Off` and `Held` in `Scheduler` and
  `Managed` and `Keyed` in `Connections` stand for their results.
- Provider adapters and drafting: request building, prompts and parsing. Their
  outcomes are choices; the refreshes of X and LinkedIn and the order and log of
  paid calls are modelled.
- Of the hosted runtime: worker logs as such, the summary
  of a pipeline (`finalizePipelineSummary`), tenants beyond one page of 200, the order of waiting
  ticks, and code that nothing calls (`releaseStaleRefreshAngleLocks`,
  `verifyXCredentialForPublish`, `markXCredentialFailure`,
  `prepareThreadsCredentialForPublish`).
- Of the control plane: the second factor, the throttling of logins, settings,
  secrets and the audit log.
- Of the hosted database: its procedures and unique indexes are not in the
  repository's source; procedures are modelled from their callers and
  tests, and no index is assumed.
- Command line and manual tools: entry points.
