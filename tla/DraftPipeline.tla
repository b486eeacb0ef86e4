---------------------------- MODULE DraftPipeline ----------------------------
(***************************************************************************)
(* How one tenant's drafts are made: the refresh, release and skip jobs of *)
(* src/supabase-worker.ts over the claims of src/worker-claims.ts, the     *)
(* slots of src/slot-scheduler.ts and the log of paid calls of src/ai.ts.  *)
(* The database functions are external: a claim is fenced by its token and *)
(* a commit is one transaction.  An angle is <<source, revision, platform>>.*)
(* Several jobs of the tenant may run at once; each may be cut off.        *)
(***************************************************************************)
EXTENDS Naturals, FiniteSets

CONSTANTS
    Jobs,       \* agent jobs; each runs once
    Sources,    \* source records
    Revisions,  \* revisions of their content, 1 .. n
    Angles,     \* what extraction may find
    Platforms,  \* enabled platforms
    Instagram,  \* the platform whose drafts need an image
    Days,       \* local dates that rows are planned for
    PerDay,     \* DAILY_SLOT_HOURS.length
    Limit,      \* daily call limits, of "text" and "image"
    Options,    \* what a refresh job may be asked for: only existing angles (fill), a
                \* date (target), and the platforms that are enabled (on)
    MaxFaults,  \* bound on crashes, lapsed claims, logs that are lost and midnights
    None

Slots == Days \X (1..PerDay)
Types == {"text", "image"}
Stages == {"extraction", "draft", "revision", "prompt", "image"}
TypeOf(stage) == IF stage = "image" THEN "image" ELSE "text"
SourceOf(a) == a[1]
RevisionOf(a) == a[2]
PlatformOf(a) == a[3]

ASSUME PipelineAssumption ==
    /\ Revisions \subseteq Nat \ {0} /\ 1 \in Revisions /\ Angles \subseteq Sources \X Revisions \X Platforms
    /\ PerDay \in Nat /\ Limit \in [Types -> Nat] /\ None \notin Jobs /\ Sources \cap Angles = {}
    /\ Options \subseteq [fill : BOOLEAN, target : Days \cup {None}, on : SUBSET Platforms]

VARIABLES
    job,       \* what each job does, and its locals
    revision,  \* source_records: the current revision of each source
    banked,    \* the revisions whose angles were committed
    angle,     \* angle_records: the status of each angle
    claim,     \* the claim on each source and angle
    rows,      \* queue_items
    log,       \* worker_logs of today: calls that were started, and not ended
    paid,      \* calls made today, up to the first overlap of two refresh jobs and
               \* the first log that was not written; None from then on
    repeated,  \* a call was made again although its job could see it was unsettled
    faults     \* what went wrong so far, up to MaxFaults

vars == <<job, revision, banked, angle, claim, rows, log, paid, repeated, faults>>
ghosts == <<paid, repeated, faults>>
data == <<revision, banked, angle, claim, rows, log>>

Row == [angle : Angles, slot : Slots, status : {"ready", "skipped", "published"}]
Free == [by |-> None, live |-> FALSE]
Call == Jobs \X (Sources \cup Angles) \X Stages

\* The guard of a draft is asked once; a revision and the words for an image are
\* text calls besides.
Most == [text |-> Limit["text"] + 2, image |-> Limit["image"]]
PastMost == [t \in Types |-> Most[t] + 1]  \* where the count of calls stops

----------------------------------------------------------------------------
(* Jobs *)

NoJob == [pc |-> "new", kind |-> "refresh", fill |-> FALSE, target |-> None, on |-> {},
          occupied |-> {}, unsure |-> {}, count |-> [t \in Types |-> 0], angles |-> {}, keys |-> {},
          seen |-> FALSE, sources |-> {}, banking |-> FALSE, work |-> None, rev |-> 0, slot |-> None,
          stage |-> "extraction", drop |-> {}]
At(j, pc) == job[j].pc = pc
Goto(j, pc) == job' = [job EXCEPT ![j].pc = pc]
Become(j, next) == job' = [job EXCEPT ![j] = next]
Done(j) == Become(j, [NoJob EXCEPT !.pc = "done", !.drop = job[j].drop])
AfterAngles(j) == Become(j, [job[j] EXCEPT !.pc = "after", !.angles = {}, !.keys = {}, !.work = None,
                                            !.slot = None, !.stage = "extraction"])
Fault == faults < MaxFaults /\ faults' = faults + 1
Working(j) == job[j].pc \notin {"new", "done"}
Refreshing(j) == Working(j) /\ job[j].kind = "refresh"

IsActive(status) == status \in {"unused", "in_progress"}
Current(a) == RevisionOf(a) = revision[SourceOf(a)]
ActiveAngles == {a \in Angles : Current(a) /\ IsActive(angle[a])}

\* loadActiveQueueRows: the slots of rows that are not published or skipped.
Occupied == {<<PlatformOf(r.angle), r.slot>> : r \in {x \in rows : x.status = "ready"}}

\* handleRefreshQueue: options and slot occupancy.
Begin(j, option) ==
    /\ At(j, "new")
    /\ Become(j, [NoJob EXCEPT !.pc = "logs", !.fill = option.fill, !.target = option.target,
                               !.on = option.on, !.occupied = Occupied])
    /\ paid' = IF \E i \in Jobs : Refreshing(i) THEN None ELSE paid
    /\ UNCHANGED <<data, repeated, faults>>

\* The calls of today, and whether there are angles to begin with.
ReadLogs(j) ==
    /\ At(j, "logs")
    /\ \/ job[j].on = {} /\ Done(j)
       \/ job[j].fill /\ ActiveAngles = {} /\ Done(j)
       \/ /\ job[j].on # {} /\ (job[j].fill => ActiveAngles # {})
          /\ Become(j, [job[j] EXCEPT !.pc = IF ActiveAngles # {} THEN "load" ELSE "sources",
                                      !.unsure = {<<c[2], TypeOf(c[3])>> : c \in log.open},
                                      !.count = log.count])
    /\ UNCHANGED <<data, ghosts>>

----------------------------------------------------------------------------
(* Guards before a paid call *)

OnDay(occupied, p, day) == {x \in occupied : x[1] = p /\ (day = None \/ x[2][1] = day)}
HasRoom(j, p) == Cardinality(OnDay(job[j].occupied, p, job[j].target)) < PerDay
OpenSlots(j, p) ==
    {s \in Slots : <<p, s>> \notin job[j].occupied /\ (job[j].target = None \/ s[1] = job[j].target)}

\* Slip: a call that was started and never ended is forgotten.
PreflightForgetful(j, target, type) == job[j].count[type] < Limit[type]

\* preflightOpenAIGeneration: no unsettled call of the same target, and room in
\* the day's limit; repeated failures and settings may refuse any call besides.
Preflight(j, target, type) ==
    <<target, type>> \notin job[j].unsure /\ job[j].count[type] < Limit[type]

----------------------------------------------------------------------------
(* queueFromBankedAngles *)

\* The angles to go through, of platforms that have room on the planned day, and
\* those that have a queue row.
LoadAngles(j) ==
    LET planned == {p \in job[j].on : job[j].target = None \/ HasRoom(j, p)}
        found == {a \in ActiveAngles : job[j].target = None \/ PlatformOf(a) \in planned}
    IN  /\ At(j, "load")
        /\ Become(j, [job[j] EXCEPT !.pc = "angles", !.seen = FALSE,
                                    !.angles = IF planned = {} THEN {} ELSE found,
                                    !.keys = {r.angle : r \in rows} \cap found])
        /\ UNCHANGED <<data, ghosts>>

SetIf(a, from, to) == angle' = [angle EXCEPT ![a] = IF @ = from THEN to ELSE @]
PassAngle(j, a) == Become(j, [job[j] EXCEPT !.angles = job[j].angles \ {a}, !.seen = TRUE])

\* One angle: rejected with its platform, passed over, or taken with an open slot
\* that is still to come.
NextAngle(j) == \E a \in job[j].angles :
    LET p == PlatformOf(a)  queued == a \in job[j].keys IN
    /\ At(j, "angles")
    /\ \/ /\ p \notin job[j].on
          /\ SetIf(a, "unused", "rejected")
          /\ Become(j, [job[j] EXCEPT !.angles = job[j].angles \ {a}])
       \/ /\ p \in job[j].on
          /\ IF HasRoom(j, p) /\ queued THEN SetIf(a, "unused", "drafted") ELSE UNCHANGED angle
          /\ PassAngle(j, a)
       \/ /\ p \in job[j].on /\ HasRoom(j, p) /\ ~queued
          /\ Preflight(j, a, "text") /\ (p = Instagram => Preflight(j, a, "image"))
          /\ \E s \in OpenSlots(j, p) :
                Become(j, [job[j] EXCEPT !.pc = "claim", !.angles = job[j].angles \ {a}, !.seen = TRUE,
                                         !.work = a, !.slot = s, !.stage = "draft"])
          /\ UNCHANGED angle
    /\ UNCHANGED <<revision, banked, claim, rows, log, ghosts>>

\* After the last angle, or when the job has drafted or failed once.
AnglesEnd(j) ==
    /\ At(j, "after") \/ (At(j, "angles") /\ job[j].angles = {})
    /\ IF (job[j].seen \/ job[j].banking) /\ ActiveAngles # {} THEN Done(j)
       ELSE IF job[j].banking THEN Goto(j, "source")
       ELSE IF job[j].fill THEN Done(j) ELSE Goto(j, "sources")
    /\ UNCHANGED <<data, ghosts>>

Held(j, x) == claim[x].by = j
Take(j, x) == claim' = [claim EXCEPT ![x] = [by |-> j, live |-> TRUE]]
GiveBack(x) == claim' = [claim EXCEPT ![x] = Free]

\* claim_angle_record_by_id, and the replies the job may get.
ClaimAngle(j) ==
    LET a == job[j].work
        claimable == Current(a) /\ (angle[a] = "unused" \/ (angle[a] = "in_progress" /\ ~claim[a].live))
    IN  /\ At(j, "claim")
        /\ \/ /\ claimable
              /\ angle' = [angle EXCEPT ![a] = "in_progress"] /\ Take(j, a)
              /\ \/ Goto(j, "start") \/ AfterAngles(j)
           \/ ~claimable /\ Goto(j, "angles") /\ UNCHANGED <<angle, claim>>
           \/ AfterAngles(j) /\ UNCHANGED <<angle, claim>>
        /\ UNCHANGED <<revision, banked, rows, log, ghosts>>

----------------------------------------------------------------------------
(* A paid call: chatComplete and generateImage, with recordOpenAIUsage *)

ThisCall(j) == <<j, job[j].work, job[j].stage>>
OneMore(count, stage, most) ==
    [t \in Types |-> IF t = TypeOf(stage) /\ count[t] < most[t] THEN count[t] + 1 ELSE count[t]]

\* A line of the log is best effort.
Logged(next) ==
    \/ log' = next /\ UNCHANGED faults
    \/ Fault /\ UNCHANGED log

\* Slip: the job does not count the calls it makes.
StartUncounted(j) ==
    LET stage == job[j].stage IN
    /\ At(j, "start")
    /\ Goto(j, "calling")
    /\ Logged([count |-> OneMore(log.count, stage, Limit), open |-> log.open \cup {ThisCall(j)}])
    /\ paid' = IF paid = None \/ log' = log THEN None ELSE OneMore(paid, stage, PastMost)
    /\ repeated' = (repeated \/ <<job[j].work, TypeOf(stage)>> \in job[j].unsure)
    /\ UNCHANGED <<revision, banked, angle, claim, rows>>

\* The call is counted, logged as started, and made; but before the first one the
\* worker may find that it has lost the job.
Start(j) ==
    LET stage == job[j].stage IN
    /\ At(j, "start")
    /\ \/ /\ Become(j, [job[j] EXCEPT !.pc = "calling", !.count = OneMore(job[j].count, stage, Limit)])
          /\ Logged([count |-> OneMore(log.count, stage, Limit), open |-> log.open \cup {ThisCall(j)}])
          /\ paid' = IF paid = None \/ log' = log THEN None ELSE OneMore(paid, stage, PastMost)
          /\ repeated' = (repeated \/ <<job[j].work, TypeOf(stage)>> \in job[j].unsure)
       \/ stage \in {"extraction", "draft"} /\ Goto(j, "release") /\ UNCHANGED <<log, ghosts>>
    /\ UNCHANGED <<revision, banked, angle, claim, rows>>

\* draftForPlatform, generateImage: what may follow a call; a text that is weak is
\* revised once, Instagram needs an image and the words for it.
AfterText(a) == IF PlatformOf(a) = Instagram THEN {"prompt"} ELSE {"commit", "empty"}
Following(a, stage) ==
    CASE stage = "draft" -> {"revision"} \cup AfterText(a)
      [] stage = "revision" -> AfterText(a)
      [] stage = "prompt" -> {"image"}
      [] stage = "image" -> {"commit", "empty"}

\* The reply, and the log of it: angles, a text or an image, or a failure.
Reply(j) ==
    LET a == job[j].work IN
    /\ At(j, "calling")
    /\ Logged([log EXCEPT !.open = log.open \ {ThisCall(j)}])
    /\ \/ a \notin Angles /\ Goto(j, "bank")
       \/ /\ a \in Angles
          /\ \E next \in Following(a, job[j].stage) :
                IF next \in Stages THEN Become(j, [job[j] EXCEPT !.pc = "start", !.stage = next])
                ELSE Goto(j, next)
       \/ Goto(j, "release")
    /\ UNCHANGED <<revision, banked, angle, claim, rows, paid, repeated>>

\* releaseAngleClaimBestEffort, releaseSourceClaimBestEffort: the claim is given
\* back or the call is lost; then another source, or the end of the angles.
ReleaseClaim(j) ==
    LET x == job[j].work IN
    /\ At(j, "release")
    /\ \/ /\ Held(j, x) /\ GiveBack(x)
          /\ IF x \in Angles THEN SetIf(x, "in_progress", "unused") ELSE UNCHANGED angle
       \/ UNCHANGED <<claim, angle>>
    /\ IF x \in Angles THEN AfterAngles(j) ELSE Goto(j, "source") \/ Done(j)
    /\ UNCHANGED <<revision, banked, rows, log, ghosts>>

\* commit_claimed_angle_draft: the claim must be this job's and the slot open;
\* then the row is there, the angle drafted and the claim gone.  The reply may be
\* lost, before or after.
Commit(j) ==
    LET a == job[j].work
        valid == Held(j, a) /\ angle[a] = "in_progress" /\ <<PlatformOf(a), job[j].slot>> \notin Occupied
    IN  /\ At(j, "commit")
        /\ \/ /\ valid
              /\ rows' = rows \cup {[angle |-> a, slot |-> job[j].slot, status |-> "ready"]}
              /\ angle' = [angle EXCEPT ![a] = "drafted"] /\ GiveBack(a)
              /\ Done(j) \/ Goto(j, "exhaust")
           \/ Goto(j, "exhaust") /\ UNCHANGED <<rows, angle, claim>>
        /\ UNCHANGED <<revision, banked, log, ghosts>>

\* exhaustAngleClaimBestEffort: the claim is spent, if it is still this job's;
\* after a failed commit the job ends its angles, without a text it goes on.
Exhaust(j) ==
    LET a == job[j].work IN
    /\ At(j, "exhaust") \/ At(j, "empty")
    /\ \/ Held(j, a) /\ angle[a] = "in_progress" /\ angle' = [angle EXCEPT ![a] = "exhausted"] /\ GiveBack(a)
       \/ UNCHANGED <<angle, claim>>
    /\ IF At(j, "empty") THEN Goto(j, "angles") ELSE AfterAngles(j)
    /\ UNCHANGED <<revision, banked, rows, log, ghosts>>

----------------------------------------------------------------------------
(* processBankedSourceRecords *)

Processable(s) == revision[s] \notin banked[s]

LoadSources(j) ==
    /\ At(j, "sources")
    /\ Become(j, [job[j] EXCEPT !.pc = "source", !.banking = TRUE, !.sources = {s \in Sources : Processable(s)}])
    /\ UNCHANGED <<data, ghosts>>

\* claim_source_record_by_id of the next one, for its current revision.
ClaimSource(j) == \E s \in job[j].sources :
    LET claimable == Processable(s) /\ ~claim[s].live
        taken(pc) == Become(j, [job[j] EXCEPT !.pc = pc, !.sources = job[j].sources \ {s}, !.work = s,
                                              !.rev = revision[s], !.stage = "extraction"])
    IN  /\ At(j, "source")
        /\ \/ claimable /\ Take(j, s) /\ (taken("guard") \/ Done(j))
           \/ ~claimable /\ UNCHANGED claim /\ Become(j, [job[j] EXCEPT !.sources = job[j].sources \ {s}])
           \/ Done(j) /\ UNCHANGED claim
        /\ UNCHANGED <<revision, banked, angle, rows, log, ghosts>>

SourcesEnd(j) ==
    /\ At(j, "source") /\ job[j].sources = {} /\ Done(j) /\ UNCHANGED <<data, ghosts>>

\* The guard, after the claim: a refusal gives the claim back and ends the job.
GuardSource(j) ==
    LET s == job[j].work IN
    /\ At(j, "guard")
    /\ \/ Preflight(j, s, "text") /\ Goto(j, "start") /\ UNCHANGED claim
       \/ Held(j, s) /\ GiveBack(s) /\ Done(j)
       \/ Done(j) /\ UNCHANGED claim
    /\ UNCHANGED <<revision, banked, angle, rows, log, ghosts>>

\* commit_source_angle_extraction, for the revision that was claimed: its angles
\* are there, once, and the source is done; a lost reply ends the job with the
\* claim in place.
Bank(j) ==
    LET s == job[j].work IN
    /\ At(j, "bank")
    /\ \/ /\ Held(j, s) /\ GiveBack(s)
          /\ banked' = [banked EXCEPT ![s] = @ \cup {job[j].rev}]
          /\ \E found \in SUBSET {a \in Angles : SourceOf(a) = s /\ RevisionOf(a) = job[j].rev
                                                 /\ PlatformOf(a) \in job[j].on} :
                /\ angle' = [a \in Angles |-> IF a \in found /\ angle[a] = "none" THEN "unused" ELSE angle[a]]
                /\ Goto(j, IF found = {} THEN "source" ELSE "load") \/ Done(j)
       \/ Done(j) /\ UNCHANGED <<claim, banked, angle>>
    /\ UNCHANGED <<revision, rows, log, ghosts>>

----------------------------------------------------------------------------
(* handleReleaseSlot and handleSkipSlot *)

StatusAfter(kind) == IF kind = "release" THEN "unused" ELSE "rejected"

\* Slip: the angles first; whoever is cut off there leaves the rows.
DropAnglesFirst(j, kind, targets) ==
    /\ At(j, "new") /\ targets # {}
    /\ angle' = [a \in Angles |-> IF \E r \in targets : r.angle = a THEN StatusAfter(kind) ELSE angle[a]]
    /\ Become(j, [NoJob EXCEPT !.pc = "drop", !.kind = kind])
    /\ UNCHANGED <<revision, banked, claim, rows, log, ghosts>>

\* Slip: the rows are dropped and their angles forgotten.
DropRowsOnly(j, kind, targets) ==
    /\ At(j, "new") /\ targets # {}
    /\ rows' = IF kind = "release" THEN rows \ targets
               ELSE {IF r \in targets THEN [r EXCEPT !.status = "skipped"] ELSE r : r \in rows}
    /\ Become(j, [NoJob EXCEPT !.pc = "drop", !.kind = kind])
    /\ UNCHANGED <<revision, banked, angle, claim, log, ghosts>>

\* The rows that match are deleted or marked.
DropRows(j, kind, targets) ==
    /\ At(j, "new") /\ targets # {}
    /\ rows' = IF kind = "release" THEN rows \ targets
               ELSE {IF r \in targets THEN [r EXCEPT !.status = "skipped"] ELSE r : r \in rows}
    /\ Become(j, [NoJob EXCEPT !.pc = "drop", !.kind = kind, !.drop = {r.angle : r \in targets}])
    /\ UNCHANGED <<revision, banked, angle, claim, log, ghosts>>

\* Then their angles, one by one.
DropAngle(j) ==
    /\ At(j, "drop")
    /\ \/ \E a \in job[j].drop :
             /\ angle' = [angle EXCEPT ![a] = StatusAfter(job[j].kind)]
             /\ Become(j, [job[j] EXCEPT !.drop = job[j].drop \ {a}])
       \/ job[j].drop = {} /\ Done(j) /\ UNCHANGED angle
    /\ UNCHANGED <<revision, banked, claim, rows, log, ghosts>>

----------------------------------------------------------------------------
(* The rest of the world *)

\* The worker ends, or the job ends with an error.
Crash(j) ==
    /\ Working(j) /\ Fault /\ Done(j) /\ UNCHANGED <<data, paid, repeated>>

\* A claim outlives its lease.
Lapse(x) ==
    /\ claim[x].live /\ Fault /\ claim' = [claim EXCEPT ![x].live = FALSE]
    /\ UNCHANGED <<job, revision, banked, angle, rows, log, paid, repeated>>

\* The owner edits a source: it has a new revision.
Edit(s) ==
    /\ revision[s] + 1 \in Revisions /\ revision' = [revision EXCEPT ![s] = @ + 1]
    /\ UNCHANGED <<job, banked, angle, claim, rows, log, ghosts>>

Publish(r) ==
    /\ r.status = "ready" /\ rows' = (rows \ {r}) \cup {[r EXCEPT !.status = "published"]}
    /\ UNCHANGED <<job, revision, banked, angle, claim, log, ghosts>>

\* openAIUsageDayStartIso: what was logged yesterday is not looked at any more.
NewDay ==
    /\ Fault
    /\ log' = [count |-> [t \in Types |-> 0], open |-> {}]
    /\ paid' = IF paid = None THEN None ELSE [t \in Types |-> 0]
    /\ UNCHANGED <<job, revision, banked, angle, claim, rows, repeated>>

Init ==
    /\ job = [j \in Jobs |-> NoJob]
    /\ revision = [s \in Sources |-> 1]
    /\ banked \in [Sources -> {{}, {1}}]
    /\ angle = [a \in Angles |-> IF RevisionOf(a) \in banked[SourceOf(a)] THEN "unused" ELSE "none"]
    /\ claim = [x \in Sources \cup Angles |-> Free] /\ rows = {}
    /\ log = [count |-> [t \in Types |-> 0], open |-> {}]
    /\ paid = [t \in Types |-> 0]
    /\ repeated = FALSE /\ faults = 0

Step(j) ==
    \/ ReadLogs(j) \/ LoadAngles(j) \/ NextAngle(j) \/ AnglesEnd(j) \/ ClaimAngle(j)
    \/ Start(j) \/ Reply(j) \/ ReleaseClaim(j) \/ Commit(j) \/ Exhaust(j)
    \/ LoadSources(j) \/ ClaimSource(j) \/ SourcesEnd(j) \/ GuardSource(j) \/ Bank(j) \/ DropAngle(j)

Next ==
    \/ \E j \in Jobs : Step(j) \/ Crash(j)
    \/ \E j \in Jobs, option \in Options : Begin(j, option)
    \/ \E j \in Jobs, kind \in {"release", "skip"}, targets \in SUBSET rows : DropRows(j, kind, targets)
    \/ \E x \in Sources \cup Angles : Lapse(x)
    \/ \E s \in Sources : Edit(s)
    \/ \E r \in rows : Publish(r)
    \/ NewDay

Spec == Init /\ [][Next]_vars

----------------------------------------------------------------------------
(* Properties *)

Pc == {"new", "logs", "load", "angles", "claim", "start", "calling", "commit", "empty", "exhaust",
       "release", "after", "sources", "source", "guard", "bank", "drop", "done"}
Job == [pc : Pc, kind : {"refresh", "release", "skip"}, fill : BOOLEAN, target : Days \cup {None},
        on : SUBSET Platforms, occupied : SUBSET (Platforms \X Slots),
        unsure : SUBSET ((Sources \cup Angles) \X Types), count : [Types -> Nat],
        angles : SUBSET Angles, keys : SUBSET Angles, seen : BOOLEAN, sources : SUBSET Sources,
        banking : BOOLEAN, work : Sources \cup Angles \cup {None}, rev : Revisions \cup {0},
        slot : Slots \cup {None}, stage : Stages, drop : SUBSET Angles]

TypeOK ==
    /\ job \in [Jobs -> Job]
    /\ revision \in [Sources -> Revisions] /\ banked \in [Sources -> SUBSET Revisions]
    /\ angle \in [Angles -> {"none", "unused", "in_progress", "drafted", "exhausted", "rejected"}]
    /\ claim \in [Sources \cup Angles -> [by : Jobs \cup {None}, live : BOOLEAN]]
    /\ rows \in SUBSET Row /\ log \in [count : [Types -> Nat], open : SUBSET Call]
    /\ paid \in [Types -> Nat] \cup {None} /\ repeated \in BOOLEAN /\ faults \in Nat

\* An angle that has a row is not there to be drafted, and no two rows that are
\* to be posted share an angle or a slot, whatever jobs overlap, are cut off or
\* lose their claims (queueFromBankedAngles, handleReleaseSlot, handleSkipSlot).
QueuedIsNotDraftable ==
    \A r \in rows :
        /\ r.status # "skipped" => ~IsActive(angle[r.angle])
        /\ \A q \in rows : q # r /\ r.status = "ready" /\ q.status = "ready" =>
               q.angle # r.angle /\ <<PlatformOf(q.angle), q.slot>> # <<PlatformOf(r.angle), r.slot>>

\* An angle in progress has a claim, which lapses if it is not given back: a draft
\* that failed, was committed or was cut off never leaves an angle that nobody can
\* take (releaseAngleClaimBestEffort, exhaustAngleClaimBestEffort).
InProgressIsClaimed == \A a \in Angles : angle[a] = "in_progress" => claim[a].by # None

\* An angle that is drafted has its row, unless a release or skip of it is under
\* way or was cut off between the rows and their angles (worker 3817, 3863).
DraftsAreKept ==
    \A a \in Angles : angle[a] = "drafted" =>
        \/ \E r \in rows : r.angle = a
        \/ \E j \in Jobs : a \in job[j].drop

\* A day's calls go past the limits by no more than the calls of one draft when
\* one refresh job runs at a time and every start is logged, over crashes, retries
\* and midnight (preflightOpenAIGeneration, recordOpenAIUsageOnSummary).
CallsNearLimit == paid # None => \A t \in Types : paid[t] <= Most[t]

\* A call that was started and of which no end is known is not made again by a
\* job that began after it, on that day (openAIUncertainAttemptDecision).
UnsettledIsNotRepeated == ~repeated

----------------------------------------------------------------------------
(* The inductive invariant behind them *)

\* An angle has one row at most, whatever its status, and none while it can be drafted.
OneRowOfAngle ==
    /\ \A q, r \in rows : q.angle = r.angle => q = r
    /\ \A r \in rows : angle[r.angle] # "none" /\ ~IsActive(angle[r.angle])

\* What a release is about to make draftable again has no row and is nobody else's to release.
Releases(j, a) == At(j, "drop") /\ job[j].kind = "release" /\ a \in job[j].drop
ReleasesAreAlone ==
    \A j \in Jobs, a \in Angles : Releases(j, a) =>
        /\ angle[a] # "none" /\ ~IsActive(angle[a]) /\ \A r \in rows : r.angle # a
        /\ \A i \in Jobs : Releases(i, a) => i = j

\* What a job works on at each point, and that its guard has passed what it will call for.
WorkSound(j) ==
    LET s == job[j]
    IN  /\ s.keys = {} /\ (s.pc = "new" => s.drop = {}) /\ (s.kind = "refresh" <=> s.pc # "drop")
        /\ s.pc \in {"commit", "empty", "exhaust"} => s.work \in Angles
        /\ s.pc \in {"guard", "bank"} => s.work \in Sources /\ s.rev \in Revisions
        /\ s.pc = "commit" => s.slot \in Slots
        /\ s.pc = "release" => s.work \in Sources \cup Angles
        /\ s.pc = "claim" => s.stage = "draft"
        /\ s.pc = "guard" => s.stage = "extraction"
        /\ s.pc \in {"claim", "start", "calling"} =>
             /\ IF s.stage = "extraction" THEN s.work \in Sources /\ s.rev \in Revisions
                ELSE s.work \in Angles /\ s.slot \in Slots
             /\ s.stage \in {"prompt", "image"} => PlatformOf(s.work) = Instagram
             /\ <<s.work, "text">> \notin s.unsure
             /\ s.stage # "extraction" /\ PlatformOf(s.work) = Instagram => <<s.work, "image">> \notin s.unsure

\* The texts a draft has asked for before a stage, at most.
TextsBefore == [extraction |-> 0, draft |-> 0, revision |-> 1, prompt |-> 2, image |-> 3]

\* While the calls are counted: one refresh job runs, the log and the job know of every
\* call, and the calls of the draft in progress are those its guard left room for.
Counted(count) == \A t \in Types : count[t] < Limit[t] => paid[t] <= count[t]
RoomLeft(j) ==
    LET s == job[j]
    IN  /\ s.pc \in {"claim", "start"} => paid["text"] < Limit["text"] + TextsBefore[s.stage]
        /\ s.pc = "calling" => paid["text"] <= Limit["text"] + TextsBefore[s.stage]
        /\ s.pc \in {"claim", "start", "calling"} /\ s.stage # "extraction" /\ PlatformOf(s.work) = Instagram
             => paid["image"] < Limit["image"] \/ (s.pc = "calling" /\ s.stage = "image")
CallsSound ==
    paid # None =>
        /\ \A i, j \in Jobs : Refreshing(i) /\ Refreshing(j) => i = j
        /\ Counted(log.count)
        /\ \A j \in Jobs : Refreshing(j) => (At(j, "logs") \/ Counted(job[j].count)) /\ RoomLeft(j)

IInv ==
    /\ TypeOK /\ OneRowOfAngle /\ QueuedIsNotDraftable /\ ReleasesAreAlone /\ InProgressIsClaimed /\ DraftsAreKept
    /\ CallsSound /\ CallsNearLimit /\ UnsettledIsNotRepeated /\ \A j \in Jobs : WorkSound(j)
=============================================================================
