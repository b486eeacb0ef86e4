------------------------- MODULE DraftPipelineProofs -------------------------
(***************************************************************************)
(* Safety of the draft pipeline, for any jobs, sources, angles, slots,     *)
(* limits and number of faults.  Three facts carry it.  An angle that may  *)
(* be drafted has no row, so a commit never gives it a second one, and     *)
(* what a release is about to make draftable is that release's alone.  A   *)
(* job works on what its guard has passed.  While the calls of a day are   *)
(* counted, a count below its limit has missed no call.                    *)
(***************************************************************************)
EXTENDS DraftPipeline, TLAPS

----------------------------------------------------------------------------
(* One job moves *)

\* A step of one job: everything but what it works on is shown of the whole state.
LEMMA StepKeeps ==
  ASSUME IInv, NEW j \in Jobs, NEW n \in Job, job' = [job EXCEPT ![j] = n],
         TypeOK', OneRowOfAngle', QueuedIsNotDraftable', ReleasesAreAlone', InProgressIsClaimed',
         DraftsAreKept', CallsSound', CallsNearLimit', UnsettledIsNotRepeated', WorkSound(j)'
  PROVE  IInv'
<1>1. \A i \in Jobs \ {j} : job'[i] = job[i]
  BY DEF IInv, TypeOK
<1>2. \A i \in Jobs \ {j} : WorkSound(i)'
  BY <1>1 DEF IInv, WorkSound
<1> QED
  BY <1>2 DEF IInv

\* A job that goes on, or ends, without touching angles or rows.
LEMMA DraftsStay ==
  ASSUME IInv, NEW j \in Jobs, NEW n \in Job, job' = [job EXCEPT ![j] = n],
         n.pc # "drop", job[j].drop \subseteq n.drop, UNCHANGED <<angle, rows>>
  PROVE  OneRowOfAngle' /\ QueuedIsNotDraftable' /\ ReleasesAreAlone' /\ DraftsAreKept'
<1>1. job'[j] = n /\ \A i \in Jobs \ {j} : job'[i] = job[i]
  BY DEF IInv, TypeOK
<1>2. OneRowOfAngle' /\ QueuedIsNotDraftable'
  BY DEF IInv, OneRowOfAngle, QueuedIsNotDraftable
<1>3. ReleasesAreAlone'
  BY <1>1 DEF IInv, ReleasesAreAlone, Releases, At
<1>4. DraftsAreKept'
  <2>1. \A i \in Jobs : job[i].drop \subseteq job'[i].drop
    BY <1>1
  <2> QED BY <2>1 DEF IInv, DraftsAreKept
<1> QED
  BY <1>2, <1>3, <1>4

\* An angle that can be drafted, or is being drafted, changes its status; it has no row.
LEMMA AngleMoves ==
  ASSUME IInv, NEW j \in Jobs, NEW n \in Job, job' = [job EXCEPT ![j] = n],
         n.pc # "drop", job[j].drop \subseteq n.drop, UNCHANGED rows,
         NEW a \in Angles, IsActive(angle[a]),
         NEW status \in {"unused", "in_progress", "exhausted", "rejected"},
         angle' = [angle EXCEPT ![a] = status]
  PROVE  OneRowOfAngle' /\ QueuedIsNotDraftable' /\ ReleasesAreAlone' /\ DraftsAreKept'
<1>1. /\ job'[j] = n /\ \A i \in Jobs \ {j} : job'[i] = job[i]
      /\ angle'[a] = status /\ \A b \in Angles \ {a} : angle'[b] = angle[b]
      /\ \A r \in rows : r.angle \in Angles
  BY DEF IInv, TypeOK, Row
<1>2. \A r \in rows : r.angle # a
  BY DEF IInv, OneRowOfAngle
<1>3. OneRowOfAngle' /\ QueuedIsNotDraftable'
  BY <1>1, <1>2 DEF IInv, OneRowOfAngle, QueuedIsNotDraftable
<1>4. ReleasesAreAlone'
  <2>1. \A i \in Jobs : ~Releases(i, a)
    BY DEF IInv, ReleasesAreAlone
  <2>2. \A i \in Jobs, b \in Angles : Releases(i, b)' => Releases(i, b)
    BY <1>1 DEF Releases, At
  <2> QED BY <1>1, <2>1, <2>2 DEF IInv, ReleasesAreAlone
<1>5. DraftsAreKept'
  <2>1. \A i \in Jobs : job[i].drop \subseteq job'[i].drop
    BY <1>1
  <2>2. \A b \in Angles : angle'[b] = "drafted" => angle[b] = "drafted"
    BY <1>1
  <2> QED BY <2>1, <2>2 DEF IInv, DraftsAreKept
<1> QED
  BY <1>3, <1>4, <1>5

\* No call is made; the room that the job's guard has left is still there.
LEMMA CallsStay ==
  ASSUME IInv, NEW j \in Jobs, NEW n \in Job, job' = [job EXCEPT ![j] = n],
         UNCHANGED paid, log'.count = log.count,
         paid # None /\ Refreshing(j)' =>
            /\ Refreshing(j)
            /\ n.pc = "logs" \/ Counted(n.count) \/ (n.count = job[j].count /\ ~At(j, "logs"))
            /\ n.pc \in {"claim", "start", "calling"} => RoomLeft(j)'
  PROVE  CallsSound' /\ CallsNearLimit'
<1>1. job'[j] = n /\ \A i \in Jobs \ {j} : job'[i] = job[i]
  BY DEF IInv, TypeOK
<1>2. CallsNearLimit'
  BY DEF IInv, CallsNearLimit
<1>3. ASSUME paid # None
      PROVE  /\ \A i \in Jobs : Refreshing(i)' => Refreshing(i)
             /\ \A i \in Jobs : Refreshing(i)' => (At(i, "logs")' \/ Counted(job[i].count)') /\ RoomLeft(i)'
  <2>1. \A i \in Jobs \ {j} : (Refreshing(i)' <=> Refreshing(i)) /\ (At(i, "logs")' <=> At(i, "logs"))
    BY <1>1 DEF Refreshing, Working, At
  <2>2. \A i \in Jobs \ {j} : RoomLeft(i) => RoomLeft(i)'
    BY <1>1 DEF RoomLeft
  <2>3. \A i \in Jobs \ {j} : Counted(job[i].count) => Counted(job[i].count)'
    BY <1>1 DEF Counted
  <2>4. Refreshing(j)' => (At(j, "logs")' \/ Counted(job[j].count)') /\ RoomLeft(j)'
    <3> SUFFICES ASSUME Refreshing(j)'
                 PROVE  (At(j, "logs")' \/ Counted(job[j].count)') /\ RoomLeft(j)'
      OBVIOUS
    <3>1. n.pc = "logs" \/ Counted(n.count)
      BY <1>3 DEF IInv, CallsSound
    <3>2. n.pc \notin {"claim", "start", "calling"} => RoomLeft(j)'
      BY <1>1 DEF RoomLeft
    <3> QED BY <1>1, <1>3, <3>1, <3>2 DEF At, Counted
  <2> QED BY <1>3, <2>1, <2>2, <2>3, <2>4 DEF IInv, CallsSound
<1>4. CallsSound'
  <2>1. Counted(log.count) => Counted(log.count)'
    BY DEF Counted
  <2> QED BY <1>3, <2>1 DEF IInv, CallsSound
<1> QED
  BY <1>2, <1>4

\* A step of one job that makes no call and leaves angles and rows alone.
LEMMA LogKeeps ==
  ASSUME IInv, NEW j \in Jobs, NEW n \in Job, job' = [job EXCEPT ![j] = n],
         UNCHANGED <<revision, angle, rows, paid, repeated>>, faults' \in Nat,
         log' \in [count : [Types -> Nat], open : SUBSET Call], log'.count = log.count,
         banked' \in [Sources -> SUBSET Revisions],
         claim' \in [Sources \cup Angles -> [by : Jobs \cup {None}, live : BOOLEAN]],
         InProgressIsClaimed',
         n.pc # "drop", job[j].drop \subseteq n.drop, WorkSound(j)',
         paid # None /\ Refreshing(j)' =>
            /\ Refreshing(j)
            /\ n.pc = "logs" \/ Counted(n.count) \/ (n.count = job[j].count /\ ~At(j, "logs"))
            /\ n.pc \in {"claim", "start", "calling"} => RoomLeft(j)'
  PROVE  IInv'
<1>1. TypeOK'
  BY DEF IInv, TypeOK
<1>2. OneRowOfAngle' /\ QueuedIsNotDraftable' /\ ReleasesAreAlone' /\ DraftsAreKept'
  BY DraftsStay
<1>3. CallsSound' /\ CallsNearLimit'
  BY CallsStay
<1>4. UnsettledIsNotRepeated'
  BY DEF IInv, UnsettledIsNotRepeated
<1> QED
  BY <1>1, <1>2, <1>3, <1>4, StepKeeps

\* A job moves on its own; claims and banked revisions may move under it.
LEMMA QuietKeeps ==
  ASSUME IInv, NEW j \in Jobs, NEW n \in Job, job' = [job EXCEPT ![j] = n],
         UNCHANGED <<revision, angle, rows, log, paid, repeated>>, faults' \in Nat,
         banked' \in [Sources -> SUBSET Revisions],
         claim' \in [Sources \cup Angles -> [by : Jobs \cup {None}, live : BOOLEAN]],
         InProgressIsClaimed',
         n.pc # "drop", job[j].drop \subseteq n.drop, WorkSound(j)',
         paid # None /\ Refreshing(j)' =>
            /\ Refreshing(j)
            /\ n.pc = "logs" \/ Counted(n.count) \/ (n.count = job[j].count /\ ~At(j, "logs"))
            /\ n.pc \in {"claim", "start", "calling"} => RoomLeft(j)'
  PROVE  IInv'
<1>1. log' \in [count : [Types -> Nat], open : SUBSET Call] /\ log'.count = log.count
  BY DEF IInv, TypeOK
<1> QED
  BY <1>1, LogKeeps

\* A step of one job that makes no call and changes the status of an angle that can
\* be drafted.
LEMMA AngleKeeps ==
  ASSUME IInv, NEW j \in Jobs, NEW n \in Job, job' = [job EXCEPT ![j] = n],
         UNCHANGED <<revision, banked, rows, log, paid, repeated, faults>>,
         NEW a \in Angles, IsActive(angle[a]),
         NEW status \in {"unused", "in_progress", "exhausted", "rejected"},
         angle' = [angle EXCEPT ![a] = status],
         claim' \in [Sources \cup Angles -> [by : Jobs \cup {None}, live : BOOLEAN]],
         InProgressIsClaimed',
         n.pc # "drop", job[j].drop \subseteq n.drop, WorkSound(j)',
         paid # None /\ Refreshing(j)' =>
            /\ Refreshing(j)
            /\ n.pc = "logs" \/ Counted(n.count) \/ (n.count = job[j].count /\ ~At(j, "logs"))
            /\ n.pc \in {"claim", "start", "calling"} => RoomLeft(j)'
  PROVE  IInv'
<1>1. TypeOK'
  BY DEF IInv, TypeOK
<1>2. OneRowOfAngle' /\ QueuedIsNotDraftable' /\ ReleasesAreAlone' /\ DraftsAreKept'
  BY AngleMoves
<1>3. CallsSound' /\ CallsNearLimit'
  BY CallsStay
<1>4. UnsettledIsNotRepeated'
  BY DEF IInv, UnsettledIsNotRepeated
<1> QED
  BY <1>1, <1>2, <1>3, <1>4, StepKeeps

----------------------------------------------------------------------------
(* Where a job goes *)

\* A job that has not begun is well typed.
LEMMA NewJob ==
  /\ NoJob \in Job /\ NoJob.pc = "new" /\ NoJob.kind = "refresh" /\ NoJob.drop = {} /\ NoJob.keys = {}
BY PipelineAssumption DEF NoJob, Job, Pc, Types, Stages

\* The job ends; what it has dropped is remembered.
LEMMA DoneMoves ==
  ASSUME IInv, NEW j \in Jobs, Done(j)
  PROVE  \E n \in Job : /\ job' = [job EXCEPT ![j] = n] /\ n.pc = "done" /\ n.drop = job[j].drop
                        /\ WorkSound(j)' /\ ~Refreshing(j)'
<1>1. PICK n : n = [NoJob EXCEPT !.pc = "done", !.drop = job[j].drop]
  OBVIOUS
<1>2. job[j] \in Job /\ job \in [Jobs -> Job]
  BY DEF IInv, TypeOK
<1>3. job[j].drop \in SUBSET Angles
  BY <1>2 DEF Job
<1>4. n \in Job /\ n.pc = "done" /\ n.drop = job[j].drop /\ n.kind = "refresh" /\ n.keys = {}
  BY ZenonT(60), <1>1, <1>3, NewJob DEF Job, Pc
<1>5. job' = [job EXCEPT ![j] = n] /\ job'[j] = n
  BY <1>1, <1>2, <1>4 DEF Done, Become
<1>6. WorkSound(j)' /\ ~Refreshing(j)'
  BY <1>4, <1>5 DEF WorkSound, Refreshing, Working
<1> QED
  BY <1>4, <1>5, <1>6

\* The job goes on to another point.
LEMMA GotoMoves ==
  ASSUME IInv, NEW j \in Jobs, NEW pc \in Pc, Goto(j, pc)
  PROVE  \E n \in Job :
           /\ job' = [job EXCEPT ![j] = n] /\ job'[j] = n
           /\ n.pc = pc /\ n.kind = job[j].kind /\ n.drop = job[j].drop /\ n.count = job[j].count
           /\ n.keys = job[j].keys /\ n.work = job[j].work /\ n.rev = job[j].rev /\ n.slot = job[j].slot
           /\ n.stage = job[j].stage /\ n.unsure = job[j].unsure
<1>1. PICK n : n = [job[j] EXCEPT !.pc = pc]
  OBVIOUS
<1>2. job[j] \in Job /\ job \in [Jobs -> Job]
  BY DEF IInv, TypeOK
<1>3. /\ n \in Job /\ n.pc = pc /\ n.kind = job[j].kind /\ n.drop = job[j].drop /\ n.count = job[j].count
      /\ n.keys = job[j].keys /\ n.work = job[j].work /\ n.rev = job[j].rev /\ n.slot = job[j].slot
      /\ n.stage = job[j].stage /\ n.unsure = job[j].unsure
  BY SMTT(30), <1>1, <1>2 DEF Job
<1>4. job' = [job EXCEPT ![j] = n] /\ job'[j] = n
  BY <1>1, <1>2 DEF Goto
<1> QED
  BY <1>3, <1>4

\* The job is through with its angles.
LEMMA AfterMoves ==
  ASSUME IInv, NEW j \in Jobs, AfterAngles(j), job[j].kind = "refresh"
  PROVE  \E n \in Job : /\ job' = [job EXCEPT ![j] = n] /\ n.pc = "after" /\ n.drop = job[j].drop
                        /\ n.count = job[j].count /\ WorkSound(j)'
<1>1. PICK n : n = [job[j] EXCEPT !.pc = "after", !.angles = {}, !.keys = {}, !.work = None,
                                  !.slot = None, !.stage = "extraction"]
  OBVIOUS
<1>2. job[j] \in Job /\ job \in [Jobs -> Job]
  BY DEF IInv, TypeOK
<1>3. /\ n \in Job /\ n.pc = "after" /\ n.kind = job[j].kind /\ n.drop = job[j].drop
      /\ n.count = job[j].count /\ n.keys = {}
  BY ZenonT(60), <1>1, <1>2 DEF Job, Pc, Stages
<1>4. job' = [job EXCEPT ![j] = n] /\ job'[j] = n
  BY <1>1, <1>2 DEF AfterAngles, Become
<1>5. WorkSound(j)'
  BY <1>3, <1>4 DEF WorkSound
<1> QED
  BY <1>3, <1>4, <1>5

----------------------------------------------------------------------------
(* A job begins, and finds what it may work on *)

\* What is occupied is a slot of a platform.
LEMMA OccupiedType ==
  ASSUME TypeOK
  PROVE  Occupied \subseteq Platforms \X Slots
BY PipelineAssumption DEF TypeOK, Row, Occupied, PlatformOf

\* A job that begins while another refreshes ends the counting of calls.
LEMMA BeginKeeps ==
  ASSUME IInv, NEW j \in Jobs, NEW option \in Options, Begin(j, option)
  PROVE  IInv'
<1>1. PICK n : n = [NoJob EXCEPT !.pc = "logs", !.fill = option.fill, !.target = option.target,
                                 !.on = option.on, !.occupied = Occupied]
  OBVIOUS
<1>2. job \in [Jobs -> Job] /\ job[j].pc = "new" /\ job[j].drop = {}
  BY DEF IInv, TypeOK, Begin, At, WorkSound
<1>3. /\ option.fill \in BOOLEAN /\ option.target \in Days \cup {None} /\ option.on \in SUBSET Platforms
      /\ Occupied \in SUBSET (Platforms \X Slots)
  BY PipelineAssumption, OccupiedType DEF IInv
<1>4. n \in Job /\ n.pc = "logs" /\ n.drop = {} /\ n.kind = "refresh" /\ n.keys = {}
  BY ZenonT(60), <1>1, <1>3, NewJob DEF Job, Pc
<1>5. /\ job' = [job EXCEPT ![j] = n] /\ job'[j] = n
      /\ paid' = IF \E i \in Jobs : Refreshing(i) THEN None ELSE paid
      /\ UNCHANGED <<revision, banked, angle, claim, rows, log, repeated, faults>>
  BY <1>1, <1>2, <1>4 DEF Begin, Become, data
<1>6. WorkSound(j)'
  BY <1>4, <1>5 DEF WorkSound
<1>7. TypeOK' /\ InProgressIsClaimed' /\ UnsettledIsNotRepeated'
  BY <1>4, <1>5 DEF IInv, TypeOK, InProgressIsClaimed, UnsettledIsNotRepeated
<1>8. OneRowOfAngle' /\ QueuedIsNotDraftable' /\ ReleasesAreAlone' /\ DraftsAreKept'
  BY <1>2, <1>4, <1>5, DraftsStay
<1>9. CallsNearLimit'
  BY <1>5 DEF IInv, CallsNearLimit
<1>10. CallsSound'
  <2> SUFFICES ASSUME paid' # None
               PROVE  /\ \A i, k \in Jobs : Refreshing(i)' /\ Refreshing(k)' => i = k
                      /\ Counted(log.count)'
                      /\ \A i \in Jobs : Refreshing(i)' => (At(i, "logs")' \/ Counted(job[i].count)') /\ RoomLeft(i)'
    BY DEF CallsSound
  <2>1. paid' = paid /\ \A i \in Jobs : ~Refreshing(i)
    BY <1>5
  <2>2. \A i \in Jobs \ {j} : ~Refreshing(i)'
    BY <1>2, <1>5, <2>1 DEF Refreshing, Working
  <2>3. At(j, "logs")' /\ RoomLeft(j)'
    BY <1>4, <1>5 DEF At, RoomLeft
  <2>4. Counted(log.count)'
    BY <1>5, <2>1 DEF IInv, CallsSound, Counted
  <2> QED BY <2>2, <2>3, <2>4
<1> QED
  BY <1>4, <1>5, <1>6, <1>7, <1>8, <1>9, <1>10, StepKeeps

\* The log is read once; it knows of every call that is counted.
LEMMA ReadLogsKeeps ==
  ASSUME IInv, NEW j \in Jobs, ReadLogs(j)
  PROVE  IInv'
<1>1. /\ job \in [Jobs -> Job] /\ job[j] \in Job /\ job[j].pc = "logs" /\ WorkSound(j)
      /\ UNCHANGED <<revision, banked, angle, claim, rows, log, paid, repeated, faults>>
      /\ faults \in Nat /\ banked \in [Sources -> SUBSET Revisions]
      /\ claim \in [Sources \cup Angles -> [by : Jobs \cup {None}, live : BOOLEAN]]
  BY DEF IInv, TypeOK, ReadLogs, At, data, ghosts
<1>2. InProgressIsClaimed'
  BY <1>1 DEF IInv, InProgressIsClaimed
<1>3. CASE Done(j)
  BY <1>1, <1>2, <1>3, DoneMoves, QuietKeeps
<1>4. CASE ~Done(j)
  <2>1. PICK pc \in {"load", "sources"} :
          Become(j, [job[j] EXCEPT !.pc = pc, !.unsure = {<<c[2], TypeOf(c[3])>> : c \in log.open},
                                   !.count = log.count])
    BY <1>4 DEF ReadLogs
  <2>2. PICK unsure : unsure = {<<c[2], TypeOf(c[3])>> : c \in log.open}
    OBVIOUS
  <2>3. PICK n : n = [job[j] EXCEPT !.pc = pc, !.unsure = unsure, !.count = log.count]
    OBVIOUS
  <2>4. unsure \in SUBSET ((Sources \cup Angles) \X Types) /\ log.count \in [Types -> Nat]
    BY <2>2 DEF IInv, TypeOK, Call, TypeOf, Types
  <2>5. /\ n \in Job /\ n.pc = pc /\ n.drop = job[j].drop /\ n.kind = job[j].kind /\ n.keys = job[j].keys
        /\ n.count = log.count
    BY ZenonT(60), <1>1, <2>3, <2>4 DEF Job, Pc
  <2>6. job' = [job EXCEPT ![j] = n] /\ job'[j] = n
    BY <1>1, <2>1, <2>2, <2>3 DEF Become
  <2>7. WorkSound(j)'
    BY <1>1, <2>5, <2>6 DEF WorkSound
  <2>8. Refreshing(j) /\ (paid # None => Counted(n.count))
    BY <1>1, <2>5 DEF IInv, CallsSound, Refreshing, Working, WorkSound
  <2> QED BY <1>1, <1>2, <2>5, <2>6, <2>7, <2>8, QuietKeeps
<1> QED
  BY <1>3, <1>4

\* Angles that can be drafted have no row: none is passed over for its row.
LEMMA LoadAnglesKeeps ==
  ASSUME IInv, NEW j \in Jobs, LoadAngles(j)
  PROVE  IInv'
<1>1. /\ job \in [Jobs -> Job] /\ job[j] \in Job /\ job[j].pc = "load" /\ WorkSound(j)
      /\ UNCHANGED <<revision, banked, angle, claim, rows, log, paid, repeated, faults>>
      /\ faults \in Nat /\ banked \in [Sources -> SUBSET Revisions]
      /\ claim \in [Sources \cup Angles -> [by : Jobs \cup {None}, live : BOOLEAN]]
  BY DEF IInv, TypeOK, LoadAngles, At, data, ghosts
<1>2. InProgressIsClaimed'
  BY <1>1 DEF IInv, InProgressIsClaimed
<1>3. PICK found \in SUBSET ActiveAngles, angles \in SUBSET ActiveAngles :
        Become(j, [job[j] EXCEPT !.pc = "angles", !.seen = FALSE, !.angles = angles,
                                 !.keys = {r.angle : r \in rows} \cap found])
  BY DEF LoadAngles
<1>4. {r.angle : r \in rows} \cap found = {}
  BY DEF IInv, OneRowOfAngle, ActiveAngles
<1>5. PICK n : n = [job[j] EXCEPT !.pc = "angles", !.seen = FALSE, !.angles = angles, !.keys = {}]
  OBVIOUS
<1>6. /\ n \in Job /\ n.pc = "angles" /\ n.drop = job[j].drop /\ n.kind = job[j].kind /\ n.keys = {}
      /\ n.count = job[j].count
  BY ZenonT(60), <1>1, <1>5 DEF Job, Pc, ActiveAngles
<1>7. job' = [job EXCEPT ![j] = n] /\ job'[j] = n
  BY <1>1, <1>3, <1>4, <1>5 DEF Become
<1>8. WorkSound(j)' /\ Refreshing(j) /\ ~At(j, "logs")
  BY <1>1, <1>6, <1>7 DEF WorkSound, Refreshing, Working, At
<1> QED
  BY <1>1, <1>2, <1>6, <1>7, <1>8, QuietKeeps

\* An angle moves from the status it has, or stays.
LEMMA SetIfMoves ==
  ASSUME TypeOK, NEW a \in Angles, NEW from, NEW to, SetIf(a, from, to)
  PROVE  (angle[a] = from /\ angle' = [angle EXCEPT ![a] = to]) \/ angle' = angle
BY DEF TypeOK, SetIf

\* The next angle: one whose platform is off is rejected, one that is taken has
\* passed the guards of its text and its image.
LEMMA NextAngleKeeps ==
  ASSUME IInv, NEW j \in Jobs, NextAngle(j)
  PROVE  IInv'
<1>1. /\ job \in [Jobs -> Job] /\ job[j] \in Job /\ job[j].pc = "angles" /\ WorkSound(j) /\ TypeOK
      /\ UNCHANGED <<revision, banked, claim, rows, log, paid, repeated, faults>>
      /\ faults \in Nat /\ banked \in [Sources -> SUBSET Revisions] /\ job[j].keys = {}
      /\ claim \in [Sources \cup Angles -> [by : Jobs \cup {None}, live : BOOLEAN]]
      /\ Refreshing(j) /\ ~At(j, "logs")
  BY DEF IInv, TypeOK, NextAngle, At, ghosts, WorkSound, Refreshing, Working
<1>2. PICK a \in job[j].angles :
        \/ /\ SetIf(a, "unused", "rejected")
           /\ Become(j, [job[j] EXCEPT !.angles = job[j].angles \ {a}])
        \/ UNCHANGED angle /\ PassAngle(j, a)
        \/ /\ Preflight(j, a, "text") /\ (PlatformOf(a) = Instagram => Preflight(j, a, "image"))
           /\ \E s \in OpenSlots(j, PlatformOf(a)) :
                 Become(j, [job[j] EXCEPT !.pc = "claim", !.angles = job[j].angles \ {a}, !.seen = TRUE,
                                          !.work = a, !.slot = s, !.stage = "draft"])
           /\ UNCHANGED angle
  BY <1>1 DEF NextAngle
<1>3. a \in Angles /\ job[j].angles \ {a} \in SUBSET Angles
  BY <1>1 DEF Job
<1>4. CASE SetIf(a, "unused", "rejected") /\ Become(j, [job[j] EXCEPT !.angles = job[j].angles \ {a}])
  <2>1. PICK n : n = [job[j] EXCEPT !.angles = job[j].angles \ {a}]
    OBVIOUS
  <2>2. /\ n \in Job /\ n.pc = "angles" /\ n.drop = job[j].drop /\ n.kind = job[j].kind
        /\ n.keys = job[j].keys /\ n.count = job[j].count
    BY <1>1, <1>3, <2>1 DEF Job
  <2>3. job' = [job EXCEPT ![j] = n] /\ job'[j] = n
    BY <1>1, <1>4, <2>1 DEF Become
  <2>4. WorkSound(j)'
    BY <1>1, <2>2, <2>3 DEF WorkSound
  <2>5. CASE angle' = angle
    <3>1. InProgressIsClaimed'
      BY <1>1, <2>5 DEF IInv, InProgressIsClaimed
    <3> QED BY <1>1, <2>2, <2>3, <2>4, <2>5, <3>1, QuietKeeps
  <2>6. CASE angle[a] = "unused" /\ angle' = [angle EXCEPT ![a] = "rejected"]
    <3>1. InProgressIsClaimed' /\ IsActive(angle[a])
      BY <1>1, <1>3, <2>6 DEF IInv, InProgressIsClaimed, TypeOK, IsActive
    <3> QED BY <1>1, <1>3, <2>2, <2>3, <2>4, <2>6, <3>1, AngleKeeps
  <2> QED BY <1>1, <1>3, <1>4, <2>5, <2>6, SetIfMoves
<1>5. CASE UNCHANGED angle /\ PassAngle(j, a)
  <2>1. PICK n : n = [job[j] EXCEPT !.angles = job[j].angles \ {a}, !.seen = TRUE]
    OBVIOUS
  <2>2. /\ n \in Job /\ n.pc = "angles" /\ n.drop = job[j].drop /\ n.kind = job[j].kind
        /\ n.keys = job[j].keys /\ n.count = job[j].count
    BY <1>1, <1>3, <2>1 DEF Job
  <2>3. job' = [job EXCEPT ![j] = n] /\ job'[j] = n
    BY <1>1, <1>5, <2>1 DEF PassAngle, Become
  <2>4. WorkSound(j)' /\ InProgressIsClaimed'
    BY <1>1, <1>5, <2>2, <2>3 DEF WorkSound, IInv, InProgressIsClaimed
  <2> QED BY <1>1, <1>5, <2>2, <2>3, <2>4, QuietKeeps
<1>6. ASSUME Preflight(j, a, "text"), PlatformOf(a) = Instagram => Preflight(j, a, "image"),
             NEW s \in OpenSlots(j, PlatformOf(a)), UNCHANGED angle,
             Become(j, [job[j] EXCEPT !.pc = "claim", !.angles = job[j].angles \ {a}, !.seen = TRUE,
                                      !.work = a, !.slot = s, !.stage = "draft"])
      PROVE  IInv'
  <2>1. PICK n : n = [job[j] EXCEPT !.pc = "claim", !.angles = job[j].angles \ {a}, !.seen = TRUE,
                                    !.work = a, !.slot = s, !.stage = "draft"]
    OBVIOUS
  <2>2. s \in Slots /\ a \notin Sources
    BY <1>3, PipelineAssumption DEF OpenSlots
  <2>3. /\ n \in Job /\ n.pc = "claim" /\ n.drop = job[j].drop /\ n.kind = job[j].kind
        /\ n.keys = job[j].keys /\ n.count = job[j].count /\ n.work = a /\ n.slot = s /\ n.stage = "draft"
        /\ n.unsure = job[j].unsure
    BY ZenonT(60), <1>1, <1>3, <2>1, <2>2 DEF Job, Pc, Stages
  <2>4. job' = [job EXCEPT ![j] = n] /\ job'[j] = n
    BY <1>1, <1>6, <2>1 DEF Become
  <2>5. WorkSound(j)'
    BY <1>1, <1>3, <1>6, <2>2, <2>3, <2>4 DEF WorkSound, Preflight
  <2>6. InProgressIsClaimed'
    BY <1>1, <1>6 DEF IInv, InProgressIsClaimed
  <2>7. paid # None => RoomLeft(j)'
    <3> SUFFICES ASSUME paid # None
                 PROVE  RoomLeft(j)'
      OBVIOUS
    <3>1. TextsBefore["draft"] = 0 /\ "text" \in Types /\ "image" \in Types
          /\ Limit["text"] \in Nat /\ Limit["image"] \in Nat
      BY PipelineAssumption DEF TextsBefore, Types
    <3>2. Counted(job[j].count) /\ paid["text"] \in Nat /\ paid["image"] \in Nat
      BY <1>1, <3>1 DEF IInv, TypeOK, CallsSound
    <3>3. /\ job[j].count["text"] < Limit["text"]
          /\ PlatformOf(a) = Instagram => job[j].count["image"] < Limit["image"]
      BY <1>6 DEF Preflight
    <3>4. job[j].count["text"] \in Nat /\ job[j].count["image"] \in Nat
      BY <1>1, <3>1 DEF Job
    <3>5. /\ paid["text"] < Limit["text"]
          /\ PlatformOf(a) = Instagram => paid["image"] < Limit["image"]
      BY <3>1, <3>2, <3>3, <3>4 DEF Counted
    <3>6. paid["text"] < Limit["text"] + TextsBefore["draft"]
      BY <3>1, <3>2, <3>5
    <3>7. paid' = paid
      BY <1>1
    <3> QED BY <2>3, <2>4, <3>5, <3>6, <3>7 DEF RoomLeft
  <2> QED BY <1>1, <1>6, <2>3, <2>4, <2>5, <2>6, <2>7, QuietKeeps
<1> QED
  BY <1>2, <1>4, <1>5, <1>6

\* A job is done with the angles: it ends, or turns to the sources.
LEMMA AnglesEndKeeps ==
  ASSUME IInv, NEW j \in Jobs, AnglesEnd(j)
  PROVE  IInv'
<1>1. /\ job \in [Jobs -> Job] /\ job[j].pc \in {"after", "angles"} /\ WorkSound(j)
      /\ UNCHANGED <<revision, banked, angle, claim, rows, log, paid, repeated, faults>>
      /\ faults \in Nat /\ banked \in [Sources -> SUBSET Revisions]
      /\ claim \in [Sources \cup Angles -> [by : Jobs \cup {None}, live : BOOLEAN]]
      /\ Refreshing(j) /\ ~At(j, "logs")
  BY DEF IInv, TypeOK, AnglesEnd, At, data, ghosts, Refreshing, Working, WorkSound
<1>2. InProgressIsClaimed'
  BY <1>1 DEF IInv, InProgressIsClaimed
<1>3. CASE Done(j)
  BY <1>1, <1>2, <1>3, DoneMoves, QuietKeeps
<1>4. ASSUME NEW pc \in {"source", "sources"}, Goto(j, pc)
      PROVE  IInv'
  <2>1. pc \in Pc
    BY DEF Pc
  <2>2. PICK n \in Job : /\ job' = [job EXCEPT ![j] = n] /\ job'[j] = n
                        /\ n.pc = pc /\ n.kind = job[j].kind /\ n.drop = job[j].drop /\ n.count = job[j].count
                        /\ n.keys = job[j].keys
    BY <1>4, <2>1, GotoMoves
  <2>3. WorkSound(j)'
    BY <1>1, <2>2 DEF WorkSound
  <2> QED BY <1>1, <1>2, <2>2, <2>3, QuietKeeps
<1> QED
  BY <1>3, <1>4 DEF AnglesEnd

\* What Leaves shows of such a step.
Away(j, n) ==
    /\ job' = [job EXCEPT ![j] = n] /\ n.pc # "drop" /\ n.drop = job[j].drop
    /\ n.pc \notin {"claim", "start", "calling"} /\ WorkSound(j)'
    /\ Refreshing(j)' => (Refreshing(j) /\ n.count = job[j].count /\ ~At(j, "logs"))

\* A job that is under way ends, is through with its angles, or goes on to a point
\* where it has what it needs and nothing is to be paid.
LEMMA Leaves ==
  ASSUME IInv, NEW j \in Jobs, job[j].pc \notin {"new", "logs", "drop", "done"},
         \/ Done(j) \/ AfterAngles(j)
         \/ \E pc \in {"load", "angles", "sources", "source"} : Goto(j, pc)
         \/ Goto(j, "release") /\ job[j].work \in Sources \cup Angles
         \/ \E pc \in {"exhaust", "empty"} : Goto(j, pc) /\ job[j].work \in Angles
         \/ Goto(j, "commit") /\ job[j].work \in Angles /\ job[j].slot \in Slots
         \/ Goto(j, "bank") /\ job[j].work \in Sources /\ job[j].rev \in Revisions
  PROVE  \E n \in Job : Away(j, n)
<1>1. Refreshing(j) /\ ~At(j, "logs") /\ WorkSound(j) /\ job[j].kind = "refresh"
  BY DEF IInv, WorkSound, Refreshing, Working, At
<1>2. CASE Done(j)
  BY <1>2, DoneMoves DEF Away
<1>3. CASE AfterAngles(j)
  BY <1>1, <1>3, AfterMoves DEF Away
<1>4. ASSUME NEW pc \in {"load", "angles", "sources", "source", "release", "exhaust", "empty", "commit", "bank"},
             Goto(j, pc), pc = "release" => job[j].work \in Sources \cup Angles,
             pc \in {"exhaust", "empty", "commit"} => job[j].work \in Angles,
             pc = "commit" => job[j].slot \in Slots,
             pc = "bank" => job[j].work \in Sources /\ job[j].rev \in Revisions
      PROVE  \E n \in Job : Away(j, n)
  <2>1. pc \in Pc
    BY DEF Pc
  <2>2. PICK n \in Job :
          /\ job' = [job EXCEPT ![j] = n] /\ job'[j] = n
          /\ n.pc = pc /\ n.kind = job[j].kind /\ n.drop = job[j].drop /\ n.count = job[j].count
          /\ n.keys = job[j].keys /\ n.work = job[j].work /\ n.rev = job[j].rev /\ n.slot = job[j].slot
    BY <1>4, <2>1, GotoMoves
  <2>3. WorkSound(j)'
    BY <1>1, <1>4, <2>2 DEF WorkSound
  <2> QED BY <1>1, <2>2, <2>3 DEF Away
<1> QED
  BY <1>2, <1>3, <1>4

\* Nothing else may happen but a claim, what was banked, or the end of a call in the log.
LEMMA AwayLogKeeps ==
  ASSUME IInv, NEW j \in Jobs, NEW n \in Job, Away(j, n),
         UNCHANGED <<revision, angle, rows, paid, repeated>>, faults' \in Nat,
         log' \in [count : [Types -> Nat], open : SUBSET Call], log'.count = log.count,
         banked' \in [Sources -> SUBSET Revisions],
         claim' \in [Sources \cup Angles -> [by : Jobs \cup {None}, live : BOOLEAN]],
         InProgressIsClaimed'
  PROVE  IInv'
<1>1. job' = [job EXCEPT ![j] = n] /\ n.pc # "drop" /\ job[j].drop \subseteq n.drop /\ WorkSound(j)'
  BY DEF Away
<1>2. paid # None /\ Refreshing(j)' =>
         /\ Refreshing(j)
         /\ n.pc = "logs" \/ Counted(n.count) \/ (n.count = job[j].count /\ ~At(j, "logs"))
         /\ n.pc \in {"claim", "start", "calling"} => RoomLeft(j)'
  BY DEF Away
<1> QED
  BY <1>1, <1>2, LogKeeps

\* A job goes on to a point where nothing is to be paid.
LEMMA AwayKeeps ==
  ASSUME IInv, NEW j \in Jobs, NEW n \in Job, Away(j, n),
         UNCHANGED <<revision, angle, rows, log, paid, repeated>>, faults' \in Nat,
         banked' \in [Sources -> SUBSET Revisions],
         claim' \in [Sources \cup Angles -> [by : Jobs \cup {None}, live : BOOLEAN]],
         InProgressIsClaimed'
  PROVE  IInv'
<1>1. log' \in [count : [Types -> Nat], open : SUBSET Call] /\ log'.count = log.count
  BY DEF IInv, TypeOK
<1> QED
  BY <1>1, AwayLogKeeps

\* Or an angle that can be drafted changes its status.
LEMMA AwayAngleKeeps ==
  ASSUME IInv, NEW j \in Jobs, NEW n \in Job, Away(j, n),
         UNCHANGED <<revision, banked, rows, log, paid, repeated, faults>>,
         NEW a \in Angles, IsActive(angle[a]),
         NEW status \in {"unused", "in_progress", "exhausted", "rejected"},
         angle' = [angle EXCEPT ![a] = status],
         claim' \in [Sources \cup Angles -> [by : Jobs \cup {None}, live : BOOLEAN]],
         InProgressIsClaimed'
  PROVE  IInv'
<1>1. job' = [job EXCEPT ![j] = n] /\ n.pc # "drop" /\ job[j].drop \subseteq n.drop /\ WorkSound(j)'
  BY DEF Away
<1>2. paid # None /\ Refreshing(j)' =>
         /\ Refreshing(j)
         /\ n.pc = "logs" \/ Counted(n.count) \/ (n.count = job[j].count /\ ~At(j, "logs"))
         /\ n.pc \in {"claim", "start", "calling"} => RoomLeft(j)'
  BY DEF Away
<1> QED
  BY <1>1, <1>2, AngleKeeps

----------------------------------------------------------------------------
(* Claims *)

\* Claims are taken and given back whole.
LEMMA ClaimsType ==
  ASSUME TypeOK, NEW x \in Sources \cup Angles
  PROVE  /\ \A j \in Jobs : Take(j, x) => claim' \in [Sources \cup Angles -> [by : Jobs \cup {None}, live : BOOLEAN]]
         /\ GiveBack(x) => claim' \in [Sources \cup Angles -> [by : Jobs \cup {None}, live : BOOLEAN]]
<1>1. claim \in [Sources \cup Angles -> [by : Jobs \cup {None}, live : BOOLEAN]]
  BY DEF TypeOK
<1>2. Free \in [by : Jobs \cup {None}, live : BOOLEAN]
  BY DEF Free
<1>3. ASSUME NEW j \in Jobs, Take(j, x)
      PROVE  claim' \in [Sources \cup Angles -> [by : Jobs \cup {None}, live : BOOLEAN]]
  <2>1. [by |-> j, live |-> TRUE] \in [by : Jobs \cup {None}, live : BOOLEAN]
    OBVIOUS
  <2> QED BY <1>1, <1>3, <2>1 DEF Take
<1>4. GiveBack(x) => claim' \in [Sources \cup Angles -> [by : Jobs \cup {None}, live : BOOLEAN]]
  BY <1>1, <1>2 DEF GiveBack
<1> QED
  BY <1>3, <1>4

\* What is taken has an owner, what is given back is not in progress any more.
LEMMA ClaimsStay ==
  ASSUME IInv, NEW x \in Sources \cup Angles,
         \/ \E j \in Jobs : Take(j, x) /\ \A b \in Angles \ {x} : angle'[b] = angle[b]
         \/ GiveBack(x) /\ (x \in Angles => angle'[x] # "in_progress")
                        /\ \A b \in Angles \ {x} : angle'[b] = angle[b]
         \/ UNCHANGED claim /\ \A b \in Angles : angle'[b] = "in_progress" => angle[b] = "in_progress"
  PROVE  InProgressIsClaimed'
<1>1. \A b \in Angles : angle[b] = "in_progress" => claim[b].by # None
  BY DEF IInv, InProgressIsClaimed
<1>2. claim \in [Sources \cup Angles -> [by : Jobs \cup {None}, live : BOOLEAN]]
  BY DEF IInv, TypeOK
<1>3. ASSUME NEW j \in Jobs, Take(j, x), \A b \in Angles \ {x} : angle'[b] = angle[b]
      PROVE  InProgressIsClaimed'
  <2>1. claim'[x].by = j /\ j # None /\ \A b \in Angles \ {x} : claim'[b] = claim[b]
    BY <1>2, <1>3, PipelineAssumption DEF Take
  <2> QED BY <1>1, <1>3, <2>1 DEF InProgressIsClaimed
<1>4. CASE /\ GiveBack(x) /\ (x \in Angles => angle'[x] # "in_progress")
           /\ \A b \in Angles \ {x} : angle'[b] = angle[b]
  <2>1. \A b \in Angles \ {x} : claim'[b] = claim[b]
    BY <1>2, <1>4 DEF GiveBack
  <2> QED BY <1>1, <1>4, <2>1 DEF InProgressIsClaimed
<1>5. CASE UNCHANGED claim /\ \A b \in Angles : angle'[b] = "in_progress" => angle[b] = "in_progress"
  BY <1>1, <1>5 DEF InProgressIsClaimed
<1> QED
  BY <1>3, <1>4, <1>5

\* A claim is taken of an angle that has no row, or the angle is passed over.
LEMMA ClaimAngleKeeps ==
  ASSUME IInv, NEW j \in Jobs, ClaimAngle(j)
  PROVE  IInv'
<1>1. PICK a : a = job[j].work
  OBVIOUS
<1>2. /\ job \in [Jobs -> Job] /\ job[j].pc = "claim" /\ WorkSound(j) /\ TypeOK
      /\ UNCHANGED <<revision, banked, rows, log, paid, repeated, faults>>
      /\ faults \in Nat /\ banked \in [Sources -> SUBSET Revisions]
      /\ claim \in [Sources \cup Angles -> [by : Jobs \cup {None}, live : BOOLEAN]]
      /\ angle \in [Angles -> {"none", "unused", "in_progress", "drafted", "exhausted", "rejected"}]
      /\ a \in Angles /\ Refreshing(j) /\ ~At(j, "logs")
  BY <1>1 DEF IInv, TypeOK, ClaimAngle, At, ghosts, Refreshing, Working, WorkSound
<1>3. CASE /\ IsActive(angle[a]) /\ angle' = [angle EXCEPT ![a] = "in_progress"] /\ Take(j, a)
           /\ Goto(j, "start") \/ AfterAngles(j)
  <2>1. /\ InProgressIsClaimed'
        /\ claim' \in [Sources \cup Angles -> [by : Jobs \cup {None}, live : BOOLEAN]]
    BY <1>2, <1>3, ClaimsType, ClaimsStay
  <2>2. CASE AfterAngles(j)
    <3>1. PICK n \in Job : Away(j, n)
      BY <1>2, <2>2, Leaves
    <3> QED BY <1>2, <1>3, <2>1, <3>1, AwayAngleKeeps
  <2>3. CASE Goto(j, "start")
    <3>1. PICK n \in Job :
           /\ job' = [job EXCEPT ![j] = n] /\ job'[j] = n
           /\ n.pc = "start" /\ n.kind = job[j].kind /\ n.drop = job[j].drop /\ n.count = job[j].count
           /\ n.keys = job[j].keys /\ n.work = job[j].work /\ n.rev = job[j].rev /\ n.slot = job[j].slot
           /\ n.stage = job[j].stage /\ n.unsure = job[j].unsure
      BY <2>3, GotoMoves DEF Pc
    <3>2. WorkSound(j)'
      BY <1>2, <3>1 DEF WorkSound
    <3>3. paid # None => RoomLeft(j)'
      <4>1. paid # None => RoomLeft(j)
        BY <1>2 DEF IInv, CallsSound
      <4> QED BY <1>2, <3>1, <4>1 DEF RoomLeft
    <3> QED BY <1>2, <1>3, <2>1, <3>1, <3>2, <3>3, AngleKeeps
  <2> QED BY <1>3, <2>2, <2>3
<1>4. CASE /\ UNCHANGED <<angle, claim>>
           /\ Goto(j, "angles") \/ AfterAngles(j)
  <2>1. InProgressIsClaimed'
    BY <1>2, <1>4, ClaimsStay
  <2>2. PICK n \in Job : Away(j, n)
    BY <1>2, <1>4, Leaves
  <2> QED BY <1>2, <1>4, <2>1, <2>2, AwayKeeps
<1> QED
  BY <1>1, <1>3, <1>4 DEF ClaimAngle, IsActive

\* The claim is given back or its lease has to lapse; an angle in progress is there
\* to be drafted again.
LEMMA ReleaseClaimKeeps ==
  ASSUME IInv, NEW j \in Jobs, ReleaseClaim(j)
  PROVE  IInv'
<1>1. PICK x : x = job[j].work
  OBVIOUS
<1>2. /\ job \in [Jobs -> Job] /\ job[j].pc = "release" /\ WorkSound(j) /\ TypeOK
      /\ UNCHANGED <<revision, banked, rows, log, paid, repeated, faults>>
      /\ faults \in Nat /\ banked \in [Sources -> SUBSET Revisions]
      /\ claim \in [Sources \cup Angles -> [by : Jobs \cup {None}, live : BOOLEAN]]
      /\ angle \in [Angles -> {"none", "unused", "in_progress", "drafted", "exhausted", "rejected"}]
  BY DEF IInv, TypeOK, ReleaseClaim, At, ghosts
<1>3. x \in Sources \cup Angles
  BY <1>1, <1>2 DEF WorkSound, Job
<1>4. PICK n \in Job : Away(j, n)
  BY <1>2, Leaves DEF ReleaseClaim
<1>5. \/ UNCHANGED <<claim, angle>>
      \/ GiveBack(x) /\ x \in Angles /\ SetIf(x, "in_progress", "unused")
      \/ GiveBack(x) /\ x \notin Angles /\ UNCHANGED angle
  BY <1>1 DEF ReleaseClaim
<1>6. CASE UNCHANGED <<claim, angle>>
  <2>1. InProgressIsClaimed'
    BY <1>3, <1>6, ClaimsStay
  <2> QED BY <1>2, <1>4, <1>6, <2>1, AwayKeeps
<1>7. CASE GiveBack(x) /\ x \in Angles /\ SetIf(x, "in_progress", "unused")
  <2>1. \/ angle[x] = "in_progress" /\ angle' = [angle EXCEPT ![x] = "unused"]
        \/ angle[x] # "in_progress" /\ angle' = angle
    BY <1>2, <1>7, SetIfMoves DEF SetIf
  <2>2. /\ InProgressIsClaimed'
        /\ claim' \in [Sources \cup Angles -> [by : Jobs \cup {None}, live : BOOLEAN]]
    BY <1>2, <1>3, <1>7, <2>1, ClaimsType, ClaimsStay
  <2>3. CASE angle[x] = "in_progress" /\ angle' = [angle EXCEPT ![x] = "unused"]
    <3>1. IsActive(angle[x])
      BY <2>3 DEF IsActive
    <3> QED BY <1>2, <1>4, <1>7, <2>2, <2>3, <3>1, AwayAngleKeeps
  <2>4. CASE angle' = angle
    BY <1>2, <1>4, <2>2, <2>4, AwayKeeps
  <2> QED BY <2>1, <2>3, <2>4
<1>8. CASE GiveBack(x) /\ x \notin Angles /\ UNCHANGED angle
  <2>1. /\ InProgressIsClaimed'
        /\ claim' \in [Sources \cup Angles -> [by : Jobs \cup {None}, live : BOOLEAN]]
    BY <1>2, <1>3, <1>8, ClaimsType, ClaimsStay
  <2> QED BY <1>2, <1>4, <1>8, <2>1, AwayKeeps
<1> QED
  BY <1>5, <1>6, <1>7, <1>8

\* A claim that is spent.
LEMMA ExhaustKeeps ==
  ASSUME IInv, NEW j \in Jobs, Exhaust(j)
  PROVE  IInv'
<1>1. PICK a : a = job[j].work
  OBVIOUS
<1>2. /\ job \in [Jobs -> Job] /\ job[j].pc \in {"exhaust", "empty"} /\ WorkSound(j) /\ TypeOK
      /\ UNCHANGED <<revision, banked, rows, log, paid, repeated, faults>>
      /\ faults \in Nat /\ banked \in [Sources -> SUBSET Revisions]
      /\ claim \in [Sources \cup Angles -> [by : Jobs \cup {None}, live : BOOLEAN]]
      /\ angle \in [Angles -> {"none", "unused", "in_progress", "drafted", "exhausted", "rejected"}]
  BY DEF IInv, TypeOK, Exhaust, At, ghosts
<1>3. a \in Angles
  BY <1>1, <1>2 DEF WorkSound
<1>4. PICK n \in Job : Away(j, n)
  BY <1>2, Leaves DEF Exhaust
<1>5. CASE angle[a] = "in_progress" /\ angle' = [angle EXCEPT ![a] = "exhausted"] /\ GiveBack(a)
  <2>1. /\ InProgressIsClaimed' /\ IsActive(angle[a])
        /\ claim' \in [Sources \cup Angles -> [by : Jobs \cup {None}, live : BOOLEAN]]
    BY <1>2, <1>3, <1>5, ClaimsType, ClaimsStay DEF IsActive
  <2> QED BY <1>2, <1>3, <1>4, <1>5, <2>1, AwayAngleKeeps
<1>6. CASE UNCHANGED <<angle, claim>>
  <2>1. InProgressIsClaimed'
    BY <1>3, <1>6, ClaimsStay
  <2> QED BY <1>2, <1>4, <1>6, <2>1, AwayKeeps
<1> QED
  BY <1>1, <1>5, <1>6 DEF Exhaust

----------------------------------------------------------------------------
(* Paid calls *)

\* What one more call does to a count.
LEMMA OneMoreIs ==
  ASSUME NEW count \in [Types -> Nat], NEW most \in [Types -> Nat], NEW stage \in Stages
  PROVE  /\ OneMore(count, stage, most) \in [Types -> Nat]
         /\ TypeOf(stage) \in Types
         /\ \A t \in Types : /\ t # TypeOf(stage) => OneMore(count, stage, most)[t] = count[t]
                             /\ OneMore(count, stage, most)[t] <= count[t] + 1
                             /\ count[t] < most[t] => (t = TypeOf(stage) => OneMore(count, stage, most)[t] = count[t] + 1)
                             /\ ~(count[t] < most[t]) => OneMore(count, stage, most)[t] = count[t]
<1>1. PICK one : one = OneMore(count, stage, most)
  OBVIOUS
<1>2. \A t \in Types : count[t] \in Nat /\ most[t] \in Nat
  OBVIOUS
<1>3. \A t \in Types : one[t] = IF t = TypeOf(stage) /\ count[t] < most[t] THEN count[t] + 1 ELSE count[t]
  BY <1>1 DEF OneMore
<1>4. one \in [Types -> Nat]
  BY <1>1, <1>2 DEF OneMore
<1>5. TypeOf(stage) \in Types
  BY DEF TypeOf, Types
<1> QED
  BY <1>1, <1>2, <1>3, <1>4, <1>5

\* The limits are numbers, and so are the bounds of a day's calls.
LEMMA LimitsType ==
  /\ "text" \in Types /\ "image" \in Types /\ \A t \in Types : t = "text" \/ t = "image"
  /\ Limit \in [Types -> Nat] /\ Limit["text"] \in Nat /\ Limit["image"] \in Nat
  /\ Most["text"] = Limit["text"] + 2 /\ Most["image"] = Limit["image"]
  /\ PastMost \in [Types -> Nat]
<1>1. /\ "text" \in Types /\ "image" \in Types /\ Limit \in [Types -> Nat]
      /\ Limit["text"] \in Nat /\ Limit["image"] \in Nat /\ \A t \in Types : t = "text" \/ t = "image"
  BY PipelineAssumption DEF Types
<1>2. Most["text"] = Limit["text"] + 2 /\ Most["image"] = Limit["image"]
  BY DEF Most
<1>3. \A t \in Types : Most[t] + 1 \in Nat
  BY <1>1, <1>2
<1>4. PastMost \in [Types -> Nat]
  BY <1>3 DEF PastMost
<1> QED
  BY <1>1, <1>2, <1>4

\* A count that has missed no call misses none when both count one more.
LEMMA CountedGoesOn ==
  ASSUME NEW count \in [Types -> Nat], paid \in [Types -> Nat], NEW stage \in Stages, Counted(count),
         NEW t \in Types, OneMore(count, stage, Limit)[t] < Limit[t]
  PROVE  OneMore(paid, stage, PastMost)[t] <= OneMore(count, stage, Limit)[t]
<1>1. count[t] \in Nat /\ paid[t] \in Nat /\ Limit[t] \in Nat
  BY LimitsType
<1>2. PICK c, d : c = OneMore(count, stage, Limit)[t] /\ d = OneMore(paid, stage, PastMost)[t]
  OBVIOUS
<1>3. /\ t # TypeOf(stage) => c = count[t] /\ d = paid[t]
      /\ d <= paid[t] + 1
      /\ count[t] < Limit[t] => (t = TypeOf(stage) => c = count[t] + 1)
      /\ ~(count[t] < Limit[t]) => c = count[t]
      /\ c \in Nat /\ d \in Nat
  BY <1>2, LimitsType, OneMoreIs
<1>4. count[t] < Limit[t]
  BY <1>1, <1>2, <1>3
<1>5. paid[t] <= count[t]
  BY <1>4 DEF Counted
<1>6. d <= c
  BY <1>1, <1>3, <1>4, <1>5
<1> QED
  BY <1>2, <1>6

\* A call goes out: what was left of the limits when its guard passed is still enough.
LEMMA CallKeeps ==
  ASSUME IInv, NEW j \in Jobs, At(j, "start"), NEW stage, stage = job[j].stage,
         Become(j, [job[j] EXCEPT !.pc = "calling", !.count = OneMore(job[j].count, stage, Limit)]),
         Logged([count |-> OneMore(log.count, stage, Limit), open |-> log.open \cup {ThisCall(j)}]),
         paid' = IF paid = None \/ log' = log THEN None ELSE OneMore(paid, stage, PastMost),
         repeated' = (repeated \/ <<job[j].work, TypeOf(stage)>> \in job[j].unsure),
         UNCHANGED <<revision, banked, angle, claim, rows>>
  PROVE  IInv'
<1>1. PICK count : count = OneMore(job[j].count, stage, Limit)
  OBVIOUS
<1>2. PICK n : n = [job[j] EXCEPT !.pc = "calling", !.count = count]
  OBVIOUS
<1>3. /\ job \in [Jobs -> Job] /\ job[j] \in Job /\ job[j].pc = "start" /\ WorkSound(j) /\ stage \in Stages
      /\ job[j].count \in [Types -> Nat] /\ log.count \in [Types -> Nat] /\ log.open \in SUBSET Call
      /\ job[j].work \in Sources \cup Angles /\ Refreshing(j) /\ ~At(j, "logs") /\ faults \in Nat
      /\ log \in [count : [Types -> Nat], open : SUBSET Call]
  BY DEF IInv, TypeOK, At, Job, WorkSound, Refreshing, Working
<1>4. count \in [Types -> Nat] /\ OneMore(log.count, stage, Limit) \in [Types -> Nat]
  BY <1>1, <1>3, LimitsType, OneMoreIs
<1>5. /\ n \in Job /\ n.pc = "calling" /\ n.kind = job[j].kind /\ n.drop = job[j].drop /\ n.count = count
      /\ n.keys = job[j].keys /\ n.work = job[j].work /\ n.rev = job[j].rev /\ n.slot = job[j].slot
      /\ n.stage = job[j].stage /\ n.unsure = job[j].unsure
  BY ZenonT(60), <1>2, <1>3, <1>4 DEF Job, Pc
<1>6. job' = [job EXCEPT ![j] = n] /\ job'[j] = n /\ \A i \in Jobs \ {j} : job'[i] = job[i]
  BY <1>1, <1>2, <1>3 DEF Become
<1>7. ThisCall(j) \in Call
  BY <1>3 DEF ThisCall, Call
<1>8. /\ log' \in [count : [Types -> Nat], open : SUBSET Call]
      /\ log' # log => log'.count = OneMore(log.count, stage, Limit)
      /\ faults' \in Nat
  <2>1. [count |-> OneMore(log.count, stage, Limit), open |-> log.open \cup {ThisCall(j)}]
          \in [count : [Types -> Nat], open : SUBSET Call]
    BY <1>3, <1>4, <1>7
  <2>2. CASE /\ log' = [count |-> OneMore(log.count, stage, Limit), open |-> log.open \cup {ThisCall(j)}]
             /\ UNCHANGED faults
    BY <1>3, <2>1, <2>2
  <2>3. CASE Fault /\ UNCHANGED log
    BY <1>3, <2>3 DEF Fault
  <2> QED BY <2>2, <2>3 DEF Logged
<1>9. paid # None => paid \in [Types -> Nat] /\ OneMore(paid, stage, PastMost) \in [Types -> Nat]
  BY <1>3, LimitsType, OneMoreIs DEF IInv, TypeOK
<1>10. /\ TypeOf(stage) \in Types
       /\ stage = "image" => TypeOf(stage) = "image"
       /\ stage # "image" => TypeOf(stage) = "text"
  BY DEF TypeOf, Types
<1>11. TypeOK'
  <2>1. job' \in [Jobs -> Job]
    BY <1>3, <1>5, <1>6
  <2>2. paid' \in [Types -> Nat] \cup {None} /\ repeated' \in BOOLEAN
    BY <1>9 DEF IInv, TypeOK
  <2> QED BY <1>8, <2>1, <2>2 DEF IInv, TypeOK
<1>12. OneRowOfAngle' /\ QueuedIsNotDraftable' /\ ReleasesAreAlone' /\ DraftsAreKept'
  BY <1>5, <1>6, DraftsStay
<1>13. InProgressIsClaimed'
  BY DEF IInv, InProgressIsClaimed
<1>14. WorkSound(j)'
  BY <1>3, <1>5, <1>6 DEF WorkSound
<1>15. UnsettledIsNotRepeated'
  <2>1. <<job[j].work, TypeOf(stage)>> \notin job[j].unsure
    <3>1. <<job[j].work, "text">> \notin job[j].unsure
      BY <1>3 DEF WorkSound
    <3>2. stage = "image" => <<job[j].work, "image">> \notin job[j].unsure
      BY <1>3 DEF WorkSound
    <3> QED BY <1>10, <3>1, <3>2
  <2> QED BY <2>1 DEF IInv, UnsettledIsNotRepeated
<1>16. CallsSound' /\ CallsNearLimit'
  <2> SUFFICES ASSUME paid' # None
               PROVE  /\ \A i, k \in Jobs : Refreshing(i)' /\ Refreshing(k)' => i = k
                      /\ Counted(log.count)'
                      /\ \A i \in Jobs : Refreshing(i)' => (At(i, "logs")' \/ Counted(job[i].count)') /\ RoomLeft(i)'
                      /\ \A t \in Types : paid'[t] <= Most[t]
    BY DEF CallsSound, CallsNearLimit
  <2>1. /\ paid # None /\ log' # log /\ paid \in [Types -> Nat] /\ paid' = OneMore(paid, stage, PastMost)
        /\ paid["text"] \in Nat /\ paid["image"] \in Nat /\ paid'["text"] \in Nat /\ paid'["image"] \in Nat
    BY <1>9, LimitsType
  <2>2. /\ \A i, k \in Jobs : Refreshing(i) /\ Refreshing(k) => i = k
        /\ Counted(log.count) /\ Counted(job[j].count) /\ RoomLeft(j)
        /\ paid["text"] <= Most["text"] /\ paid["image"] <= Most["image"]
    BY <1>3, <2>1, LimitsType DEF IInv, CallsSound, CallsNearLimit
  <2>3. \A i \in Jobs : Refreshing(i)' => i = j
    <3>1. \A i \in Jobs \ {j} : Refreshing(i)' => Refreshing(i)
      BY <1>6 DEF Refreshing, Working
    <3> QED BY <1>3, <2>2, <3>1
  <2>4. Counted(log.count)'
    BY <1>3, <1>8, <2>1, <2>2, CountedGoesOn DEF Counted
  <2>5. Counted(job[j].count)'
    <3>1. \A t \in Types : count[t] < Limit[t] => paid'[t] <= count[t]
      BY <1>1, <1>3, <2>1, <2>2, CountedGoesOn
    <3> QED BY <1>5, <1>6, <3>1 DEF Counted
  <2>6. /\ paid'["text"] <= paid["text"] + 1 /\ paid'["image"] <= paid["image"] + 1
        /\ stage = "image" => paid'["text"] = paid["text"]
        /\ stage # "image" => paid'["image"] = paid["image"]
    BY <1>3, <1>10, <2>1, LimitsType, OneMoreIs
  <2>7. TextsBefore[stage] \in 0..3 /\ (stage # "image" => TextsBefore[stage] \in 0..2)
    BY <1>3 DEF Stages, TextsBefore
  <2>8. paid["text"] < Limit["text"] + TextsBefore[stage]
    BY <1>3, <2>2 DEF RoomLeft
  <2>9. stage # "extraction" /\ PlatformOf(job[j].work) = Instagram => paid["image"] < Limit["image"]
    BY <1>3, <2>2 DEF RoomLeft
  <2>10. RoomLeft(j)'
    <3>1. paid'["text"] <= Limit["text"] + TextsBefore[stage]
      BY <2>1, <2>6, <2>7, <2>8, LimitsType
    <3>2. stage # "extraction" /\ PlatformOf(job[j].work) = Instagram
             => paid'["image"] < Limit["image"] \/ stage = "image"
      BY <2>6, <2>9
    <3> QED BY <1>5, <1>6, <3>1, <3>2 DEF RoomLeft
  <2>11. paid'["text"] <= Most["text"]
    <3>1. CASE stage = "image"
      BY <2>2, <2>6, <3>1
    <3>2. CASE stage # "image"
      BY <2>1, <2>6, <2>7, <2>8, <3>2, LimitsType
    <3> QED BY <3>1, <3>2
  <2>12. paid'["image"] <= Most["image"]
    <3>1. CASE stage = "image"
      <4>1. PlatformOf(job[j].work) = Instagram
        BY <1>3, <3>1 DEF WorkSound
      <4> QED BY <2>1, <2>6, <2>9, <3>1, <4>1, LimitsType
    <3>2. CASE stage # "image"
      BY <2>2, <2>6, <3>2
    <3> QED BY <3>1, <3>2
  <2> QED BY <2>3, <2>4, <2>5, <2>10, <2>11, <2>12, LimitsType
<1> QED
  BY <1>5, <1>6, <1>11, <1>12, <1>13, <1>14, <1>15, <1>16, StepKeeps

\* The call, or the loss of the job that is noticed before the first one.
LEMMA StartKeeps ==
  ASSUME IInv, NEW j \in Jobs, Start(j)
  PROVE  IInv'
<1>1. PICK stage : stage = job[j].stage
  OBVIOUS
<1>2. At(j, "start") /\ job[j].pc = "start" /\ WorkSound(j) /\ UNCHANGED <<revision, banked, angle, claim, rows>>
  BY DEF IInv, Start, At
<1>3. CASE /\ Become(j, [job[j] EXCEPT !.pc = "calling", !.count = OneMore(job[j].count, stage, Limit)])
           /\ Logged([count |-> OneMore(log.count, stage, Limit), open |-> log.open \cup {ThisCall(j)}])
           /\ paid' = IF paid = None \/ log' = log THEN None ELSE OneMore(paid, stage, PastMost)
           /\ repeated' = (repeated \/ <<job[j].work, TypeOf(stage)>> \in job[j].unsure)
  BY <1>1, <1>2, <1>3, CallKeeps
<1>4. CASE Goto(j, "release") /\ UNCHANGED <<log, ghosts>>
  <2>1. job[j].work \in Sources \cup Angles
    BY <1>2 DEF WorkSound
  <2>2. PICK n \in Job : Away(j, n)
    BY <1>2, <1>4, <2>1, Leaves
  <2>3. /\ InProgressIsClaimed' /\ UNCHANGED <<log, paid, repeated, faults>> /\ faults \in Nat
        /\ banked \in [Sources -> SUBSET Revisions]
        /\ claim \in [Sources \cup Angles -> [by : Jobs \cup {None}, live : BOOLEAN]]
    BY <1>2, <1>4 DEF IInv, TypeOK, InProgressIsClaimed, ghosts
  <2> QED BY <1>2, <2>2, <2>3, AwayKeeps
<1> QED
  BY <1>1, <1>3, <1>4 DEF Start

\* The end of a call, in the log or not.
LEMMA EndIsLogged ==
  ASSUME TypeOK, NEW j \in Jobs, Logged([log EXCEPT !.open = log.open \ {ThisCall(j)}])
  PROVE  /\ log' \in [count : [Types -> Nat], open : SUBSET Call] /\ log'.count = log.count
         /\ faults' \in Nat
<1>1. log \in [count : [Types -> Nat], open : SUBSET Call] /\ faults \in Nat
  BY DEF TypeOK
<1>2. PICK next : next = [log EXCEPT !.open = log.open \ {ThisCall(j)}]
  OBVIOUS
<1>3. next \in [count : [Types -> Nat], open : SUBSET Call] /\ next.count = log.count
  BY <1>1, <1>2
<1>4. CASE log' = next /\ UNCHANGED faults
  BY <1>1, <1>3, <1>4
<1>5. CASE Fault /\ UNCHANGED log
  BY <1>1, <1>5 DEF Fault
<1> QED
  BY <1>2, <1>4, <1>5 DEF Logged

\* The reply to a call: the next call of the draft was foreseen when its guard passed.
LEMMA ReplyKeeps ==
  ASSUME IInv, NEW j \in Jobs, Reply(j)
  PROVE  IInv'
<1>1. PICK a, stage : a = job[j].work /\ stage = job[j].stage
  OBVIOUS
<1>2. /\ job \in [Jobs -> Job] /\ job[j] \in Job /\ job[j].pc = "calling" /\ WorkSound(j) /\ TypeOK
      /\ UNCHANGED <<revision, banked, angle, claim, rows, paid, repeated>>
      /\ banked \in [Sources -> SUBSET Revisions]
      /\ claim \in [Sources \cup Angles -> [by : Jobs \cup {None}, live : BOOLEAN]]
      /\ Refreshing(j) /\ ~At(j, "logs") /\ Logged([log EXCEPT !.open = log.open \ {ThisCall(j)}])
  BY DEF IInv, TypeOK, Reply, At, Refreshing, Working, WorkSound
<1>3. /\ log' \in [count : [Types -> Nat], open : SUBSET Call] /\ log'.count = log.count
      /\ faults' \in Nat
  BY <1>2, EndIsLogged
<1>4. InProgressIsClaimed'
  BY <1>2 DEF IInv, InProgressIsClaimed
<1>5. /\ a \in Sources \cup Angles /\ stage \in Stages
      /\ a \in Angles => stage # "extraction" /\ job[j].slot \in Slots
      /\ a \notin Angles => a \in Sources /\ job[j].rev \in Revisions
      /\ stage \in {"prompt", "image"} => PlatformOf(a) = Instagram
  BY <1>1, <1>2, PipelineAssumption DEF WorkSound, Job
<1>6. ASSUME NEW n \in Job, Away(j, n)
      PROVE  IInv'
  BY <1>2, <1>3, <1>4, <1>6, AwayLogKeeps
<1>7. CASE a \notin Angles /\ Goto(j, "bank")
  BY <1>1, <1>2, <1>5, <1>6, <1>7, Leaves
<1>8. CASE Goto(j, "release")
  BY <1>1, <1>2, <1>5, <1>6, <1>8, Leaves
<1>9. ASSUME a \in Angles, NEW next \in Following(a, stage),
             IF next \in Stages THEN Become(j, [job[j] EXCEPT !.pc = "start", !.stage = next])
             ELSE Goto(j, next)
      PROVE  IInv'
  <2>1. stage \in {"draft", "revision", "prompt", "image"}
    BY <1>5, <1>9 DEF Stages
  <2>2. /\ next \in {"revision", "prompt", "image", "commit", "empty"}
        /\ next = "revision" => stage = "draft"
        /\ next = "prompt" => stage \in {"draft", "revision"} /\ PlatformOf(a) = Instagram
        /\ next = "image" => stage = "prompt"
    <3>1. AfterText(a) \subseteq {"prompt", "commit", "empty"} /\ ("prompt" \in AfterText(a) => PlatformOf(a) = Instagram)
      BY DEF AfterText
    <3> QED BY <1>9, <2>1, <3>1 DEF Following
  <2>3. CASE next \in {"commit", "empty"}
    <3>1. Goto(j, next)
      BY <1>9, <2>3 DEF Stages
    <3> QED BY <1>1, <1>2, <1>5, <1>6, <1>9, <2>3, <3>1, Leaves
  <2>4. CASE next \in {"revision", "prompt", "image"}
    <3>1. Become(j, [job[j] EXCEPT !.pc = "start", !.stage = next]) /\ next \in Stages
      BY <1>9, <2>4 DEF Stages
    <3>2. PICK n : n = [job[j] EXCEPT !.pc = "start", !.stage = next]
      OBVIOUS
    <3>3. /\ n \in Job /\ n.pc = "start" /\ n.kind = job[j].kind /\ n.drop = job[j].drop
          /\ n.count = job[j].count /\ n.keys = job[j].keys /\ n.work = a /\ n.rev = job[j].rev
          /\ n.slot = job[j].slot /\ n.stage = next /\ n.unsure = job[j].unsure
      BY ZenonT(60), <1>1, <1>2, <3>1, <3>2 DEF Job, Pc
    <3>4. job' = [job EXCEPT ![j] = n] /\ job'[j] = n
      BY <1>2, <3>1, <3>2 DEF Become
    <3>5. WorkSound(j)'
      BY <1>1, <1>2, <1>5, <1>9, <2>2, <2>4, <3>3, <3>4 DEF WorkSound
    <3>6. ASSUME paid # None
          PROVE  RoomLeft(j)'
      <4>1. RoomLeft(j) /\ paid["text"] \in Nat /\ Limit["text"] \in Nat
        BY <1>2, <3>6, LimitsType DEF IInv, TypeOK, CallsSound
      <4>2. paid["text"] <= Limit["text"] + TextsBefore[stage]
        BY <1>1, <1>2, <4>1 DEF RoomLeft
      <4>3. TextsBefore[stage] \in Nat /\ TextsBefore[next] \in Nat /\ TextsBefore[stage] < TextsBefore[next]
        BY <2>1, <2>2, <2>4 DEF TextsBefore
      <4>4. paid["text"] < Limit["text"] + TextsBefore[next]
        BY <4>1, <4>2, <4>3
      <4>5. PlatformOf(a) = Instagram => paid["image"] < Limit["image"]
        BY <1>1, <1>2, <1>5, <1>9, <2>2, <2>4, <4>1 DEF RoomLeft
      <4> QED BY <1>2, <3>3, <3>4, <4>4, <4>5 DEF RoomLeft
    <3>7. job[j].drop \subseteq n.drop /\ n.pc # "drop"
      BY <3>3
    <3>8. paid # None /\ Refreshing(j)' =>
            /\ Refreshing(j)
            /\ n.pc = "logs" \/ Counted(n.count) \/ (n.count = job[j].count /\ ~At(j, "logs"))
            /\ n.pc \in {"claim", "start", "calling"} => RoomLeft(j)'
      BY <1>2, <3>3, <3>6
    <3> QED BY <1>2, <1>3, <1>4, <3>3, <3>4, <3>5, <3>7, <3>8, LogKeeps
  <2> QED BY <2>2, <2>3, <2>4
<1> QED
  BY <1>1, <1>7, <1>8, <1>9 DEF Reply

----------------------------------------------------------------------------
(* Commits *)

\* The row of an angle that had none, on a slot that was open.
LEMMA RowIsAdded ==
  ASSUME IInv, NEW j \in Jobs, NEW n \in Job, Away(j, n), NEW a \in Angles, NEW slot \in Slots,
         angle[a] = "in_progress", <<PlatformOf(a), slot>> \notin Occupied,
         rows' = rows \cup {[angle |-> a, slot |-> slot, status |-> "ready"]},
         angle' = [angle EXCEPT ![a] = "drafted"]
  PROVE  OneRowOfAngle' /\ QueuedIsNotDraftable' /\ ReleasesAreAlone' /\ DraftsAreKept'
<1>1. PICK new : new = [angle |-> a, slot |-> slot, status |-> "ready"]
  OBVIOUS
<1>2. /\ rows' = rows \cup {new} /\ new.angle = a /\ new.slot = slot /\ new.status = "ready"
      /\ angle'[a] = "drafted" /\ \A b \in Angles \ {a} : angle'[b] = angle[b]
      /\ \A r \in rows : r.angle \in Angles /\ r.angle # a
  BY <1>1 DEF IInv, TypeOK, Row, OneRowOfAngle, IsActive
<1>3. OneRowOfAngle'
  BY <1>2 DEF IInv, OneRowOfAngle, IsActive
<1>4. QueuedIsNotDraftable'
  <2>1. \A r \in rows : r.status = "ready" => <<PlatformOf(r.angle), r.slot>> # <<PlatformOf(new.angle), new.slot>>
    BY <1>2 DEF Occupied
  <2>2. \A r \in rows' : r.status # "skipped" => ~IsActive(angle'[r.angle])
    BY <1>2 DEF IInv, QueuedIsNotDraftable, IsActive
  <2>3. \A r \in rows : \A q \in rows : q # r /\ r.status = "ready" /\ q.status = "ready" =>
          q.angle # r.angle /\ <<PlatformOf(q.angle), q.slot>> # <<PlatformOf(r.angle), r.slot>>
    BY DEF IInv, QueuedIsNotDraftable
  <2>4. \A r \in rows' : \A q \in rows' : q # r /\ r.status = "ready" /\ q.status = "ready" =>
          q.angle # r.angle /\ <<PlatformOf(q.angle), q.slot>> # <<PlatformOf(r.angle), r.slot>>
    BY <1>2, <2>1, <2>3
  <2> QED BY <2>2, <2>4 DEF QueuedIsNotDraftable
<1>5. job' = [job EXCEPT ![j] = n] /\ n.pc # "drop" /\ n.drop = job[j].drop
  BY DEF Away
<1>6. job'[j] = n /\ \A i \in Jobs \ {j} : job'[i] = job[i]
  BY <1>5 DEF IInv, TypeOK
<1>7. ReleasesAreAlone'
  <2>1. \A i \in Jobs : ~Releases(i, a)
    BY DEF IInv, ReleasesAreAlone, IsActive
  <2>2. \A i \in Jobs, b \in Angles : Releases(i, b)' => Releases(i, b)
    BY <1>5, <1>6 DEF Releases, At
  <2> QED BY <1>2, <2>1, <2>2 DEF IInv, ReleasesAreAlone
<1>8. DraftsAreKept'
  <2>1. \A i \in Jobs : job[i].drop \subseteq job'[i].drop
    BY <1>5, <1>6
  <2> QED BY <1>2, <2>1 DEF IInv, DraftsAreKept
<1> QED
  BY <1>3, <1>4, <1>7, <1>8

\* A draft is committed: its row and its angle move together.
LEMMA CommitKeeps ==
  ASSUME IInv, NEW j \in Jobs, Commit(j)
  PROVE  IInv'
<1>1. PICK a, slot : a = job[j].work /\ slot = job[j].slot
  OBVIOUS
<1>2. /\ job \in [Jobs -> Job] /\ job[j].pc = "commit" /\ WorkSound(j) /\ TypeOK
      /\ UNCHANGED <<revision, banked, log, paid, repeated, faults>>
      /\ faults \in Nat /\ banked \in [Sources -> SUBSET Revisions]
      /\ claim \in [Sources \cup Angles -> [by : Jobs \cup {None}, live : BOOLEAN]]
      /\ angle \in [Angles -> {"none", "unused", "in_progress", "drafted", "exhausted", "rejected"}]
  BY DEF IInv, TypeOK, Commit, At, ghosts
<1>3. a \in Angles /\ slot \in Slots
  BY <1>1, <1>2 DEF WorkSound
<1>4. PICK n \in Job : Away(j, n)
  <2>1. Done(j) \/ Goto(j, "exhaust")
    BY DEF Commit
  <2> QED BY <1>1, <1>2, <1>3, <2>1, Leaves
<1>5. CASE UNCHANGED <<rows, angle, claim>>
  <2>1. InProgressIsClaimed'
    BY <1>3, <1>5, ClaimsStay
  <2> QED BY <1>2, <1>4, <1>5, <2>1, AwayKeeps
<1>6. CASE /\ angle[a] = "in_progress" /\ <<PlatformOf(a), slot>> \notin Occupied
           /\ rows' = rows \cup {[angle |-> a, slot |-> slot, status |-> "ready"]}
           /\ angle' = [angle EXCEPT ![a] = "drafted"] /\ GiveBack(a)
  <2>1. OneRowOfAngle' /\ QueuedIsNotDraftable' /\ ReleasesAreAlone' /\ DraftsAreKept'
    BY <1>3, <1>4, <1>6, RowIsAdded
  <2>2. /\ InProgressIsClaimed'
        /\ claim' \in [Sources \cup Angles -> [by : Jobs \cup {None}, live : BOOLEAN]]
    BY <1>2, <1>3, <1>6, ClaimsType, ClaimsStay
  <2>3. /\ job' = [job EXCEPT ![j] = n] /\ WorkSound(j)'
        /\ paid # None /\ Refreshing(j)' =>
             /\ Refreshing(j)
             /\ n.pc = "logs" \/ Counted(n.count) \/ (n.count = job[j].count /\ ~At(j, "logs"))
             /\ n.pc \in {"claim", "start", "calling"} => RoomLeft(j)'
    BY <1>4 DEF Away
  <2>4. CallsSound' /\ CallsNearLimit'
    BY <1>2, <2>3, CallsStay
  <2>5. UnsettledIsNotRepeated'
    BY <1>2 DEF IInv, UnsettledIsNotRepeated
  <2>6. TypeOK'
    <3>1. [angle |-> a, slot |-> slot, status |-> "ready"] \in Row
      BY <1>3 DEF Row
    <3>2. job' \in [Jobs -> Job]
      BY <1>2, <2>3
    <3>3. angle' \in [Angles -> {"none", "unused", "in_progress", "drafted", "exhausted", "rejected"}]
      BY <1>2, <1>6
    <3>4. rows' \in SUBSET Row
      BY <1>2, <1>6, <3>1 DEF TypeOK
    <3> QED BY <1>2, <2>2, <3>2, <3>3, <3>4 DEF TypeOK
  <2> QED BY <2>1, <2>2, <2>3, <2>4, <2>5, <2>6, StepKeeps
<1> QED
  BY <1>1, <1>5, <1>6 DEF Commit

----------------------------------------------------------------------------
(* Sources *)

\* A job turns to the sources.
LEMMA LoadSourcesKeeps ==
  ASSUME IInv, NEW j \in Jobs, LoadSources(j)
  PROVE  IInv'
<1>1. PICK found : found = {s \in Sources : Processable(s)}
  OBVIOUS
<1>2. PICK n : n = [job[j] EXCEPT !.pc = "source", !.banking = TRUE, !.sources = found]
  OBVIOUS
<1>3. /\ job \in [Jobs -> Job] /\ job[j] \in Job /\ job[j].pc = "sources" /\ WorkSound(j)
      /\ UNCHANGED <<revision, banked, angle, claim, rows, log, paid, repeated, faults>>
      /\ faults \in Nat /\ banked \in [Sources -> SUBSET Revisions]
      /\ claim \in [Sources \cup Angles -> [by : Jobs \cup {None}, live : BOOLEAN]]
      /\ Refreshing(j) /\ ~At(j, "logs") /\ found \in SUBSET Sources
  BY <1>1 DEF IInv, TypeOK, LoadSources, At, data, ghosts, Refreshing, Working, WorkSound
<1>4. InProgressIsClaimed'
  BY <1>3 DEF IInv, InProgressIsClaimed
<1>5. /\ n \in Job /\ n.pc = "source" /\ n.kind = job[j].kind /\ n.drop = job[j].drop
      /\ n.count = job[j].count /\ n.keys = job[j].keys
  BY ZenonT(60), <1>2, <1>3 DEF Job, Pc
<1>6. job' = [job EXCEPT ![j] = n] /\ job'[j] = n
  BY <1>1, <1>2, <1>3 DEF LoadSources, Become
<1>7. WorkSound(j)'
  BY <1>3, <1>5, <1>6 DEF WorkSound
<1>8. Away(j, n)
  BY <1>3, <1>5, <1>6, <1>7 DEF Away
<1> QED
  BY <1>3, <1>4, <1>5, <1>8, AwayKeeps

\* A source that is claimed, passed over, or the end of the job.
LEMMA ClaimSourceKeeps ==
  ASSUME IInv, NEW j \in Jobs, ClaimSource(j)
  PROVE  IInv'
<1>1. PICK s \in job[j].sources :
        \/ /\ Take(j, s)
           /\ \/ Become(j, [job[j] EXCEPT !.pc = "guard", !.sources = job[j].sources \ {s}, !.work = s,
                                          !.rev = revision[s], !.stage = "extraction"])
              \/ Done(j)
        \/ UNCHANGED claim /\ Become(j, [job[j] EXCEPT !.sources = job[j].sources \ {s}])
        \/ Done(j) /\ UNCHANGED claim
  BY DEF ClaimSource
<1>2. /\ job \in [Jobs -> Job] /\ job[j] \in Job /\ job[j].pc = "source" /\ WorkSound(j) /\ TypeOK
      /\ UNCHANGED <<revision, banked, angle, rows, log, paid, repeated, faults>>
      /\ faults \in Nat /\ banked \in [Sources -> SUBSET Revisions]
      /\ claim \in [Sources \cup Angles -> [by : Jobs \cup {None}, live : BOOLEAN]]
      /\ Refreshing(j) /\ ~At(j, "logs")
  BY DEF IInv, TypeOK, ClaimSource, At, ghosts, Refreshing, Working, WorkSound
<1>3. s \in Sources /\ s \notin Angles /\ revision[s] \in Revisions
  BY <1>2, PipelineAssumption DEF Job, TypeOK
<1>4. /\ InProgressIsClaimed'
      /\ claim' \in [Sources \cup Angles -> [by : Jobs \cup {None}, live : BOOLEAN]]
  BY <1>1, <1>2, <1>3, ClaimsType, ClaimsStay
<1>5. ASSUME NEW n \in Job, Away(j, n)
      PROVE  IInv'
  BY <1>2, <1>4, <1>5, AwayKeeps
<1>6. CASE Done(j)
  BY <1>2, <1>5, <1>6, Leaves
<1>7. CASE Become(j, [job[j] EXCEPT !.pc = "guard", !.sources = job[j].sources \ {s}, !.work = s,
                                    !.rev = revision[s], !.stage = "extraction"])
  <2>1. PICK rev : rev = revision[s]
    OBVIOUS
  <2>2. PICK n : n = [job[j] EXCEPT !.pc = "guard", !.sources = job[j].sources \ {s}, !.work = s,
                                    !.rev = rev, !.stage = "extraction"]
    OBVIOUS
  <2>3. /\ n \in Job /\ n.pc = "guard" /\ n.kind = job[j].kind /\ n.drop = job[j].drop
        /\ n.count = job[j].count /\ n.keys = job[j].keys /\ n.work = s /\ n.rev = rev /\ n.stage = "extraction"
    <3>1. /\ rev \in Revisions \cup {0} /\ s \in Sources \cup Angles \cup {None}
          /\ job[j].sources \ {s} \in SUBSET Sources /\ "guard" \in Pc /\ "extraction" \in Stages
      BY <1>2, <1>3, <2>1 DEF Job, Pc, Stages
    <3> QED BY ZenonT(60), <1>2, <2>2, <3>1 DEF Job
  <2>4. job' = [job EXCEPT ![j] = n] /\ job'[j] = n
    BY <1>2, <1>7, <2>1, <2>2 DEF Become
  <2>5. WorkSound(j)'
    BY <1>2, <1>3, <2>1, <2>3, <2>4 DEF WorkSound
  <2>6. Away(j, n)
    BY <1>2, <2>3, <2>4, <2>5 DEF Away
  <2> QED BY <1>5, <2>3, <2>6
<1>8. CASE Become(j, [job[j] EXCEPT !.sources = job[j].sources \ {s}])
  <2>1. PICK n : n = [job[j] EXCEPT !.sources = job[j].sources \ {s}]
    OBVIOUS
  <2>2. /\ n \in Job /\ n.pc = "source" /\ n.kind = job[j].kind /\ n.drop = job[j].drop
        /\ n.count = job[j].count /\ n.keys = job[j].keys
    BY ZenonT(60), <1>2, <2>1 DEF Job, Pc
  <2>3. job' = [job EXCEPT ![j] = n] /\ job'[j] = n
    BY <1>2, <1>8, <2>1 DEF Become
  <2>4. WorkSound(j)'
    BY <1>2, <2>2, <2>3 DEF WorkSound
  <2>5. Away(j, n)
    BY <1>2, <2>2, <2>3, <2>4 DEF Away
  <2> QED BY <1>5, <2>2, <2>5
<1> QED
  BY <1>1, <1>6, <1>7, <1>8

\* A job has no more sources.
LEMMA SourcesEndKeeps ==
  ASSUME IInv, NEW j \in Jobs, SourcesEnd(j)
  PROVE  IInv'
<1>1. /\ job[j].pc = "source" /\ Done(j)
      /\ UNCHANGED <<revision, banked, angle, claim, rows, log, paid, repeated, faults>>
      /\ faults \in Nat /\ banked \in [Sources -> SUBSET Revisions]
      /\ claim \in [Sources \cup Angles -> [by : Jobs \cup {None}, live : BOOLEAN]]
  BY DEF IInv, TypeOK, SourcesEnd, At, data, ghosts
<1>2. InProgressIsClaimed'
  BY <1>1 DEF IInv, InProgressIsClaimed
<1>3. PICK n \in Job : Away(j, n)
  BY <1>1, Leaves
<1> QED
  BY <1>1, <1>2, <1>3, AwayKeeps

\* The guard after the claim leaves room for the one call it lets through.
LEMMA GuardSourceKeeps ==
  ASSUME IInv, NEW j \in Jobs, GuardSource(j)
  PROVE  IInv'
<1>1. PICK s : s = job[j].work
  OBVIOUS
<1>2. /\ job \in [Jobs -> Job] /\ job[j] \in Job /\ job[j].pc = "guard" /\ WorkSound(j) /\ TypeOK
      /\ UNCHANGED <<revision, banked, angle, rows, log, paid, repeated, faults>>
      /\ faults \in Nat /\ banked \in [Sources -> SUBSET Revisions]
      /\ claim \in [Sources \cup Angles -> [by : Jobs \cup {None}, live : BOOLEAN]]
      /\ Refreshing(j) /\ ~At(j, "logs")
  BY DEF IInv, TypeOK, GuardSource, At, ghosts, Refreshing, Working, WorkSound
<1>3. s \in Sources /\ s \notin Angles /\ job[j].stage = "extraction" /\ job[j].rev \in Revisions
  BY <1>1, <1>2, PipelineAssumption DEF WorkSound
<1>4. /\ InProgressIsClaimed'
      /\ claim' \in [Sources \cup Angles -> [by : Jobs \cup {None}, live : BOOLEAN]]
  <2>1. GiveBack(s) \/ UNCHANGED claim
    BY <1>1 DEF GuardSource
  <2> QED BY <1>2, <1>3, <2>1, ClaimsType, ClaimsStay
<1>5. CASE Done(j)
  <2>1. PICK n \in Job : Away(j, n)
    BY <1>2, <1>5, Leaves
  <2> QED BY <1>2, <1>4, <2>1, AwayKeeps
<1>6. CASE Preflight(j, s, "text") /\ Goto(j, "start")
  <2>1. PICK n \in Job :
           /\ job' = [job EXCEPT ![j] = n] /\ job'[j] = n
           /\ n.pc = "start" /\ n.kind = job[j].kind /\ n.drop = job[j].drop /\ n.count = job[j].count
           /\ n.keys = job[j].keys /\ n.work = job[j].work /\ n.rev = job[j].rev /\ n.slot = job[j].slot
           /\ n.stage = job[j].stage /\ n.unsure = job[j].unsure
    BY <1>6, GotoMoves DEF Pc
  <2>2. WorkSound(j)'
    BY <1>1, <1>2, <1>3, <1>6, <2>1 DEF WorkSound, Preflight
  <2>3. ASSUME paid # None
        PROVE  RoomLeft(j)'
    <3>1. Counted(job[j].count) /\ TextsBefore["extraction"] = 0
      BY <1>2, <2>3 DEF IInv, CallsSound, TextsBefore
    <3>2. paid["text"] \in Nat /\ job[j].count["text"] \in Nat /\ Limit["text"] \in Nat
      BY <1>2, <2>3, LimitsType DEF TypeOK, Job
    <3>3. paid["text"] < Limit["text"] + TextsBefore["extraction"]
      BY <1>6, <3>1, <3>2, LimitsType DEF Preflight, Counted
    <3> QED BY <1>2, <1>3, <2>1, <3>3 DEF RoomLeft
  <2>4. job[j].drop \subseteq n.drop /\ n.pc # "drop"
    BY <2>1
  <2>5. paid # None /\ Refreshing(j)' =>
          /\ Refreshing(j)
          /\ n.pc = "logs" \/ Counted(n.count) \/ (n.count = job[j].count /\ ~At(j, "logs"))
          /\ n.pc \in {"claim", "start", "calling"} => RoomLeft(j)'
    BY <1>2, <2>1, <2>3
  <2> QED BY <1>2, <1>4, <2>1, <2>2, <2>4, <2>5, QuietKeeps
<1> QED
  BY <1>1, <1>5, <1>6 DEF GuardSource

\* The angles that are banked are new, or are left as they are.
LEMMA BankKeeps ==
  ASSUME IInv, NEW j \in Jobs, Bank(j)
  PROVE  IInv'
<1>1. PICK s, rev : s = job[j].work /\ rev = job[j].rev
  OBVIOUS
<1>2. /\ job \in [Jobs -> Job] /\ job[j].pc = "bank" /\ WorkSound(j) /\ TypeOK
      /\ UNCHANGED <<revision, rows, log, paid, repeated, faults>>
      /\ faults \in Nat /\ banked \in [Sources -> SUBSET Revisions]
      /\ claim \in [Sources \cup Angles -> [by : Jobs \cup {None}, live : BOOLEAN]]
      /\ angle \in [Angles -> {"none", "unused", "in_progress", "drafted", "exhausted", "rejected"}]
  BY DEF IInv, TypeOK, Bank, At, ghosts
<1>3. s \in Sources /\ s \notin Angles /\ rev \in Revisions
  BY <1>1, <1>2, PipelineAssumption DEF WorkSound
<1>4. PICK n \in Job : Away(j, n)
  <2>1. Done(j) \/ \E pc \in {"source", "load"} : Goto(j, pc)
    BY DEF Bank
  <2> QED BY <1>2, <2>1, Leaves
<1>5. CASE UNCHANGED <<claim, banked, angle>>
  <2>1. InProgressIsClaimed'
    BY <1>3, <1>5, ClaimsStay
  <2> QED BY <1>2, <1>4, <1>5, <2>1, AwayKeeps
<1>6. CASE /\ GiveBack(s) /\ banked' = [banked EXCEPT ![s] = @ \cup {rev}]
           /\ \E found \in SUBSET Angles :
                angle' = [a \in Angles |-> IF a \in found /\ angle[a] = "none" THEN "unused" ELSE angle[a]]
  <2>1. /\ \A a \in Angles : angle'[a] = angle[a] \/ (angle[a] = "none" /\ angle'[a] = "unused")
        /\ angle' \in [Angles -> {"none", "unused", "in_progress", "drafted", "exhausted", "rejected"}]
    BY <1>2, <1>6
  <2>2. /\ InProgressIsClaimed'
        /\ claim' \in [Sources \cup Angles -> [by : Jobs \cup {None}, live : BOOLEAN]]
    <3>1. \A a \in Angles \ {s} : claim'[a] = claim[a]
      BY <1>2, <1>3, <1>6 DEF GiveBack
    <3> QED BY <1>2, <1>3, <1>6, <2>1, <3>1, ClaimsType DEF IInv, InProgressIsClaimed
  <2>3. banked' \in [Sources -> SUBSET Revisions]
    BY <1>2, <1>3, <1>6
  <2>4. /\ job' = [job EXCEPT ![j] = n] /\ WorkSound(j)' /\ n.pc # "drop" /\ n.drop = job[j].drop
        /\ paid # None /\ Refreshing(j)' =>
             /\ Refreshing(j)
             /\ n.pc = "logs" \/ Counted(n.count) \/ (n.count = job[j].count /\ ~At(j, "logs"))
             /\ n.pc \in {"claim", "start", "calling"} => RoomLeft(j)'
    BY <1>4 DEF Away
  <2>5. job'[j] = n /\ \A i \in Jobs \ {j} : job'[i] = job[i]
    BY <1>2, <2>4
  <2>6. CallsSound' /\ CallsNearLimit'
    BY <1>2, <2>4, CallsStay
  <2>7. TypeOK' /\ UnsettledIsNotRepeated'
    <3>1. job' \in [Jobs -> Job]
      BY <1>2, <2>4
    <3> QED BY <1>2, <2>1, <2>2, <2>3, <3>1 DEF IInv, TypeOK, UnsettledIsNotRepeated
  <2>8. OneRowOfAngle' /\ QueuedIsNotDraftable'
    <3>1. \A r \in rows : r.angle \in Angles /\ angle'[r.angle] = angle[r.angle]
      BY <1>2, <2>1 DEF IInv, TypeOK, Row, OneRowOfAngle
    <3> QED BY <1>2, <3>1 DEF IInv, OneRowOfAngle, QueuedIsNotDraftable
  <2>9. ReleasesAreAlone'
    <3>1. \A i \in Jobs, b \in Angles : Releases(i, b)' => Releases(i, b)
      BY <2>4, <2>5 DEF Releases, At
    <3>2. \A i \in Jobs, b \in Angles : Releases(i, b) => angle'[b] = angle[b]
      BY <2>1 DEF IInv, ReleasesAreAlone
    <3> QED BY <1>2, <3>1, <3>2 DEF IInv, ReleasesAreAlone
  <2>10. DraftsAreKept'
    <3>1. \A i \in Jobs : job[i].drop \subseteq job'[i].drop
      BY <2>4, <2>5
    <3> QED BY <1>2, <2>1, <3>1 DEF IInv, DraftsAreKept
  <2> QED BY <2>2, <2>4, <2>6, <2>7, <2>8, <2>9, <2>10, StepKeeps
<1> QED
  BY <1>1, <1>5, <1>6 DEF Bank

----------------------------------------------------------------------------
(* Releases and skips *)

\* The row goes or is marked; nobody drafts its angle until the job gets to it.
LEMMA DropRowsKeeps ==
  ASSUME IInv, NEW j \in Jobs, NEW kind \in {"release", "skip"}, NEW targets \in SUBSET rows,
         DropRows(j, kind, targets)
  PROVE  IInv'
<1>1. PICK dropped : dropped = {r.angle : r \in targets}
  OBVIOUS
<1>2. PICK n : n = [NoJob EXCEPT !.pc = "drop", !.kind = kind, !.drop = dropped]
  OBVIOUS
<1>3. /\ job \in [Jobs -> Job] /\ job[j] \in Job /\ job[j].pc = "new" /\ job[j].drop = {} /\ TypeOK
      /\ UNCHANGED <<revision, banked, angle, claim, log, paid, repeated, faults>>
      /\ faults \in Nat /\ \A r \in rows : r \in Row /\ r.angle \in Angles
  BY DEF IInv, TypeOK, DropRows, At, ghosts, WorkSound, Row
<1>4. dropped \in SUBSET Angles
  BY <1>1, <1>3
<1>5. /\ n \in Job /\ n.pc = "drop" /\ n.kind = kind /\ n.drop = dropped /\ n.keys = {}
  BY ZenonT(60), <1>2, <1>4, NewJob DEF Job, Pc
<1>6. job' = [job EXCEPT ![j] = n] /\ job'[j] = n /\ \A i \in Jobs \ {j} : job'[i] = job[i]
  BY <1>1, <1>2, <1>3 DEF DropRows, Become
<1>7. WorkSound(j)' /\ ~Refreshing(j)'
  BY <1>5, <1>6 DEF WorkSound, Refreshing
<1>8. CallsSound' /\ CallsNearLimit'
  BY <1>3, <1>5, <1>6, <1>7, CallsStay
<1>9. UnsettledIsNotRepeated' /\ InProgressIsClaimed'
  BY <1>3 DEF IInv, UnsettledIsNotRepeated, InProgressIsClaimed
<1>10. CASE kind = "release"
  <2>1. rows' = rows \ targets
    BY <1>10 DEF DropRows
  <2>2. TypeOK'
    BY <1>3, <1>5, <1>6, <2>1 DEF TypeOK
  <2>3. OneRowOfAngle' /\ QueuedIsNotDraftable'
    BY <1>3, <2>1 DEF IInv, OneRowOfAngle, QueuedIsNotDraftable
  <2>4. ReleasesAreAlone'
    <3>1. \A b \in dropped : /\ angle[b] # "none" /\ ~IsActive(angle[b]) /\ \A r \in rows' : r.angle # b
                             /\ \A i \in Jobs : ~Releases(i, b)
      BY <1>1, <1>3, <2>1 DEF IInv, OneRowOfAngle, ReleasesAreAlone
    <3>2. \A i \in Jobs \ {j}, b \in Angles : Releases(i, b)' => Releases(i, b)
      BY <1>6 DEF Releases, At
    <3>3. \A b \in Angles : Releases(j, b)' => b \in dropped
      BY <1>5, <1>6 DEF Releases
    <3> QED BY <1>3, <2>1, <3>1, <3>2, <3>3 DEF IInv, ReleasesAreAlone
  <2>5. DraftsAreKept'
    <3>1. \A r \in rows : r \in rows' \/ r.angle \in job'[j].drop
      BY <1>1, <1>5, <1>6, <2>1
    <3>2. \A i \in Jobs : job[i].drop \subseteq job'[i].drop
      BY <1>3, <1>6
    <3> QED BY <1>3, <3>1, <3>2 DEF IInv, DraftsAreKept
  <2> QED BY <1>5, <1>6, <1>7, <1>8, <1>9, <2>2, <2>3, <2>4, <2>5, StepKeeps
<1>11. CASE kind = "skip"
  <2>1. rows' = {IF r \in targets THEN [r EXCEPT !.status = "skipped"] ELSE r : r \in rows}
    BY <1>11 DEF DropRows
  <2>2. \A r \in rows : LET m == IF r \in targets THEN [r EXCEPT !.status = "skipped"] ELSE r
                        IN  /\ m \in Row /\ m.angle = r.angle /\ m.slot = r.slot
                            /\ m.status \in {r.status, "skipped"}
    BY <1>3 DEF Row
  <2>3. \A q \in rows' : \E r \in rows : /\ q \in Row /\ q.angle = r.angle /\ q.slot = r.slot
                                         /\ q.status \in {r.status, "skipped"}
                                         /\ q = IF r \in targets THEN [r EXCEPT !.status = "skipped"] ELSE r
    BY <2>1, <2>2
  <2>4. \A r \in rows : \E q \in rows' : q.angle = r.angle
    BY <2>1, <2>2
  <2>5. TypeOK'
    BY <1>3, <1>5, <1>6, <2>3 DEF TypeOK
  <2>6. OneRowOfAngle'
    BY <1>3, <2>3 DEF IInv, OneRowOfAngle
  <2>7. QueuedIsNotDraftable'
    <3>1. \A q \in rows' : ~IsActive(angle'[q.angle])
      BY <2>6 DEF OneRowOfAngle
    <3>2. \A p, q \in rows' : p # q /\ p.status = "ready" /\ q.status = "ready" =>
            p.angle # q.angle /\ <<PlatformOf(p.angle), p.slot>> # <<PlatformOf(q.angle), q.slot>>
      <4> TAKE p, q \in rows'
      <4>1. PICK r \in rows : /\ p.angle = r.angle /\ p.slot = r.slot /\ p.status \in {r.status, "skipped"}
                              /\ p = IF r \in targets THEN [r EXCEPT !.status = "skipped"] ELSE r
        BY <2>3
      <4>2. PICK t \in rows : /\ q.angle = t.angle /\ q.slot = t.slot /\ q.status \in {t.status, "skipped"}
                              /\ q = IF t \in targets THEN [t EXCEPT !.status = "skipped"] ELSE t
        BY <2>3
      <4> QED BY <4>1, <4>2 DEF IInv, QueuedIsNotDraftable
    <3> QED BY <3>1, <3>2 DEF QueuedIsNotDraftable
  <2>8. ReleasesAreAlone'
    <3>1. \A i \in Jobs, b \in Angles : Releases(i, b)' => Releases(i, b)
      BY <1>5, <1>6, <1>11 DEF Releases, At
    <3> QED BY <1>3, <2>3, <3>1 DEF IInv, ReleasesAreAlone
  <2>9. DraftsAreKept'
    <3>1. \A i \in Jobs : job[i].drop \subseteq job'[i].drop
      BY <1>3, <1>6
    <3> QED BY <1>3, <2>4, <3>1 DEF IInv, DraftsAreKept
  <2> QED BY <1>5, <1>6, <1>7, <1>8, <1>9, <2>5, <2>6, <2>7, <2>8, <2>9, StepKeeps
<1> QED
  BY <1>10, <1>11

\* An angle gets its new status; if it can be drafted then, it is this release's alone.
LEMMA DropAngleKeeps ==
  ASSUME IInv, NEW j \in Jobs, DropAngle(j)
  PROVE  IInv'
<1>1. /\ job \in [Jobs -> Job] /\ job[j] \in Job /\ job[j].pc = "drop" /\ WorkSound(j) /\ TypeOK
      /\ UNCHANGED <<revision, banked, claim, rows, log, paid, repeated, faults>>
      /\ faults \in Nat /\ banked \in [Sources -> SUBSET Revisions]
      /\ claim \in [Sources \cup Angles -> [by : Jobs \cup {None}, live : BOOLEAN]]
      /\ angle \in [Angles -> {"none", "unused", "in_progress", "drafted", "exhausted", "rejected"}]
  BY DEF IInv, TypeOK, DropAngle, At, ghosts
<1>2. job[j].kind \in {"release", "skip"} /\ job[j].keys = {}
  BY <1>1 DEF WorkSound, Job
<1>3. CASE Done(j) /\ UNCHANGED angle
  <2>1. InProgressIsClaimed'
    BY <1>1, <1>3 DEF IInv, InProgressIsClaimed
  <2> QED BY <1>1, <1>3, <2>1, DoneMoves, QuietKeeps
<1>4. ASSUME NEW a \in job[j].drop, angle' = [angle EXCEPT ![a] = StatusAfter(job[j].kind)],
             Become(j, [job[j] EXCEPT !.drop = job[j].drop \ {a}])
      PROVE  IInv'
  <2>1. PICK n : n = [job[j] EXCEPT !.drop = job[j].drop \ {a}]
    OBVIOUS
  <2>2. PICK status : status = StatusAfter(job[j].kind)
    OBVIOUS
  <2>3. /\ n \in Job /\ n.pc = "drop" /\ n.kind = job[j].kind /\ n.drop = job[j].drop \ {a} /\ n.keys = {}
        /\ a \in Angles
    BY <1>1, <1>2, <2>1 DEF Job
  <2>4. job' = [job EXCEPT ![j] = n] /\ job'[j] = n /\ \A i \in Jobs \ {j} : job'[i] = job[i]
    BY <1>1, <1>4, <2>1 DEF Become
  <2>5. /\ status \in {"unused", "rejected"} /\ (job[j].kind = "release" <=> status = "unused")
        /\ angle'[a] = status /\ \A b \in Angles \ {a} : angle'[b] = angle[b]
    BY <1>1, <1>2, <1>4, <2>2, <2>3 DEF StatusAfter
  <2>6. WorkSound(j)' /\ ~Refreshing(j)'
    BY <1>2, <2>3, <2>4 DEF WorkSound, Refreshing
  <2>7. CallsSound' /\ CallsNearLimit'
    BY <1>1, <2>3, <2>4, <2>6, CallsStay
  <2>8. TypeOK' /\ UnsettledIsNotRepeated' /\ InProgressIsClaimed'
    <3>1. job' \in [Jobs -> Job]
      BY <1>1, <2>3, <2>4
    <3>2. angle' \in [Angles -> {"none", "unused", "in_progress", "drafted", "exhausted", "rejected"}]
      BY <1>1, <1>4, <2>2, <2>5
    <3> QED BY <1>1, <2>5, <3>1, <3>2 DEF IInv, TypeOK, UnsettledIsNotRepeated, InProgressIsClaimed
  <2>9. \A r \in rows : r.angle \in Angles /\ (status = "unused" => r.angle # a)
    <3>1. \A r \in rows : r.angle \in Angles
      BY <1>1 DEF TypeOK, Row
    <3>2. status = "unused" => Releases(j, a)
      BY <1>1, <2>5 DEF Releases, At
    <3> QED BY <2>3, <3>1, <3>2 DEF IInv, ReleasesAreAlone
  <2>10. OneRowOfAngle' /\ QueuedIsNotDraftable'
    <3>1. \A r \in rows : angle'[r.angle] # "none" /\ ~IsActive(angle'[r.angle])
      BY <2>5, <2>9 DEF IInv, OneRowOfAngle, IsActive
    <3> QED BY <1>1, <3>1 DEF IInv, OneRowOfAngle, QueuedIsNotDraftable
  <2>11. ReleasesAreAlone'
    <3>1. \A i \in Jobs, b \in Angles : Releases(i, b)' => Releases(i, b)
      BY <1>1, <2>3, <2>4 DEF Releases, At
    <3>2. \A i \in Jobs : Releases(i, a)' => status = "rejected"
      <4>1. \A i \in Jobs \ {j} : Releases(i, a) => ~Releases(j, a)
        BY <2>3 DEF IInv, ReleasesAreAlone
      <4>2. ~Releases(j, a)'
        BY <2>3, <2>4 DEF Releases
      <4>3. status = "unused" => Releases(j, a)
        BY <1>1, <2>5 DEF Releases, At
      <4> QED BY <2>3, <2>5, <3>1, <4>1, <4>2, <4>3
    <3>3. \A i \in Jobs, b \in Angles : Releases(i, b)' => angle'[b] # "none" /\ ~IsActive(angle'[b])
      BY <2>5, <3>1, <3>2 DEF IInv, ReleasesAreAlone, IsActive
    <3> QED BY <1>1, <3>1, <3>3 DEF IInv, ReleasesAreAlone
  <2>12. DraftsAreKept'
    <3>1. \A i \in Jobs : job[i].drop \ {a} \subseteq job'[i].drop
      BY <2>3, <2>4
    <3> QED BY <1>1, <2>5, <3>1 DEF IInv, DraftsAreKept
  <2> QED BY <2>3, <2>4, <2>6, <2>7, <2>8, <2>10, <2>11, <2>12, StepKeeps
<1> QED
  BY <1>3, <1>4 DEF DropAngle

----------------------------------------------------------------------------
(* The rest of the world *)

\* A job is cut off anywhere; its claims stay until they lapse.
LEMMA CrashKeeps ==
  ASSUME IInv, NEW j \in Jobs, Crash(j)
  PROVE  IInv'
<1>1. /\ UNCHANGED <<revision, banked, angle, claim, rows, log, paid, repeated>> /\ faults' \in Nat
      /\ banked \in [Sources -> SUBSET Revisions]
      /\ claim \in [Sources \cup Angles -> [by : Jobs \cup {None}, live : BOOLEAN]] /\ Done(j)
  BY DEF IInv, TypeOK, Crash, Fault, data
<1>2. InProgressIsClaimed'
  BY <1>1 DEF IInv, InProgressIsClaimed
<1> QED
  BY <1>1, <1>2, DoneMoves, QuietKeeps

\* Nothing that a job, an angle or a row says changes, and no call is made.
LEMMA JobsStay ==
  ASSUME IInv, UNCHANGED <<job, angle, paid, repeated>>, log' = log, TypeOK', InProgressIsClaimed',
         OneRowOfAngle', QueuedIsNotDraftable', ReleasesAreAlone', DraftsAreKept'
  PROVE  IInv'
<1>1. \A j \in Jobs : WorkSound(j)'
  BY DEF IInv, WorkSound
<1>2. CallsNearLimit' /\ UnsettledIsNotRepeated'
  BY DEF IInv, CallsNearLimit, UnsettledIsNotRepeated
<1>3. CallsSound'
  <2>1. \A j \in Jobs : (Refreshing(j)' <=> Refreshing(j)) /\ (At(j, "logs")' <=> At(j, "logs"))
    BY DEF Refreshing, Working, At
  <2>2. \A j \in Jobs : (RoomLeft(j)' <=> RoomLeft(j)) /\ (Counted(job[j].count)' <=> Counted(job[j].count))
    BY DEF RoomLeft, Counted
  <2>3. Counted(log.count)' <=> Counted(log.count)
    BY DEF Counted
  <2> QED BY <2>1, <2>2, <2>3 DEF IInv, CallsSound
<1> QED
  BY <1>1, <1>2, <1>3 DEF IInv

\* A claim runs out.
LEMMA LapseKeeps ==
  ASSUME IInv, NEW x \in Sources \cup Angles, Lapse(x)
  PROVE  IInv'
<1>1. /\ UNCHANGED <<job, revision, banked, angle, rows, log, paid, repeated>> /\ faults' \in Nat
      /\ claim \in [Sources \cup Angles -> [by : Jobs \cup {None}, live : BOOLEAN]] /\ TypeOK
      /\ claim' = [claim EXCEPT ![x].live = FALSE]
  BY DEF IInv, TypeOK, Lapse, Fault
<1>2. /\ claim' \in [Sources \cup Angles -> [by : Jobs \cup {None}, live : BOOLEAN]]
      /\ \A y \in Sources \cup Angles : claim'[y].by = claim[y].by
  BY <1>1
<1>3. TypeOK' /\ InProgressIsClaimed'
  BY <1>1, <1>2 DEF IInv, TypeOK, InProgressIsClaimed
<1>4. OneRowOfAngle' /\ QueuedIsNotDraftable' /\ ReleasesAreAlone' /\ DraftsAreKept'
  BY <1>1 DEF IInv, OneRowOfAngle, QueuedIsNotDraftable, ReleasesAreAlone, Releases, At, DraftsAreKept
<1> QED
  BY <1>1, <1>3, <1>4, JobsStay

\* A person edits a source: what was banked is of another revision.
LEMMA EditKeeps ==
  ASSUME IInv, NEW s \in Sources, Edit(s)
  PROVE  IInv'
<1>1. /\ UNCHANGED <<job, banked, angle, claim, rows, log, paid, repeated, faults>> /\ TypeOK
      /\ revision' = [revision EXCEPT ![s] = @ + 1] /\ revision[s] + 1 \in Revisions
  BY DEF IInv, Edit, ghosts
<1>2. TypeOK' /\ InProgressIsClaimed'
  BY <1>1 DEF IInv, TypeOK, InProgressIsClaimed
<1>3. OneRowOfAngle' /\ QueuedIsNotDraftable' /\ ReleasesAreAlone' /\ DraftsAreKept'
  BY <1>1 DEF IInv, OneRowOfAngle, QueuedIsNotDraftable, ReleasesAreAlone, Releases, At, DraftsAreKept
<1> QED
  BY <1>1, <1>2, <1>3, JobsStay

\* A row is published.
LEMMA PublishKeeps ==
  ASSUME IInv, NEW r \in rows, Publish(r)
  PROVE  IInv'
<1>1. PICK new : new = [r EXCEPT !.status = "published"]
  OBVIOUS
<1>2. /\ UNCHANGED <<job, revision, banked, angle, claim, log, paid, repeated, faults>> /\ TypeOK
      /\ r.status = "ready" /\ rows' = (rows \ {r}) \cup {new} /\ r \in Row
  BY <1>1 DEF IInv, TypeOK, Publish, ghosts
<1>3. new \in Row /\ new.angle = r.angle /\ new.slot = r.slot /\ new.status = "published"
  BY <1>1, <1>2 DEF Row
<1>4. TypeOK' /\ InProgressIsClaimed'
  BY <1>2, <1>3 DEF IInv, TypeOK, InProgressIsClaimed
<1>5. OneRowOfAngle' /\ QueuedIsNotDraftable'
  BY <1>2, <1>3 DEF IInv, OneRowOfAngle, QueuedIsNotDraftable
<1>6. ReleasesAreAlone'
  BY <1>2, <1>3 DEF IInv, ReleasesAreAlone, Releases, At
<1>7. DraftsAreKept'
  BY <1>2, <1>3 DEF IInv, DraftsAreKept
<1> QED
  BY <1>2, <1>4, <1>5, <1>6, <1>7, JobsStay

\* At midnight nothing is paid yet, and every count is more than enough.
LEMMA NewDayKeeps ==
  ASSUME IInv, NewDay
  PROVE  IInv'
<1>1. /\ UNCHANGED <<job, revision, banked, angle, claim, rows, repeated>> /\ TypeOK
      /\ log' = [count |-> [t \in Types |-> 0], open |-> {}] /\ faults' \in Nat
      /\ paid' = IF paid = None THEN None ELSE [t \in Types |-> 0]
      /\ job \in [Jobs -> Job]
  BY DEF IInv, TypeOK, NewDay, Fault
<1>2. TypeOK' /\ InProgressIsClaimed' /\ UnsettledIsNotRepeated'
  BY <1>1 DEF IInv, TypeOK, InProgressIsClaimed, UnsettledIsNotRepeated
<1>3. OneRowOfAngle' /\ QueuedIsNotDraftable' /\ ReleasesAreAlone' /\ DraftsAreKept'
  BY <1>1 DEF IInv, OneRowOfAngle, QueuedIsNotDraftable, ReleasesAreAlone, Releases, At, DraftsAreKept
<1>4. \A j \in Jobs : WorkSound(j)'
  BY <1>1 DEF IInv, WorkSound
<1>5. ASSUME paid' # None
      PROVE  /\ \A t \in Types : paid'[t] = 0 /\ paid[t] \in Nat /\ Limit[t] \in Nat /\ Most[t] \in Nat
             /\ paid # None /\ "text" \in Types /\ "image" \in Types
  BY <1>1, <1>5, LimitsType DEF TypeOK
<1>6. CallsNearLimit'
  BY <1>5 DEF CallsNearLimit
<1>7. CallsSound'
  <2> SUFFICES ASSUME paid' # None
               PROVE  /\ \A i, j \in Jobs : Refreshing(i)' /\ Refreshing(j)' => i = j
                      /\ Counted(log.count)'
                      /\ \A j \in Jobs : Refreshing(j)' => (At(j, "logs")' \/ Counted(job[j].count)') /\ RoomLeft(j)'
    BY DEF CallsSound
  <2>1. \A j \in Jobs : (Refreshing(j)' <=> Refreshing(j)) /\ (At(j, "logs")' <=> At(j, "logs"))
    BY <1>1 DEF Refreshing, Working, At
  <2>2. Counted(log.count)'
    BY <1>1, <1>5 DEF Counted
  <2>3. ASSUME NEW j \in Jobs, Refreshing(j)
        PROVE  (At(j, "logs")' \/ Counted(job[j].count)') /\ RoomLeft(j)'
    <3>1. job[j] \in Job /\ job' = job
      BY <1>1
    <3>2. \A t \in Types : job[j].count[t] \in Nat
      BY <3>1 DEF Job
    <3>3. Counted(job[j].count)'
      BY <1>5, <3>1, <3>2 DEF Counted
    <3>4. RoomLeft(j) /\ TextsBefore[job[j].stage] \in Nat
      BY <1>5, <2>3, <3>1 DEF IInv, CallsSound, Job, Stages, TextsBefore
    <3>5. paid'["text"] <= paid["text"] /\ paid'["image"] <= paid["image"]
      BY <1>5
    <3>6. RoomLeft(j)'
      BY <1>5, <3>1, <3>4, <3>5 DEF RoomLeft
    <3> QED BY <3>3, <3>6
  <2> QED BY <1>5, <2>1, <2>2, <2>3 DEF IInv, CallsSound
<1> QED
  BY <1>2, <1>3, <1>4, <1>6, <1>7 DEF IInv

\* The pipeline starts sound.
LEMMA InitIsSound ==
  ASSUME Init
  PROVE  IInv
<1>1. /\ job = [j \in Jobs |-> NoJob] /\ rows = {} /\ \A j \in Jobs : job[j] = NoJob
      /\ \A j \in Jobs : job[j].pc = "new" /\ job[j].kind = "refresh" /\ job[j].drop = {} /\ job[j].keys = {}
  BY NewJob DEF Init
<1>2. TypeOK
  <2>1. banked \in [Sources -> SUBSET Revisions]
    BY PipelineAssumption DEF Init
  <2>2. revision \in [Sources -> Revisions]
    BY PipelineAssumption DEF Init
  <2>3. claim \in [Sources \cup Angles -> [by : Jobs \cup {None}, live : BOOLEAN]]
    BY DEF Init, Free
  <2>4. job \in [Jobs -> Job]
    BY <1>1, NewJob
  <2>5. [t \in Types |-> 0] \in [Types -> Nat]
    OBVIOUS
  <2>6. angle \in [Angles -> {"none", "unused", "in_progress", "drafted", "exhausted", "rejected"}]
    BY DEF Init
  <2>7. log \in [count : [Types -> Nat], open : SUBSET Call] /\ paid \in [Types -> Nat] \cup {None}
    BY <2>5 DEF Init
  <2> QED BY <1>1, <2>1, <2>2, <2>3, <2>4, <2>6, <2>7 DEF Init, TypeOK
<1>3. OneRowOfAngle /\ QueuedIsNotDraftable
  BY <1>1 DEF OneRowOfAngle, QueuedIsNotDraftable
<1>4. ReleasesAreAlone
  BY <1>1 DEF ReleasesAreAlone, Releases, At
<1>5. \A a \in Angles : angle[a] \in {"none", "unused"}
  BY DEF Init
<1>6. InProgressIsClaimed /\ DraftsAreKept
  BY <1>5 DEF InProgressIsClaimed, DraftsAreKept
<1>7. CallsNearLimit /\ UnsettledIsNotRepeated
  <2>1. \A t \in Types : paid[t] = 0 /\ 0 <= Most[t]
    BY LimitsType DEF Init
  <2> QED BY <2>1 DEF Init, CallsNearLimit, UnsettledIsNotRepeated
<1>8. CallsSound
  <2>1. \A j \in Jobs : ~Refreshing(j)
    BY <1>1 DEF Refreshing, Working
  <2>2. Counted(log.count)
    BY LimitsType DEF Init, Counted
  <2> QED BY <2>1, <2>2 DEF CallsSound
<1>9. \A j \in Jobs : WorkSound(j)
  BY <1>1 DEF WorkSound
<1> QED
  BY <1>2, <1>3, <1>4, <1>6, <1>7, <1>8, <1>9 DEF IInv

----------------------------------------------------------------------------
(* The theorems *)

\* The inductive invariant holds, whatever the jobs do and whatever goes wrong.
THEOREM PipelineInvariance == Spec => []IInv
<1>1. Init => IInv
  BY InitIsSound
<1>2. IInv /\ [Next]_vars => IInv'
  <2> SUFFICES ASSUME IInv, [Next]_vars
               PROVE  IInv'
    OBVIOUS
  <2>1. ASSUME NEW j \in Jobs, Step(j) \/ Crash(j)
        PROVE  IInv'
    BY <2>1, ReadLogsKeeps, LoadAnglesKeeps, NextAngleKeeps, AnglesEndKeeps, ClaimAngleKeeps, StartKeeps,
       ReplyKeeps, ReleaseClaimKeeps, CommitKeeps, ExhaustKeeps, LoadSourcesKeeps, ClaimSourceKeeps,
       SourcesEndKeeps, GuardSourceKeeps, BankKeeps, DropAngleKeeps, CrashKeeps DEF Step
  <2>2. ASSUME NEW j \in Jobs, NEW option \in Options, Begin(j, option)
        PROVE  IInv'
    BY <2>2, BeginKeeps
  <2>3. ASSUME NEW j \in Jobs, NEW kind \in {"release", "skip"}, NEW targets \in SUBSET rows,
               DropRows(j, kind, targets)
        PROVE  IInv'
    BY <2>3, DropRowsKeeps
  <2>4. ASSUME NEW x \in Sources \cup Angles, Lapse(x)
        PROVE  IInv'
    BY <2>4, LapseKeeps
  <2>5. ASSUME NEW s \in Sources, Edit(s)
        PROVE  IInv'
    BY <2>5, EditKeeps
  <2>6. ASSUME NEW r \in rows, Publish(r)
        PROVE  IInv'
    BY <2>6, PublishKeeps
  <2>7. CASE NewDay
    BY <2>7, NewDayKeeps
  <2>8. CASE UNCHANGED vars
    <3>1. UNCHANGED <<job, revision, banked, angle, claim, rows, log, paid, repeated, faults>>
      BY <2>8 DEF vars
    <3>2. TypeOK' /\ InProgressIsClaimed'
      BY <3>1 DEF IInv, TypeOK, InProgressIsClaimed
    <3>3. OneRowOfAngle' /\ QueuedIsNotDraftable' /\ ReleasesAreAlone' /\ DraftsAreKept'
      BY <3>1 DEF IInv, OneRowOfAngle, QueuedIsNotDraftable, ReleasesAreAlone, Releases, At, DraftsAreKept
    <3> QED BY <3>1, <3>2, <3>3, JobsStay
  <2> QED BY <2>1, <2>2, <2>3, <2>4, <2>5, <2>6, <2>7, <2>8 DEF Next
<1> QED
  BY <1>1, <1>2, PTL DEF Spec

\* Whatever jobs overlap, are cut off or lose their claims, what has a row is not drafted
\* again, and no two rows to be posted share an angle or a slot.
THEOREM QueueStaysSound == Spec => []QueuedIsNotDraftable
<1>1. IInv => QueuedIsNotDraftable
  BY DEF IInv
<1> QED
  BY <1>1, PipelineInvariance, PTL

\* A draft is never lost but between the two steps of its own release or skip.
THEOREM DraftsStayKept == Spec => []DraftsAreKept
<1>1. IInv => DraftsAreKept
  BY DEF IInv
<1> QED
  BY <1>1, PipelineInvariance, PTL

\* No crash, lost reply or failed commit leaves an angle in progress that nobody claims.
THEOREM InProgressStaysClaimed == Spec => []InProgressIsClaimed
<1>1. IInv => InProgressIsClaimed
  BY DEF IInv
<1> QED
  BY <1>1, PipelineInvariance, PTL

\* The calls of a day pass the limits by those of one draft at most.
THEOREM CallsStayNearLimit == Spec => []CallsNearLimit
<1>1. IInv => CallsNearLimit
  BY DEF IInv
<1> QED
  BY <1>1, PipelineInvariance, PTL

\* A call that a job saw unsettled is not made again by that job.
THEOREM UnsettledStaysUnrepeated == Spec => []UnsettledIsNotRepeated
<1>1. IInv => UnsettledIsNotRepeated
  BY DEF IInv
<1> QED
  BY <1>1, PipelineInvariance, PTL

=============================================================================
