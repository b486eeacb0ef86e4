---------------------------- MODULE LocalRuntime ----------------------------
(***************************************************************************)
(* The local runtime: src/automation-service.ts, src/content-engine.ts,    *)
(* src/publish.ts, and agent.ts, cli.ts and server.ts, which start its     *)
(* runs.  A run takes the automation lock, works from await to await over  *)
(* LocalStore, and releases the lock; the process of a run may end         *)
(* anywhere.  Texts are reduced to whether a platform has one; settings,    *)
(* credentials and X's draft-only mode to the choices they may leave open.  *)
(***************************************************************************)
EXTENDS LocalStore

CONSTANTS
    Runs,            \* runs at the same time, of cron, API or command line
    Owner,           \* the owner string of each run; cron runs share one
    LapsesWhileHeld  \* a run may take longer than the lock's ten minutes

ASSUME RuntimeAssumption ==
    /\ None \notin {Owner[r] : r \in Runs} \cup Item /\ LapsesWhileHeld \in BOOLEAN

VARIABLES
    run,      \* what each run does, and its locals
    told,     \* the posts that the store has recorded, of items not released
    again,    \* posts that were made although they had been recorded
    late,     \* some run has outlived its lock
    crashed   \* some run was cut off

vars == <<store, run, told, again, late, crashed>>
ghosts == <<told, again, late, crashed>>

----------------------------------------------------------------------------
(* Runs *)

Kind == {"fetch", "post", "release", "update"}
Idle == [pc |-> "idle", kind |-> "fetch", todo |-> {}, slot |-> 1, item |-> None, angle |-> None,
         reserved |-> {}, from |-> "bank", step |-> 1, active |-> {}]
Inside(r) == run[r].pc # "idle"
At(r, pc) == run[r].pc = pc
Goto(r, pc) == run' = [run EXCEPT ![r].pc = pc]
Become(r, next) == run' = [run EXCEPT ![r] = next]
End(r) == Become(r, [Idle EXCEPT !.pc = "done"])
PostsOf(item) == {<<item.angle, p>> : p \in item.ids}

\* acquireAutomationLock, after the expired locks were deleted.
Acquire(r) == lock = None /\ lock' = Owner[r]

\* releaseAutomationLock: by owner, not by run.
ReleaseLock(r) == lock' = IF lock = Owner[r] THEN None ELSE lock

\* runFetch, runPostSlot, runPostAll, runReleaseSlot, runUpdateSlot, when
\* getAutomationGate allows it.
Start(r, kind, targets) ==
    /\ ~Inside(r)
    /\ kind = "fetch" => targets = Slots
    /\ kind \in {"release", "update"} => Cardinality(targets) = 1
    /\ Acquire(r)
    /\ \E x \in First(targets) :
          Become(r, [Idle EXCEPT !.pc = IF kind \in {"fetch", "post"} THEN "look" ELSE kind,
                                 !.kind = kind, !.todo = targets, !.slot = x])
    /\ UNCHANGED <<angle, source, used, slot, history, ghosts>>

Finish(r) ==
    /\ At(r, "done")
    /\ ReleaseLock(r) /\ Become(r, Idle)
    /\ UNCHANGED <<angle, source, used, slot, history, ghosts>>

----------------------------------------------------------------------------
(* Filled slots: hydrateMissingDraftPlatforms, before refilling or posting *)

\* With what is switched on, some platform may want a text the item lacks.
MayNeedDrafts(item) == item.drafted # Platforms /\ source[SourceOf(item.angle)].summary

Publishing(r, x, item) == [run[r] EXCEPT !.pc = "publish", !.slot = x, !.item = item]
SlotDone(r, x) ==
    Become(r, [Idle EXCEPT !.pc = "look", !.kind = run[r].kind, !.todo = run[r].todo \ {x}])

Look(r) ==
    /\ At(r, "look")
    /\ \E x \in First(run[r].todo) :
          LET item == slot[x] IN
          \/ (item = None \/ run[r].kind = "fetch") /\ SlotDone(r, x)
          \/ item # None /\ run[r].kind = "post" /\ Become(r, Publishing(r, x, item))
          \/ /\ item # None /\ MayNeedDrafts(item)
             /\ Become(r, [run[r] EXCEPT !.pc = "hydrate", !.slot = x, !.item = item])
    /\ UNCHANGED <<store, ghosts>>

\* The drafts are here and merged into the item that was read, or they fail.
Hydrate(r) ==
    LET x == run[r].slot
        Merged(texts) == [run[r].item EXCEPT !.drafted = run[r].item.drafted \cup texts]
    IN  /\ At(r, "hydrate")
        /\ \/ \E texts \in SUBSET Platforms :
                 /\ SetSlot(x, Merged(texts))
                 /\ IF run[r].kind = "post" THEN Become(r, Publishing(r, x, Merged(texts)))
                    ELSE SlotDone(r, x)
           \/ /\ UNCHANGED slot
              /\ IF run[r].kind = "post" THEN End(r) ELSE SlotDone(r, x)
        /\ UNCHANGED <<angle, source, used, history, lock, ghosts>>

\* Slip: the sources in the slots are not kept from being drafted again.
ReserveNothing(r) ==
    /\ At(r, "look") /\ run[r].todo = {}
    /\ IF run[r].kind = "post" THEN End(r)
       ELSE Become(r, [Idle EXCEPT !.pc = "bank", !.reserved = {}])
    /\ UNCHANGED <<store, ghosts>>

\* All slots were looked at; getReservedSourceIds.
Reserve(r) ==
    /\ At(r, "look") /\ run[r].todo = {}
    /\ IF run[r].kind = "post" THEN End(r)
       ELSE Become(r, [Idle EXCEPT !.pc = "bank", !.reserved = SlotSources])
    /\ UNCHANGED <<store, ghosts>>

----------------------------------------------------------------------------
(* fillEmptySlots *)

Draft(r, a, from) ==
    \E x \in First(OpenSlots) :
        Become(r, [run[r] EXCEPT !.pc = "draft", !.slot = x, !.angle = a, !.from = from])

\* An open slot and a ready angle of the bank; one without a summary is discarded.
Bank(r) ==
    LET ready == ReadyAngles(run[r].reserved) IN
    /\ At(r, "bank")
    /\ \/ /\ OpenSlots # {}
          /\ \E a \in ready :
                \/ source[SourceOf(a)].summary /\ Draft(r, a, "bank") /\ UNCHANGED <<angle, source, used>>
                \/ ~source[SourceOf(a)].summary /\ MarkAngle(a, "discarded") /\ UNCHANGED run
       \/ /\ OpenSlots = {} \/ ready = {}
          /\ IF OpenSlots = {} THEN End(r) ELSE Goto(r, "fetch")
          /\ UNCHANGED <<angle, source, used>>
    /\ UNCHANGED <<slot, history, lock, ghosts>>

\* reddit.fetchPosts returns some posts, or fails the run.
Fetched(r) ==
    /\ At(r, "fetch")
    /\ \/ \E posts \in SUBSET Sources : Become(r, [run[r] EXCEPT !.pc = "posts", !.todo = posts])
       \/ End(r)
    /\ UNCHANGED <<store, ghosts>>

Pass(r, s) ==
    Become(r, [run[r] EXCEPT !.pc = "posts", !.todo = run[r].todo \ {s}, !.angle = None, !.slot = 1])

\* One post of the listing, with the content it has now.
Post(r) ==
    /\ At(r, "posts")
    /\ \/ /\ OpenSlots = {} \/ run[r].todo = {}
          /\ End(r)
       \/ /\ OpenSlots # {}
          /\ \E s \in run[r].todo, h \in Hashes :
                LET ready == ReadyOf(angle, s, h)
                    skipped == s \in run[r].reserved \/ IsExhausted(s, h)
                IN  \/ skipped /\ Pass(r, s)
                    \/ /\ ~skipped /\ source[s].summary
                       /\ \E a \in ready : Draft(r, a, "posts")
                    \/ /\ ~skipped /\ (ready = {} \/ ~source[s].summary)
                       /\ IF source[s].hash = h /\ HasActive(angle, s) THEN Pass(r, s)
                          ELSE Become(r, [run[r] EXCEPT !.pc = "extract", !.angle = <<s, h>>])
    /\ UNCHANGED <<store, ghosts>>

\* extractSourceBank has found some angles or none, or has failed.
Extract(r) ==
    LET s == run[r].angle[1]
        h == run[r].angle[2]
    IN  /\ At(r, "extract")
        /\ \/ Pass(r, s) /\ UNCHANGED <<angle, source, used>>
           \/ \E fresh \in SUBSET {a \in Angles : SourceOf(a) = s /\ HashOf(a) = h} :
                 /\ BankExtraction(s, h, fresh)
                 /\ \/ ReadyOf(angle', s, h) = {} /\ Pass(r, s)
                    \/ \E a \in ReadyOf(angle', s, h) : Draft(r, a, "posts")
        /\ UNCHANGED <<slot, history, lock, ghosts>>

\* queueAngleIntoSlot: the draft is here and the angle marked, or it has failed:
\* the bank is left then, a post is passed over.
Drafted(r) ==
    LET a == run[r].angle IN
    /\ At(r, "draft")
    /\ \/ MarkAngle(a, "queued") /\ Goto(r, "place")
       \/ /\ IF run[r].from = "posts" THEN Pass(r, SourceOf(a))
             ELSE Become(r, [run[r] EXCEPT !.pc = "fetch", !.angle = None, !.slot = 1])
          /\ UNCHANGED <<angle, source, used>>
    /\ UNCHANGED <<slot, history, lock, ghosts>>

Place(r) ==
    LET a == run[r].angle IN
    /\ At(r, "place")
    /\ \E texts \in SUBSET Platforms :
          SetSlot(run[r].slot, [angle |-> a, drafted |-> texts, ids |-> {}])
    /\ Become(r, [run[r] EXCEPT !.pc = run[r].from, !.reserved = run[r].reserved \cup {SourceOf(a)},
                                !.todo = run[r].todo \ {SourceOf(a)}, !.angle = None, !.slot = 1])
    /\ UNCHANGED <<angle, source, used, history, lock, ghosts>>

----------------------------------------------------------------------------
(* publishQueuedItem and finalizePublishResult *)

\* One platform: passed over, being switched off, without credentials, or X in
\* draft-only mode or put into it by this attempt; or already posted, posted
\* now, or failed with or without a post.
Publish(r) ==
    LET p == PlatformSteps[run[r].step]
        item == run[r].item
        next == [run[r] EXCEPT !.step = run[r].step + 1]
        attempted == [next EXCEPT !.active = run[r].active \cup {p}]
        made == again' = again \cup ({<<item.angle, p>>} \cap told)
    IN  /\ At(r, "publish") /\ run[r].step <= Len(PlatformSteps)
        /\ \/ Become(r, next) /\ UNCHANGED again
           \/ /\ p \in item.drafted
              /\ \/ Become(r, attempted) /\ UNCHANGED again
                 \/ /\ p \notin item.ids /\ made
                    /\ \/ Become(r, [attempted EXCEPT !.item = [item EXCEPT !.ids = item.ids \cup {p}]])
                       \/ Become(r, attempted)
        /\ UNCHANGED <<store, told, late, crashed>>

\* Slip: the item that was read is written back, without the new ids.
SettleForgetting(r) ==
    LET x == run[r].slot  item == run[r].item
        completed == run[r].active # {} /\ run[r].active \subseteq item.ids
    IN  /\ At(r, "publish") /\ run[r].step > Len(PlatformSteps)
        /\ \/ completed /\ MarkAngle(item.angle, "published") /\ Goto(r, "clear") /\ UNCHANGED <<slot, told>>
           \/ /\ ~completed /\ UNCHANGED <<slot, angle, source, used>>
              /\ told' = told \cup PostsOf(item)
              /\ SlotDone(r, x)
        /\ UNCHANGED <<history, lock, again, late, crashed>>

Settle(r) ==
    LET x == run[r].slot  item == run[r].item
        completed == run[r].active # {} /\ run[r].active \subseteq item.ids
    IN  /\ At(r, "publish") /\ run[r].step > Len(PlatformSteps)
        /\ \/ completed /\ MarkAngle(item.angle, "published") /\ Goto(r, "clear") /\ UNCHANGED <<slot, told>>
           \/ /\ ~completed /\ SetSlot(x, item) /\ UNCHANGED <<angle, source, used>>
              /\ told' = told \cup PostsOf(item)
              /\ SlotDone(r, x)
        /\ UNCHANGED <<history, lock, again, late, crashed>>

Clear(r) ==
    /\ At(r, "clear") /\ SetSlot(run[r].slot, None) /\ Goto(r, "log")
    /\ UNCHANGED <<angle, source, used, history, lock, ghosts>>

LogHistory(r) ==
    /\ At(r, "log")
    /\ history' = history \cup {run[r].item.angle}
    /\ told' = told \cup PostsOf(run[r].item)
    /\ SlotDone(r, run[r].slot)
    /\ UNCHANGED <<angle, source, used, slot, lock, again, late, crashed>>

----------------------------------------------------------------------------
(* runReleaseSlot and runUpdateSlot *)

\* Slip: the angle keeps its status.
ReleaseSilently(r) ==
    /\ At(r, "release") /\ IF slot[run[r].slot] = None THEN End(r) ELSE Goto(r, "drop")
    /\ UNCHANGED <<store, ghosts>>

Release(r) ==
    LET item == slot[run[r].slot] IN
    /\ At(r, "release")
    /\ \/ item = None /\ End(r) /\ UNCHANGED <<angle, source, used>>
       \/ /\ item # None /\ Goto(r, "drop")
          /\ \/ angle[item.angle] = "queued" /\ MarkAngle(item.angle, "ready")
             \/ angle[item.angle] # "queued" /\ UNCHANGED <<angle, source, used>>
    /\ UNCHANGED <<slot, history, lock, ghosts>>

\* The ids of the released item go with it: its angle may be drafted and posted
\* to every platform afresh.
Drop(r) ==
    LET x == run[r].slot IN
    /\ At(r, "drop") /\ SetSlot(x, None) /\ End(r)
    /\ told' = told \ {t \in told : slot[x] # None /\ t[1] = slot[x].angle}
    /\ UNCHANGED <<angle, source, used, history, lock, again, late, crashed>>

\* The owner's texts replace those of the item; some may be empty.
Update(r) ==
    LET x == run[r].slot IN
    /\ At(r, "update") /\ End(r)
    /\ \/ slot[x] = None /\ UNCHANGED slot
       \/ slot[x] # None /\ \E texts \in SUBSET Platforms : SetSlot(x, [slot[x] EXCEPT !.drafted = texts])
    /\ UNCHANGED <<angle, source, used, history, lock, ghosts>>

----------------------------------------------------------------------------
(* The rest of the world *)

Crash(r) ==
    /\ Inside(r) /\ Become(r, Idle) /\ crashed' = TRUE
    /\ UNCHANGED <<store, told, again, late>>

\* Ten minutes have passed since the lock was taken.
Expire ==
    /\ lock # None
    /\ LapsesWhileHeld \/ \A r \in Runs : Inside(r) => Owner[r] # lock
    /\ lock' = None /\ late' = (late \/ \E r \in Runs : Inside(r))
    /\ UNCHANGED <<angle, source, used, slot, history, run, told, again, crashed>>

Init ==
    /\ StoreInit /\ run = [r \in Runs |-> Idle]
    /\ told = {} /\ again = {} /\ late = FALSE /\ crashed = FALSE

Works(r) ==
    \/ Finish(r) \/ Look(r) \/ Hydrate(r) \/ Reserve(r) \/ Bank(r) \/ Fetched(r) \/ Post(r)
    \/ Extract(r) \/ Drafted(r) \/ Place(r) \/ Publish(r) \/ Settle(r) \/ Clear(r)
    \/ LogHistory(r) \/ Release(r) \/ Drop(r) \/ Update(r)

Next ==
    \/ \E r \in Runs : Works(r) \/ Crash(r)
    \/ \E r \in Runs, kind \in Kind, targets \in {Slots} \cup {{x} : x \in Slots} : Start(r, kind, targets)
    \/ Expire

Spec == Init /\ [][Next]_vars

----------------------------------------------------------------------------
(* Properties *)

Pc == {"idle", "done", "look", "hydrate", "bank", "fetch", "posts", "extract", "draft", "place",
       "publish", "clear", "log", "release", "drop", "update"}
Run == [pc : Pc, kind : Kind, todo : (SUBSET Slots) \cup (SUBSET Sources), slot : Slots,
        item : Item \cup {None}, angle : Angles \cup (Sources \X Hashes) \cup {None},
        reserved : SUBSET Sources, from : {"bank", "posts"}, step : 1..Len(PlatformSteps) + 1,
        active : SUBSET Platforms]

TypeOK ==
    /\ StoreTypeOK /\ lock \in {Owner[r] : r \in Runs} \cup {None}
    /\ run \in [Runs -> Run]
    /\ told \in SUBSET (Angles \X Platforms) /\ again \in SUBSET (Angles \X Platforms)
    /\ late \in BOOLEAN /\ crashed \in BOOLEAN

\* A source that is marked exhausted has no angle left of the revision it was
\* marked for, and its id is used: nothing drafted or ready is hidden behind it.
ExhaustedMeansSpent ==
    \A s \in Sources : source[s].status = "exhausted" =>
        /\ s \in used
        /\ \A a \in Angles : SourceOf(a) = s /\ HashOf(a) = source[s].hash => ~IsActive(angle[a])

\* A source that is kept as banked has an angle that is still to be posted.
BankedMeansLeft == \A s \in Sources : source[s].status = "banked" => HasActive(angle, s)

\* Two slots never hold posts of one source, unless a run outlives its lock:
\* whatever crashes between the angle's update and the slot's
\* (content-engine.ts getReservedSourceIds, queueAngleIntoSlot, releaseSlot).
OneSlotPerSource ==
    ~late => \A x, y \in Slots : x # y /\ slot[x] # None /\ slot[y] # None
                => SourceOf(slot[x].angle) # SourceOf(slot[y].angle)

\* Between runs the books agree, unless a run was cut off or outlived its lock:
\* an angle is queued exactly if a slot holds it, and published exactly if the
\* history has it (the transactions of queueAngleIntoSlot, finalizePublishResult
\* and releaseSlot).
Holds(x, a) == slot[x] # None /\ slot[x].angle = a
BooksAgree ==
    ~late /\ ~crashed /\ (\A r \in Runs : ~Inside(r)) =>
        \A a \in Angles :
            /\ angle[a] = "queued" <=> \E x \in Slots : Holds(x, a)
            /\ angle[a] = "published" <=> a \in history

\* A post that was recorded, in its slot or in the history, is not made again
\* unless the owner releases the slot (publish.ts publishQueuedItem,
\* content-engine.ts finalizePublishResult).
RecordedIsNotRepeated == ~late => again = {}

----------------------------------------------------------------------------
(* The inductive invariant behind them *)

\* What a run has in hand at each point.
RunSound(r) ==
    LET s == run[r]
    IN  /\ s.pc \in {"look", "hydrate", "publish", "clear", "log"} => s.todo \subseteq Slots
        /\ s.pc \in {"bank", "fetch", "posts", "extract", "draft", "place"} => s.todo \subseteq Sources
        /\ s.pc \in {"hydrate", "publish", "clear", "log"} => s.item \in Item
        /\ s.pc = "extract" => s.angle \in Sources \X Hashes
        /\ s.pc \in {"draft", "place"} => s.angle \in Angles

\* One run at a time, and it has the lock.
Alone ==
    \A r \in Runs : Inside(r) => lock = Owner[r] /\ \A q \in Runs : Inside(q) => q = r

\* What a run that is alone has read is still so.
ReadStands(r) ==
    LET s == run[r]  held == slot[run[r].slot]
    IN  /\ s.pc \in {"bank", "fetch", "posts", "extract", "draft", "place"} => SlotSources \subseteq s.reserved
        /\ s.pc = "extract" => s.angle[1] \notin s.reserved
        /\ s.pc \in {"draft", "place"} => held = None /\ SourceOf(s.angle) \notin s.reserved
        /\ s.pc = "draft" => angle[s.angle] = "ready"
        /\ s.pc = "place" => angle[s.angle] = "queued"
        /\ s.pc = "hydrate" => held = s.item
        /\ s.pc \in {"publish", "clear"} => Holds(s.slot, s.item.angle) /\ held.ids \subseteq s.item.ids
        /\ s.pc \in {"clear", "log"} => angle[s.item.angle] = "published"
        /\ s.pc = "log" => \A x \in Slots : ~Holds(x, s.item.angle)
        /\ s.pc = "drop" => held # None

\* A recorded post is known to the slot that holds its angle, or the angle is done with.
RecordsStand ==
    /\ \A x \in Slots : slot[x] # None => \A p \in Platforms : <<slot[x].angle, p>> \in told => p \in slot[x].ids
    /\ \A t \in told : (\E x \in Slots : Holds(x, t[1])) \/ angle[t[1]] = "published"

\* The books, with what the run under way has entered in one and not in the other.
Placing(a) == \E r \in Runs : At(r, "place") /\ run[r].angle = a
Leaving(x) == \E r \in Runs : run[r].pc \in {"clear", "drop"} /\ run[r].slot = x
Logging(a) == \E r \in Runs : run[r].pc \in {"clear", "log"} /\ run[r].item.angle = a
BooksStand ==
    \A a \in Angles :
        /\ angle[a] = "queued" <=> Placing(a) \/ \E x \in Slots : Holds(x, a) /\ ~Leaving(x)
        /\ angle[a] = "published" <=> Logging(a) \/ a \in history

IInv ==
    /\ TypeOK /\ ExhaustedMeansSpent /\ BankedMeansLeft /\ \A r \in Runs : RunSound(r)
    /\ OneSlotPerSource /\ RecordedIsNotRepeated
    /\ ~late => Alone /\ RecordsStand /\ \A r \in Runs : ReadStands(r)
    /\ ~late /\ ~crashed => BooksStand
=============================================================================
