-------------------------- MODULE LocalRuntimeProofs --------------------------
(***************************************************************************)
(* Safety of the local runtime, for any slots, sources, angles, platforms  *)
(* and runs.  Every transaction of the store leaves sources and angles in  *)
(* step.  As long as no run has outlived its lock the run under way is     *)
(* alone, so what it has read still stands when it writes, across all of   *)
(* its awaits; and what it has entered in one book and not yet in the      *)
(* other is what it has in hand.                                           *)
(***************************************************************************)
EXTENDS LocalRuntime, TLAPS

----------------------------------------------------------------------------
(* The transactions of the store *)

\* The parts of an angle's name.
LEMMA AngleParts ==
  ASSUME NEW a \in Angles
  PROVE  SourceOf(a) \in Sources /\ HashOf(a) \in Hashes
BY StoreAssumption DEF SourceOf, HashOf

\* An angle changes its status, and its source with it.
LEMMA MarkAngleKeeps ==
  ASSUME StoreTypeOK, ExhaustedMeansSpent, BankedMeansLeft,
         NEW a \in Angles, NEW status \in {"ready", "queued", "published", "discarded"}, MarkAngle(a, status)
  PROVE  /\ angle' \in [Angles -> {"none", "ready", "queued", "published", "discarded"}]
         /\ source' \in [Sources -> Source] /\ used' \in SUBSET Sources
         /\ angle'[a] = status /\ \A b \in Angles \ {a} : angle'[b] = angle[b]
         /\ ExhaustedMeansSpent' /\ BankedMeansLeft'
<1>1. PICK s : s = SourceOf(a)
  OBVIOUS
<1>2. PICK st : st = StatusFor(HasActive(angle', s))
  OBVIOUS
<1>3. /\ angle \in [Angles -> {"none", "ready", "queued", "published", "discarded"}]
      /\ source \in [Sources -> Source] /\ used \in SUBSET Sources /\ s \in Sources
      /\ \A b \in Angles : SourceOf(b) \in Sources
  BY <1>1, AngleParts DEF StoreTypeOK
<1>4. /\ angle' = [angle EXCEPT ![a] = status] /\ source' = [source EXCEPT ![s].status = st]
      /\ used' = used \cup {q \in DOMAIN source' : source'[q].status = "exhausted"}
  BY <1>1, <1>2 DEF MarkAngle, MarkUsed
<1>5. st \in {"banked", "exhausted"} /\ (st = "exhausted" <=> ~HasActive(angle', s))
  BY <1>2 DEF StatusFor
<1>6. /\ angle' \in [Angles -> {"none", "ready", "queued", "published", "discarded"}]
      /\ angle'[a] = status /\ \A b \in Angles \ {a} : angle'[b] = angle[b]
  BY <1>3, <1>4
<1>7. /\ source' \in [Sources -> Source] /\ source'[s].status = st /\ source'[s].hash = source[s].hash
      /\ \A q \in Sources \ {s} : source'[q] = source[q]
  BY <1>3, <1>4, <1>5 DEF Source
<1>8. used' \in SUBSET Sources /\ \A q \in Sources : source'[q].status = "exhausted" => q \in used'
  BY <1>3, <1>4, <1>7
<1>9. ExhaustedMeansSpent'
  <2> SUFFICES ASSUME NEW q \in Sources, source'[q].status = "exhausted", NEW b \in Angles,
                      SourceOf(b) = q, HashOf(b) = source'[q].hash
               PROVE  ~IsActive(angle'[b])
    BY <1>8 DEF ExhaustedMeansSpent
  <2>1. CASE q = s
    BY <1>5, <1>7, <2>1 DEF HasActive
  <2>2. CASE q # s
    <3>1. source[q].status = "exhausted" /\ HashOf(b) = source[q].hash /\ b # a
      BY <1>1, <1>7, <2>2
    <3> QED BY <1>6, <3>1 DEF ExhaustedMeansSpent
  <2> QED BY <2>1, <2>2
<1>10. BankedMeansLeft'
  <2> SUFFICES ASSUME NEW q \in Sources, source'[q].status = "banked"
               PROVE  HasActive(angle', q)
    BY DEF BankedMeansLeft, HasActive
  <2>1. CASE q = s
    BY <1>5, <1>7, <2>1
  <2>2. CASE q # s
    <3>1. PICK b \in Angles : SourceOf(b) = q /\ IsActive(angle[b])
      BY <1>7, <2>2 DEF BankedMeansLeft, HasActive
    <3>2. b # a
      BY <1>1, <2>2, <3>1
    <3> QED BY <1>6, <3>1, <3>2 DEF HasActive
  <2> QED BY <2>1, <2>2
<1> QED
  BY <1>6, <1>7, <1>8, <1>9, <1>10

\* Angles are extracted; those that are known stay what they are.
LEMMA BankExtractionKeeps ==
  ASSUME StoreTypeOK, ExhaustedMeansSpent, BankedMeansLeft, NEW s \in Sources, NEW h \in Hashes,
         NEW fresh \in SUBSET {a \in Angles : SourceOf(a) = s /\ HashOf(a) = h}, BankExtraction(s, h, fresh)
  PROVE  /\ angle' \in [Angles -> {"none", "ready", "queued", "published", "discarded"}]
         /\ source' \in [Sources -> Source] /\ used' \in SUBSET Sources
         /\ \A a \in Angles : angle'[a] = angle[a] \/ (angle[a] = "none" /\ angle'[a] = "ready")
         /\ ExhaustedMeansSpent' /\ BankedMeansLeft'
<1>1. PICK known : known = {a \in Angles : SourceOf(a) = s /\ HashOf(a) = h /\ angle[a] # "none"}
  OBVIOUS
<1>2. PICK active : active = StatusFor(\E a \in known \cup fresh : HashOf(a) = h /\ IsActive(angle'[a]))
  OBVIOUS
<1>3. /\ angle' = [a \in Angles |-> IF known = {} /\ a \in fresh THEN "ready" ELSE angle[a]]
      /\ source' = [source EXCEPT ![s] = [status |-> active, hash |-> h, summary |-> TRUE]]
      /\ used' = used \cup {q \in DOMAIN source' : source'[q].status = "exhausted"}
  BY <1>1, <1>2 DEF BankExtraction, MarkUsed
<1>4. /\ angle \in [Angles -> {"none", "ready", "queued", "published", "discarded"}]
      /\ source \in [Sources -> Source] /\ used \in SUBSET Sources
  BY DEF StoreTypeOK
<1>5. /\ active \in {"banked", "exhausted"}
      /\ active = "exhausted" <=> ~\E a \in known \cup fresh : HashOf(a) = h /\ IsActive(angle'[a])
  BY <1>2 DEF StatusFor
<1>6. \A a \in Angles : angle'[a] = angle[a] \/ (angle[a] = "none" /\ angle'[a] = "ready" /\ a \in fresh)
  BY <1>1, <1>3
<1>7. angle' \in [Angles -> {"none", "ready", "queued", "published", "discarded"}]
  BY <1>3, <1>4
<1>8. /\ source' \in [Sources -> Source] /\ source'[s].status = active /\ source'[s].hash = h
      /\ \A q \in Sources \ {s} : source'[q] = source[q]
  BY <1>3, <1>4, <1>5 DEF Source
<1>9. used' \in SUBSET Sources /\ \A q \in Sources : source'[q].status = "exhausted" => q \in used'
  BY <1>3, <1>4, <1>8
<1>10. ExhaustedMeansSpent'
  <2> SUFFICES ASSUME NEW q \in Sources, source'[q].status = "exhausted", NEW b \in Angles,
                      SourceOf(b) = q, HashOf(b) = source'[q].hash
               PROVE  ~IsActive(angle'[b])
    BY <1>9 DEF ExhaustedMeansSpent
  <2>1. CASE q = s
    <3>1. CASE b \in known \cup fresh
      BY <1>5, <1>8, <2>1, <3>1
    <3>2. CASE b \notin known \cup fresh
      BY <1>1, <1>6, <1>8, <2>1, <3>2 DEF IsActive
    <3> QED BY <3>1, <3>2
  <2>2. CASE q # s
    <3>1. angle'[b] = angle[b] /\ source'[q] = source[q]
      BY <1>6, <1>8, <2>2
    <3> QED BY <3>1 DEF ExhaustedMeansSpent
  <2> QED BY <2>1, <2>2
<1>11. BankedMeansLeft'
  <2> SUFFICES ASSUME NEW q \in Sources, source'[q].status = "banked"
               PROVE  HasActive(angle', q)
    BY DEF BankedMeansLeft, HasActive
  <2>1. CASE q = s
    BY <1>1, <1>5, <1>8, <2>1 DEF HasActive
  <2>2. CASE q # s
    <3>1. PICK b \in Angles : SourceOf(b) = q /\ IsActive(angle[b])
      BY <1>8, <2>2 DEF BankedMeansLeft, HasActive
    <3> QED BY <1>6, <3>1 DEF HasActive, IsActive
  <2> QED BY <2>1, <2>2
<1> QED
  BY <1>6, <1>7, <1>8, <1>9, <1>10, <1>11

----------------------------------------------------------------------------
(* One run moves *)

\* A run starts, goes on or ends; if none has outlived its lock the others are idle.
LEMMA StepKeeps ==
  ASSUME IInv, NEW r \in Runs, NEW n \in Run, run' = [run EXCEPT ![r] = n],
         UNCHANGED <<late, crashed>> \/ (UNCHANGED late /\ crashed' = TRUE),
         lock' \in {Owner[q] : q \in Runs} \cup {None}, StoreTypeOK',
         told' \in SUBSET (Angles \X Platforms), again' \in SUBSET (Angles \X Platforms),
         ExhaustedMeansSpent', BankedMeansLeft', RunSound(r)',
         OneSlotPerSource',
         ~late => /\ again' = {} /\ RecordsStand' /\ ReadStands(r)'
                  /\ \A q \in Runs \ {r} : ~Inside(q)
                  /\ n.pc # "idle" => lock' = Owner[r],
         ~late /\ ~crashed' => BooksStand'
  PROVE  IInv'
<1>1. /\ run \in [Runs -> Run] /\ run'[r] = n /\ \A q \in Runs \ {r} : run'[q] = run[q]
      /\ late' = late /\ crashed' \in BOOLEAN /\ late \in BOOLEAN
  BY DEF IInv, TypeOK
<1>2. TypeOK'
  BY <1>1 DEF TypeOK
<1>3. \A q \in Runs : RunSound(q)'
  <2>1. \A q \in Runs \ {r} : RunSound(q)'
    BY <1>1 DEF IInv, RunSound
  <2> QED BY <2>1
<1>4. ASSUME ~late
      PROVE  Alone' /\ RecordsStand' /\ \A q \in Runs : ReadStands(q)'
  <2>1. \A q \in Runs \ {r} : run'[q].pc = "idle"
    BY <1>1, <1>4 DEF Inside
  <2>2. Alone'
    BY <1>1, <1>4, <2>1 DEF Alone, Inside
  <2>3. \A q \in Runs \ {r} : ReadStands(q)'
    BY <2>1 DEF ReadStands
  <2> QED BY <1>4, <2>2, <2>3
<1>5. RecordedIsNotRepeated'
  BY <1>1 DEF RecordedIsNotRepeated
<1> QED
  BY <1>1, <1>2, <1>3, <1>4, <1>5 DEF IInv

\* A run that goes on has the lock, and is alone with it.
LEMMA InsideKeeps ==
  ASSUME IInv, NEW r \in Runs, Inside(r), NEW n \in Run, run' = [run EXCEPT ![r] = n],
         UNCHANGED <<late, crashed, lock>>, StoreTypeOK',
         told' \in SUBSET (Angles \X Platforms), again' \in SUBSET (Angles \X Platforms),
         ExhaustedMeansSpent', BankedMeansLeft', RunSound(r)', OneSlotPerSource',
         ~late => again' = {} /\ RecordsStand' /\ ReadStands(r)',
         ~late /\ ~crashed => BooksStand'
  PROVE  IInv'
<1>1. lock \in {Owner[q] : q \in Runs} \cup {None}
  BY DEF IInv, TypeOK
<1>2. ~late => lock = Owner[r] /\ \A q \in Runs \ {r} : ~Inside(q)
  BY DEF IInv, Alone
<1> QED
  BY <1>1, <1>2, StepKeeps

\* Which books the run under way leaves out of step.
LEMMA OnlyRun ==
  ASSUME IInv, NEW r \in Runs, Inside(r), ~late
  PROVE  /\ \A a \in Angles : /\ Placing(a) <=> run[r].pc = "place" /\ run[r].angle = a
                              /\ Logging(a) <=> run[r].pc \in {"clear", "log"} /\ run[r].item.angle = a
         /\ \A x \in Slots : Leaving(x) <=> run[r].pc \in {"clear", "drop"} /\ run[r].slot = x
<1>1. \A q \in Runs : run[q].pc # "idle" => q = r
  BY DEF IInv, Alone, Inside
<1> QED
  BY <1>1 DEF Placing, Logging, Leaving, At

\* Until a run is late, the angles and slots in motion are those of the one run.
LEMMA OnlyRunThen ==
  ASSUME IInv, NEW r \in Runs, Inside(r), ~late, NEW n \in Run, run' = [run EXCEPT ![r] = n]
  PROVE  /\ \A a \in Angles : /\ Placing(a)' <=> n.pc = "place" /\ n.angle = a
                              /\ Logging(a)' <=> n.pc \in {"clear", "log"} /\ n.item.angle = a
         /\ \A x \in Slots : Leaving(x)' <=> n.pc \in {"clear", "drop"} /\ n.slot = x
<1>1. \A q \in Runs : run[q].pc # "idle" => q = r
  BY DEF IInv, Alone, Inside
<1>2. run'[r] = n /\ \A q \in Runs \ {r} : run'[q] = run[q]
  BY DEF IInv, TypeOK
<1>3. \A q \in Runs : run'[q].pc # "idle" => q = r
  BY <1>1, <1>2
<1> QED
  BY <1>2, <1>3 DEF Placing, Logging, Leaving, At

\* A step that leaves the store alone.
LEMMA QuietKeeps ==
  ASSUME IInv, NEW r \in Runs, Inside(r), NEW n \in Run, run' = [run EXCEPT ![r] = n],
         UNCHANGED <<angle, source, used, slot, history, lock, told, late, crashed>>,
         again' \in SUBSET (Angles \X Platforms), ~late => again' = {},
         {n.pc, run[r].pc} \cap {"place", "clear", "drop", "log"} = {},
         RunSound(r)', ~late => ReadStands(r)'
  PROVE  IInv'
<1>1. StoreTypeOK' /\ told' \in SUBSET (Angles \X Platforms)
  BY DEF IInv, TypeOK, StoreTypeOK
<1>2. ExhaustedMeansSpent' /\ BankedMeansLeft' /\ OneSlotPerSource'
  BY DEF IInv, ExhaustedMeansSpent, BankedMeansLeft, OneSlotPerSource
<1>3. ~late => RecordsStand'
  BY DEF IInv, RecordsStand, Holds
<1>4. ~late /\ ~crashed => BooksStand'
  <2> SUFFICES ASSUME ~late, ~crashed
               PROVE  BooksStand'
    OBVIOUS
  <2>1. /\ \A a \in Angles : (Placing(a)' <=> Placing(a)) /\ (Logging(a)' <=> Logging(a))
        /\ \A x \in Slots : Leaving(x)' <=> Leaving(x)
    BY OnlyRun, OnlyRunThen
  <2>2. BooksStand
    BY DEF IInv
  <2> QED BY <2>1, <2>2 DEF BooksStand, Holds
<1> QED
  BY <1>1, <1>2, <1>3, <1>4, InsideKeeps

----------------------------------------------------------------------------
(* Where a run goes *)

\* A run that is idle is well typed.
LEMMA IdleRun ==
  /\ Idle \in Run /\ Idle.pc = "idle" /\ Idle.todo = {} /\ Idle.kind = "fetch" /\ Idle.reserved = {}
BY StoreAssumption DEF Idle, Run, Pc, Kind, Slots

\* The run goes on to another point with what it has.
LEMMA GotoMoves ==
  ASSUME IInv, NEW r \in Runs, NEW pc \in Pc, Goto(r, pc)
  PROVE  \E n \in Run :
           /\ run' = [run EXCEPT ![r] = n] /\ run'[r] = n /\ n.pc = pc /\ n.todo = run[r].todo
           /\ n.slot = run[r].slot /\ n.item = run[r].item /\ n.angle = run[r].angle
           /\ n.reserved = run[r].reserved /\ n.from = run[r].from
<1>1. PICK n : n = [run[r] EXCEPT !.pc = pc]
  OBVIOUS
<1>2. run \in [Runs -> Run] /\ run[r] \in Run
  BY DEF IInv, TypeOK
<1>3. /\ n \in Run /\ n.pc = pc /\ n.todo = run[r].todo
      /\ n.slot = run[r].slot /\ n.item = run[r].item /\ n.angle = run[r].angle
      /\ n.reserved = run[r].reserved /\ n.from = run[r].from
  BY <1>1, <1>2 DEF Run
<1>4. run' = [run EXCEPT ![r] = n] /\ run'[r] = n
  BY <1>1, <1>2 DEF Goto
<1> QED
  BY <1>3, <1>4

\* The run is done, or through with one slot; it has nothing in hand then.
LEMMA Leaves ==
  ASSUME IInv, NEW r \in Runs,
         End(r) \/ \E x : SlotDone(r, x) /\ run[r].todo \subseteq Slots
  PROVE  \E n \in Run : /\ run' = [run EXCEPT ![r] = n] /\ n.pc \in {"done", "look"}
                        /\ RunSound(r)' /\ ReadStands(r)'
<1>1. run \in [Runs -> Run] /\ run[r] \in Run /\ run[r].kind \in Kind
  BY DEF IInv, TypeOK, Run
<1>2. CASE End(r)
  <2>1. PICK n : n = [Idle EXCEPT !.pc = "done"]
    OBVIOUS
  <2>2. n \in Run /\ n.pc = "done"
    BY <2>1, IdleRun DEF Run, Pc
  <2>3. run' = [run EXCEPT ![r] = n] /\ run'[r] = n
    BY <1>1, <1>2, <2>1 DEF End, Become
  <2>4. RunSound(r)' /\ ReadStands(r)'
    BY <2>2, <2>3 DEF RunSound, ReadStands
  <2> QED BY <2>2, <2>3, <2>4
<1>3. ASSUME NEW x, SlotDone(r, x), run[r].todo \subseteq Slots
      PROVE  \E n \in Run : /\ run' = [run EXCEPT ![r] = n] /\ n.pc \in {"done", "look"}
                            /\ RunSound(r)' /\ ReadStands(r)'
  <2>1. PICK n : n = [Idle EXCEPT !.pc = "look", !.kind = run[r].kind, !.todo = run[r].todo \ {x}]
    OBVIOUS
  <2>2. run[r].todo \ {x} \in SUBSET Slots
    BY <1>3
  <2>3. n \in Run /\ n.pc = "look" /\ n.todo \subseteq Slots
    BY <1>1, <2>1, <2>2, IdleRun DEF Run, Pc
  <2>4. run' = [run EXCEPT ![r] = n] /\ run'[r] = n
    BY <1>1, <1>3, <2>1 DEF SlotDone, Become
  <2>5. RunSound(r)' /\ ReadStands(r)'
    BY <2>3, <2>4 DEF RunSound, ReadStands
  <2> QED BY <2>3, <2>4, <2>5
<1> QED
  BY <1>2, <1>3

\* A post is passed over; what is reserved stays so.
LEMMA PassMoves ==
  ASSUME IInv, NEW r \in Runs, NEW s, Pass(r, s), run[r].todo \subseteq Sources
  PROVE  \E n \in Run : /\ run' = [run EXCEPT ![r] = n] /\ n.pc = "posts" /\ RunSound(r)'
                        /\ UNCHANGED slot /\ SlotSources \subseteq run[r].reserved => ReadStands(r)'
<1>1. PICK n : n = [run[r] EXCEPT !.pc = "posts", !.todo = run[r].todo \ {s}, !.angle = None, !.slot = 1]
  OBVIOUS
<1>2. run \in [Runs -> Run] /\ run[r] \in Run /\ run[r].todo \ {s} \in SUBSET Sources /\ 1 \in Slots
  BY StoreAssumption DEF IInv, TypeOK, Slots
<1>3. n \in Run /\ n.pc = "posts" /\ n.todo \subseteq Sources /\ n.reserved = run[r].reserved
  BY <1>1, <1>2 DEF Run, Pc
<1>4. run' = [run EXCEPT ![r] = n] /\ run'[r] = n
  BY <1>1, <1>2 DEF Pass, Become
<1>5. RunSound(r)'
  BY <1>3, <1>4 DEF RunSound
<1>6. UNCHANGED slot /\ SlotSources \subseteq run[r].reserved => ReadStands(r)'
  BY <1>3, <1>4 DEF ReadStands, SlotSources
<1> QED
  BY <1>3, <1>4, <1>5, <1>6

\* A draft is asked for, of an angle that is ready for an open slot.
LEMMA DraftMoves ==
  ASSUME IInv, NEW r \in Runs, NEW a \in Angles, NEW from \in {"bank", "posts"}, Draft(r, a, from),
         run[r].todo \subseteq Sources, UNCHANGED slot
  PROVE  \E n \in Run :
           /\ run' = [run EXCEPT ![r] = n] /\ n.pc = "draft" /\ RunSound(r)'
           /\ SlotSources \subseteq run[r].reserved /\ SourceOf(a) \notin run[r].reserved /\ angle'[a] = "ready"
                => ReadStands(r)'
<1>1. PICK x \in First(OpenSlots) :
        Become(r, [run[r] EXCEPT !.pc = "draft", !.slot = x, !.angle = a, !.from = from])
  BY DEF Draft
<1>2. PICK n : n = [run[r] EXCEPT !.pc = "draft", !.slot = x, !.angle = a, !.from = from]
  OBVIOUS
<1>3. run \in [Runs -> Run] /\ run[r] \in Run /\ x \in Slots /\ slot[x] = None
  BY <1>1 DEF IInv, TypeOK, First, OpenSlots
<1>4. /\ n \in Run /\ n.pc = "draft" /\ n.todo \subseteq Sources /\ n.slot = x /\ n.angle = a
      /\ n.reserved = run[r].reserved
  BY <1>2, <1>3 DEF Run, Pc
<1>5. run' = [run EXCEPT ![r] = n] /\ run'[r] = n
  BY <1>1, <1>2, <1>3 DEF Become
<1>6. RunSound(r)'
  BY <1>4, <1>5 DEF RunSound
<1>7. SlotSources \subseteq run[r].reserved /\ SourceOf(a) \notin run[r].reserved /\ angle'[a] = "ready"
        => ReadStands(r)'
  BY <1>3, <1>4, <1>5 DEF ReadStands, SlotSources
<1> QED
  BY <1>4, <1>5, <1>6, <1>7

----------------------------------------------------------------------------
(* A run starts and finishes *)

\* The lock is free; unless some run has outlived it, nobody else is inside.
LEMMA StartKeeps ==
  ASSUME IInv, NEW r \in Runs, NEW kind \in Kind, NEW targets \in {Slots} \cup {{x} : x \in Slots},
         Start(r, kind, targets)
  PROVE  IInv'
<1>1. PICK pc : pc = IF kind \in {"fetch", "post"} THEN "look" ELSE kind
  OBVIOUS
<1>2. PICK x \in First(targets) : Become(r, [Idle EXCEPT !.pc = pc, !.kind = kind, !.todo = targets, !.slot = x])
  BY <1>1 DEF Start
<1>3. PICK n : n = [Idle EXCEPT !.pc = pc, !.kind = kind, !.todo = targets, !.slot = x]
  OBVIOUS
<1>4. /\ run \in [Runs -> Run] /\ lock = None /\ lock' = Owner[r]
      /\ UNCHANGED <<angle, source, used, slot, history, told, again, late, crashed>>
  BY DEF IInv, TypeOK, Start, Acquire, ghosts
<1>5. targets \in SUBSET Slots /\ x \in Slots /\ pc \in {"look", "release", "update"}
  BY <1>1, <1>2 DEF First, Kind
<1>6. n \in Run /\ n.pc = pc /\ n.todo \subseteq Slots
  BY <1>3, <1>5, IdleRun DEF Run, Pc
<1>7. run' = [run EXCEPT ![r] = n] /\ run'[r] = n /\ \A q \in Runs \ {r} : run'[q] = run[q]
  BY <1>2, <1>3, <1>4 DEF Become
<1>8. RunSound(r)' /\ ReadStands(r)'
  BY <1>5, <1>6, <1>7 DEF RunSound, ReadStands
<1>9. ~late => \A q \in Runs : ~Inside(q)
  BY <1>4, RuntimeAssumption DEF IInv, Alone
<1>10. /\ StoreTypeOK' /\ told' \in SUBSET (Angles \X Platforms) /\ again' \in SUBSET (Angles \X Platforms)
       /\ lock' \in {Owner[q] : q \in Runs} \cup {None}
  BY <1>4 DEF IInv, TypeOK, StoreTypeOK
<1>11. /\ ExhaustedMeansSpent' /\ BankedMeansLeft' /\ OneSlotPerSource'
       /\ ~late => again' = {} /\ RecordsStand'
  BY <1>4 DEF IInv, ExhaustedMeansSpent, BankedMeansLeft, OneSlotPerSource, RecordedIsNotRepeated,
              RecordsStand, Holds
<1>12. ~late /\ ~crashed' => BooksStand'
  <2> SUFFICES ASSUME ~late, ~crashed
               PROVE  BooksStand'
    BY <1>4
  <2>1. \A q \in Runs : /\ run[q].pc \notin {"place", "clear", "drop", "log"}
                        /\ run'[q].pc \notin {"place", "clear", "drop", "log"}
    BY <1>5, <1>6, <1>7, <1>9 DEF Inside
  <2>2. /\ \A a \in Angles : (Placing(a)' <=> Placing(a)) /\ (Logging(a)' <=> Logging(a))
        /\ \A y \in Slots : Leaving(y)' <=> Leaving(y)
    BY <2>1 DEF Placing, Logging, Leaving, At
  <2>3. BooksStand
    BY DEF IInv
  <2> QED BY <1>4, <2>2, <2>3 DEF BooksStand, Holds
<1> QED
  BY <1>4, <1>6, <1>7, <1>8, <1>9, <1>10, <1>11, <1>12, StepKeeps

\* A run that leaves, finished or cut off, leaves the store as it is.
LEMMA RunLeaves ==
  ASSUME IInv, NEW r \in Runs, Inside(r), run' = [run EXCEPT ![r] = Idle],
         UNCHANGED <<angle, source, used, slot, history, told, again, late>>,
         lock' \in {Owner[q] : q \in Runs} \cup {None},
         (UNCHANGED crashed /\ run[r].pc = "done") \/ crashed' = TRUE
  PROVE  IInv'
<1>1. Idle \in Run /\ Idle.pc = "idle"
  BY IdleRun
<1>2. run'[r].pc = "idle"
  BY <1>1 DEF IInv, TypeOK
<1>3. RunSound(r)' /\ ReadStands(r)'
  BY <1>2 DEF RunSound, ReadStands
<1>4. /\ StoreTypeOK' /\ told' \in SUBSET (Angles \X Platforms) /\ again' \in SUBSET (Angles \X Platforms)
  BY DEF IInv, TypeOK, StoreTypeOK
<1>5. /\ ExhaustedMeansSpent' /\ BankedMeansLeft' /\ OneSlotPerSource'
      /\ ~late => again' = {} /\ RecordsStand'
  BY DEF IInv, ExhaustedMeansSpent, BankedMeansLeft, OneSlotPerSource, RecordedIsNotRepeated,
         RecordsStand, Holds
<1>6. ~late => \A q \in Runs \ {r} : ~Inside(q)
  BY DEF IInv, Alone
<1>7. ~late /\ ~crashed' => BooksStand'
  <2> SUFFICES ASSUME ~late, ~crashed, run[r].pc = "done"
               PROVE  BooksStand'
    OBVIOUS
  <2>1. /\ \A a \in Angles : (Placing(a)' <=> Placing(a)) /\ (Logging(a)' <=> Logging(a))
        /\ \A x \in Slots : Leaving(x)' <=> Leaving(x)
    BY <1>1, OnlyRun, OnlyRunThen
  <2>2. BooksStand
    BY DEF IInv
  <2> QED BY <2>1, <2>2 DEF BooksStand, Holds
<1> QED
  BY <1>1, <1>3, <1>4, <1>5, <1>6, <1>7, StepKeeps

\* A run ends and releases its lock, if it holds it still.
LEMMA FinishKeeps ==
  ASSUME IInv, NEW r \in Runs, Finish(r)
  PROVE  IInv'
<1>1. /\ run[r].pc = "done" /\ Inside(r) /\ run' = [run EXCEPT ![r] = Idle]
      /\ UNCHANGED <<angle, source, used, slot, history, told, again, late, crashed>>
      /\ lock' \in {Owner[q] : q \in Runs} \cup {None}
  BY DEF IInv, TypeOK, Finish, At, Inside, Become, ReleaseLock, ghosts
<1> QED
  BY <1>1, RunLeaves

\* A run is cut off; its lock has to run out.
LEMMA CrashKeeps ==
  ASSUME IInv, NEW r \in Runs, Crash(r)
  PROVE  IInv'
<1>1. /\ Inside(r) /\ run' = [run EXCEPT ![r] = Idle] /\ crashed' = TRUE
      /\ UNCHANGED <<angle, source, used, slot, history, lock, told, again, late>>
      /\ lock \in {Owner[q] : q \in Runs} \cup {None}
  BY DEF IInv, TypeOK, Crash, Become, store
<1> QED
  BY <1>1, RunLeaves

\* A lock that expires while a run is inside ends what is promised; otherwise nobody has it.
LEMMA ExpireKeeps ==
  ASSUME IInv, Expire
  PROVE  IInv'
<1>1. /\ UNCHANGED <<angle, source, used, slot, history, run, told, again, crashed>> /\ lock' = None
      /\ late' = (late \/ \E r \in Runs : Inside(r))
  BY DEF Expire
<1>2. TypeOK'
  BY <1>1 DEF IInv, TypeOK, StoreTypeOK
<1>3. ExhaustedMeansSpent' /\ BankedMeansLeft' /\ OneSlotPerSource' /\ RecordedIsNotRepeated'
  BY <1>1 DEF IInv, ExhaustedMeansSpent, BankedMeansLeft, OneSlotPerSource, RecordedIsNotRepeated
<1>4. \A r \in Runs : RunSound(r)'
  BY <1>1 DEF IInv, RunSound
<1>5. ~late' => Alone' /\ RecordsStand' /\ \A r \in Runs : ReadStands(r)'
  <2> SUFFICES ASSUME ~late'
               PROVE  Alone' /\ RecordsStand' /\ \A r \in Runs : ReadStands(r)'
    OBVIOUS
  <2>1. ~late /\ \A r \in Runs : run[r].pc = "idle"
    BY <1>1 DEF IInv, TypeOK, Inside
  <2>2. Alone' /\ \A r \in Runs : ReadStands(r)'
    BY <1>1, <2>1 DEF Alone, Inside, ReadStands
  <2>3. RecordsStand'
    BY <1>1, <2>1 DEF IInv, RecordsStand, Holds
  <2> QED BY <2>2, <2>3
<1>6. ~late' /\ ~crashed' => BooksStand'
  <2>1. /\ \A a \in Angles : (Placing(a)' <=> Placing(a)) /\ (Logging(a)' <=> Logging(a))
        /\ \A x \in Slots : Leaving(x)' <=> Leaving(x)
    BY <1>1 DEF Placing, Leaving, Logging, At
  <2>2. ~late' /\ ~crashed' => BooksStand
    BY <1>1 DEF IInv
  <2> QED BY <1>1, <2>1, <2>2 DEF BooksStand, Holds
<1> QED
  BY <1>2, <1>3, <1>4, <1>5, <1>6 DEF IInv

----------------------------------------------------------------------------
(* Steps that write nothing *)

\* A run looks at its next slot.
LEMMA LookKeeps ==
  ASSUME IInv, NEW r \in Runs, Look(r)
  PROVE  IInv'
<1>1. PICK x \in First(run[r].todo) :
        \/ SlotDone(r, x)
        \/ slot[x] # None /\ Become(r, Publishing(r, x, slot[x]))
        \/ slot[x] # None /\ Become(r, [run[r] EXCEPT !.pc = "hydrate", !.slot = x, !.item = slot[x]])
  BY DEF Look
<1>2. /\ run \in [Runs -> Run] /\ run[r] \in Run /\ run[r].pc = "look" /\ Inside(r)
      /\ slot \in [Slots -> Item \cup {None}]
      /\ UNCHANGED <<angle, source, used, slot, history, lock, told, again, late, crashed>>
  BY DEF IInv, TypeOK, StoreTypeOK, Look, At, Inside, store, ghosts
<1>3. run[r].todo \subseteq Slots /\ x \in Slots
  BY <1>1, <1>2 DEF IInv, RunSound, First
<1>4. again' \in SUBSET (Angles \X Platforms) /\ (~late => again' = {})
  BY <1>2 DEF IInv, TypeOK, RecordedIsNotRepeated
<1>5. CASE SlotDone(r, x)
  <2>1. PICK n \in Run : /\ run' = [run EXCEPT ![r] = n] /\ n.pc \in {"done", "look"}
                         /\ RunSound(r)' /\ ReadStands(r)'
    BY <1>3, <1>5, Leaves
  <2> QED BY <1>2, <1>4, <2>1, QuietKeeps
<1>6. ASSUME slot[x] # None, NEW pc \in {"publish", "hydrate"},
             Become(r, [run[r] EXCEPT !.pc = pc, !.slot = x, !.item = slot[x]])
      PROVE  IInv'
  <2>1. PICK item \in Item : item = slot[x]
    BY <1>2, <1>3, <1>6
  <2>2. PICK n : n = [run[r] EXCEPT !.pc = pc, !.slot = x, !.item = item]
    OBVIOUS
  <2>3. /\ n \in Run /\ n.pc = pc /\ n.slot = x /\ n.item = item /\ n.todo = run[r].todo
    BY <1>2, <1>3, <2>2 DEF Run, Pc
  <2>4. run' = [run EXCEPT ![r] = n] /\ run'[r] = n
    BY <1>2, <1>6, <2>1, <2>2 DEF Become
  <2>5. RunSound(r)'
    BY <1>3, <2>3, <2>4 DEF RunSound
  <2>6. ReadStands(r)'
    BY <1>2, <1>6, <2>1, <2>3, <2>4 DEF ReadStands, Holds
  <2> QED BY <1>2, <1>4, <2>3, <2>4, <2>5, <2>6, QuietKeeps
<1> QED
  BY <1>1, <1>5, <1>6 DEF Publishing

\* What the slots hold is reserved; they stay as they are until this run fills one.
LEMMA ReserveKeeps ==
  ASSUME IInv, NEW r \in Runs, Reserve(r)
  PROVE  IInv'
<1>1. /\ run \in [Runs -> Run] /\ run[r].pc = "look" /\ Inside(r)
      /\ UNCHANGED <<angle, source, used, slot, history, lock, told, again, late, crashed>>
  BY DEF IInv, TypeOK, Reserve, At, Inside, store, ghosts
<1>2. again' \in SUBSET (Angles \X Platforms) /\ (~late => again' = {})
  BY <1>1 DEF IInv, TypeOK, RecordedIsNotRepeated
<1>3. CASE End(r)
  <2>1. PICK n \in Run : /\ run' = [run EXCEPT ![r] = n] /\ n.pc \in {"done", "look"}
                         /\ RunSound(r)' /\ ReadStands(r)'
    BY <1>3, Leaves
  <2> QED BY <1>1, <1>2, <2>1, QuietKeeps
<1>4. CASE Become(r, [Idle EXCEPT !.pc = "bank", !.reserved = SlotSources])
  <2>1. PICK reserved : reserved = SlotSources
    OBVIOUS
  <2>2. PICK n : n = [Idle EXCEPT !.pc = "bank", !.reserved = reserved]
    OBVIOUS
  <2>3. reserved \in SUBSET Sources
    BY <2>1, AngleParts DEF IInv, TypeOK, StoreTypeOK, Item, SlotSources
  <2>4. n \in Run /\ n.pc = "bank" /\ n.reserved = reserved /\ n.todo = {}
    BY <2>2, <2>3, IdleRun DEF Run, Pc
  <2>5. run' = [run EXCEPT ![r] = n] /\ run'[r] = n
    BY <1>1, <1>4, <2>1, <2>2 DEF Become
  <2>6. RunSound(r)'
    BY <2>4, <2>5 DEF RunSound
  <2>7. ReadStands(r)'
    BY <1>1, <2>1, <2>4, <2>5 DEF ReadStands, SlotSources
  <2> QED BY <1>1, <1>2, <2>4, <2>5, <2>6, <2>7, QuietKeeps
<1> QED
  BY <1>3, <1>4 DEF Reserve

\* The sources have been fetched.
LEMMA FetchedKeeps ==
  ASSUME IInv, NEW r \in Runs, Fetched(r)
  PROVE  IInv'
<1>1. /\ run \in [Runs -> Run] /\ run[r] \in Run /\ run[r].pc = "fetch" /\ Inside(r) /\ (~late => ReadStands(r))
      /\ UNCHANGED <<angle, source, used, slot, history, lock, told, again, late, crashed>>
  BY DEF IInv, TypeOK, Fetched, At, Inside, store, ghosts
<1>2. again' \in SUBSET (Angles \X Platforms) /\ (~late => again' = {})
  BY <1>1 DEF IInv, TypeOK, RecordedIsNotRepeated
<1>3. CASE End(r)
  <2>1. PICK n \in Run : /\ run' = [run EXCEPT ![r] = n] /\ n.pc \in {"done", "look"}
                         /\ RunSound(r)' /\ ReadStands(r)'
    BY <1>3, Leaves
  <2> QED BY <1>1, <1>2, <2>1, QuietKeeps
<1>4. ASSUME NEW posts \in SUBSET Sources, Become(r, [run[r] EXCEPT !.pc = "posts", !.todo = posts])
      PROVE  IInv'
  <2>1. PICK n : n = [run[r] EXCEPT !.pc = "posts", !.todo = posts]
    OBVIOUS
  <2>2. n \in Run /\ n.pc = "posts" /\ n.reserved = run[r].reserved /\ n.todo = posts
    <3>1. posts \in (SUBSET Slots) \cup (SUBSET Sources) /\ "posts" \in Pc
      BY <1>4 DEF Pc
    <3> QED BY <1>1, <2>1, <3>1 DEF Run
  <2>3. run' = [run EXCEPT ![r] = n] /\ run'[r] = n
    BY <1>1, <1>4, <2>1 DEF Become
  <2>4. RunSound(r)'
    BY <2>2, <2>3 DEF RunSound
  <2>5. ~late => ReadStands(r)'
    BY <1>1, <2>2, <2>3 DEF ReadStands, SlotSources
  <2> QED BY <1>1, <1>2, <2>2, <2>3, <2>4, <2>5, QuietKeeps
<1> QED
  BY <1>3, <1>4 DEF Fetched

\* A post that no slot and no exhausted source stands against is drafted or extracted.
LEMMA PostKeeps ==
  ASSUME IInv, NEW r \in Runs, Post(r)
  PROVE  IInv'
<1>1. /\ run \in [Runs -> Run] /\ run[r] \in Run /\ run[r].pc = "posts" /\ Inside(r) /\ (~late => ReadStands(r))
      /\ UNCHANGED <<angle, source, used, slot, history, lock, told, again, late, crashed>> /\ RunSound(r)
  BY DEF IInv, TypeOK, Post, At, Inside, store, ghosts
<1>2. again' \in SUBSET (Angles \X Platforms) /\ (~late => again' = {})
  BY <1>1 DEF IInv, TypeOK, RecordedIsNotRepeated
<1>3. run[r].todo \subseteq Sources /\ (~late => SlotSources \subseteq run[r].reserved)
  BY <1>1 DEF RunSound, ReadStands
<1>4. CASE End(r)
  <2>1. PICK n \in Run : /\ run' = [run EXCEPT ![r] = n] /\ n.pc \in {"done", "look"}
                         /\ RunSound(r)' /\ ReadStands(r)'
    BY <1>4, Leaves
  <2> QED BY <1>1, <1>2, <2>1, QuietKeeps
<1>5. ASSUME NEW s, Pass(r, s)
      PROVE  IInv'
  <2>1. PICK n \in Run : /\ run' = [run EXCEPT ![r] = n] /\ n.pc = "posts" /\ RunSound(r)'
                         /\ UNCHANGED slot /\ SlotSources \subseteq run[r].reserved => ReadStands(r)'
    BY <1>3, <1>5, PassMoves
  <2>2. ~late => ReadStands(r)'
    BY <1>1, <1>3, <2>1
  <2> QED BY <1>1, <1>2, <2>1, <2>2, QuietKeeps
<1>6. ASSUME NEW s \in run[r].todo, NEW h \in Hashes, s \notin run[r].reserved,
             NEW a \in ReadyOf(angle, s, h), Draft(r, a, "posts")
      PROVE  IInv'
  <2>1. a \in Angles /\ SourceOf(a) = s /\ angle'[a] = "ready"
    BY <1>1, <1>6 DEF ReadyOf
  <2>2. PICK n \in Run :
           /\ run' = [run EXCEPT ![r] = n] /\ n.pc = "draft" /\ RunSound(r)'
           /\ SlotSources \subseteq run[r].reserved /\ SourceOf(a) \notin run[r].reserved /\ angle'[a] = "ready"
                => ReadStands(r)'
    BY <1>1, <1>3, <1>6, <2>1, DraftMoves
  <2> QED BY <1>1, <1>2, <1>3, <1>6, <2>1, <2>2, QuietKeeps
<1>7. ASSUME NEW s \in run[r].todo, NEW h \in Hashes, s \notin run[r].reserved,
             Become(r, [run[r] EXCEPT !.pc = "extract", !.angle = <<s, h>>])
      PROVE  IInv'
  <2>1. PICK n : n = [run[r] EXCEPT !.pc = "extract", !.angle = <<s, h>>]
    OBVIOUS
  <2>2. <<s, h>> \in Sources \X Hashes
    BY <1>3, <1>7
  <2>3. /\ n \in Run /\ n.pc = "extract" /\ n.reserved = run[r].reserved /\ n.todo = run[r].todo
        /\ n.angle = <<s, h>>
    BY <1>1, <2>1, <2>2 DEF Run, Pc
  <2>4. run' = [run EXCEPT ![r] = n] /\ run'[r] = n
    BY <1>1, <1>7, <2>1 DEF Become
  <2>5. RunSound(r)'
    BY <1>3, <2>2, <2>3, <2>4 DEF RunSound
  <2>6. ~late => ReadStands(r)'
    BY <1>1, <1>3, <1>7, <2>3, <2>4 DEF ReadStands, SlotSources
  <2> QED BY <1>1, <1>2, <2>3, <2>4, <2>5, <2>6, QuietKeeps
<1> QED
  <2>1. \/ End(r)
        \/ \E s \in run[r].todo, h \in Hashes :
              \/ Pass(r, s)
              \/ s \notin run[r].reserved /\ \E a \in ReadyOf(angle, s, h) : Draft(r, a, "posts")
              \/ s \notin run[r].reserved /\ Become(r, [run[r] EXCEPT !.pc = "extract", !.angle = <<s, h>>])
    BY DEF Post
  <2> QED BY <1>4, <1>5, <1>6, <1>7, <2>1

\* Every post that was recorded is among the ids of the item that the run has read.
LEMMA PublishKeeps ==
  ASSUME IInv, NEW r \in Runs, Publish(r)
  PROVE  IInv'
<1>1. PICK p, item : p = PlatformSteps[run[r].step] /\ item = run[r].item
  OBVIOUS
<1>2. /\ run \in [Runs -> Run] /\ run[r] \in Run /\ run[r].pc = "publish" /\ Inside(r) /\ (~late => ReadStands(r))
      /\ UNCHANGED <<angle, source, used, slot, history, lock, told, late, crashed>> /\ RunSound(r)
      /\ run[r].step <= Len(PlatformSteps) /\ run[r].step \in 1..Len(PlatformSteps) + 1
      /\ Len(PlatformSteps) \in Nat
  BY SMTT(30), StoreAssumption DEF IInv, TypeOK, Publish, At, Inside, store, Run
<1>3. /\ item \in Item /\ p \in Platforms /\ run[r].todo \subseteq Slots
      /\ run[r].step + 1 \in 1..Len(PlatformSteps) + 1
  <2>1. run[r].step \in 1..Len(PlatformSteps)
    BY <1>2
  <2>2. DOMAIN PlatformSteps = 1..Len(PlatformSteps)
    BY StoreAssumption
  <2> QED BY <1>1, <1>2, <2>1, <2>2 DEF RunSound, Platforms
<1>4. PICK active \in SUBSET Platforms, ids \in SUBSET Platforms :
        /\ item.ids \subseteq ids
        /\ Become(r, [run[r] EXCEPT !.step = run[r].step + 1, !.active = active, !.item = [item EXCEPT !.ids = ids]])
        /\ UNCHANGED again \/ (p \notin item.ids /\ again' = again \cup ({<<item.angle, p>>} \cap told))
  <2>1. run[r].active \in SUBSET Platforms /\ item.ids \in SUBSET Platforms
    BY <1>2, <1>3 DEF Run, Item
  <2>2. /\ run[r].active \cup {p} \in SUBSET Platforms /\ item.ids \cup {p} \in SUBSET Platforms
    BY <1>3, <2>1
  <2>3. \A act \in SUBSET Platforms : [run[r] EXCEPT !.step = run[r].step + 1, !.active = act]
           = [run[r] EXCEPT !.step = run[r].step + 1, !.active = act, !.item = [item EXCEPT !.ids = item.ids]]
    BY <1>1, <1>2, <1>3 DEF Run, Item
  <2>4. [run[r] EXCEPT !.step = run[r].step + 1]
           = [run[r] EXCEPT !.step = run[r].step + 1, !.active = run[r].active, !.item = [item EXCEPT !.ids = item.ids]]
    BY <1>1, <1>2, <1>3 DEF Run, Item
  <2>5. \/ Become(r, [run[r] EXCEPT !.step = run[r].step + 1]) /\ UNCHANGED again
        \/ Become(r, [[run[r] EXCEPT !.step = run[r].step + 1] EXCEPT !.active = run[r].active \cup {p}])
             /\ UNCHANGED again
        \/ /\ p \notin item.ids /\ again' = again \cup ({<<item.angle, p>>} \cap told)
           /\ \/ Become(r, [[[run[r] EXCEPT !.step = run[r].step + 1] EXCEPT !.active = run[r].active \cup {p}]
                              EXCEPT !.item = [item EXCEPT !.ids = item.ids \cup {p}]])
              \/ Become(r, [[run[r] EXCEPT !.step = run[r].step + 1] EXCEPT !.active = run[r].active \cup {p}])
    BY <1>1 DEF Publish
  <2> QED BY <2>1, <2>2, <2>3, <2>4, <2>5
<1>5. PICK n : n = [run[r] EXCEPT !.step = run[r].step + 1, !.active = active, !.item = [item EXCEPT !.ids = ids]]
  OBVIOUS
<1>6. [item EXCEPT !.ids = ids] \in Item
  BY <1>3 DEF Item
<1>7. /\ n \in Run /\ n.pc = "publish" /\ n.slot = run[r].slot /\ n.item \in Item /\ n.item.angle = item.angle
      /\ n.item.ids = ids /\ n.todo = run[r].todo
  BY <1>2, <1>3, <1>5, <1>6 DEF Run, Item
<1>8. run' = [run EXCEPT ![r] = n] /\ run'[r] = n
  BY <1>2, <1>4, <1>5 DEF Become
<1>9. RunSound(r)'
  BY <1>3, <1>7, <1>8 DEF RunSound
<1>10. ~late => ReadStands(r)'
  BY <1>1, <1>2, <1>4, <1>7, <1>8 DEF ReadStands, Holds
<1>11. again' \in SUBSET (Angles \X Platforms)
  BY <1>2, <1>4 DEF IInv, TypeOK
<1>12. ~late => again' = {}
  <2> SUFFICES ASSUME ~late
               PROVE  again' = {}
    OBVIOUS
  <2>1. again = {}
    BY DEF IInv, RecordedIsNotRepeated
  <2>2. Holds(run[r].slot, item.angle) /\ slot[run[r].slot].ids \subseteq item.ids /\ run[r].slot \in Slots
    BY <1>1, <1>2 DEF ReadStands, Run
  <2>3. <<item.angle, p>> \in told => p \in item.ids
    BY <1>3, <2>2 DEF IInv, RecordsStand, Holds
  <2> QED BY <1>4, <2>1, <2>3
<1> QED
  BY <1>2, <1>7, <1>8, <1>9, <1>10, <1>11, <1>12, QuietKeeps

----------------------------------------------------------------------------
(* Angles change their status *)

\* An angle is marked; what has been recorded of a published one stays so.
LEMMA MarkKeeps ==
  ASSUME IInv, NEW r \in Runs, Inside(r), NEW n \in Run, run' = [run EXCEPT ![r] = n],
         NEW a \in Angles, NEW status \in {"ready", "queued", "published", "discarded"}, MarkAngle(a, status),
         UNCHANGED <<slot, history, lock, told, again, late, crashed>>,
         ~late /\ angle[a] = "published" => status = "published",
         RunSound(r)', ~late => ReadStands(r)', ~late /\ ~crashed => BooksStand'
  PROVE  IInv'
<1>1. /\ StoreTypeOK /\ ExhaustedMeansSpent /\ BankedMeansLeft /\ told \in SUBSET (Angles \X Platforms)
      /\ again \in SUBSET (Angles \X Platforms)
  BY DEF IInv, TypeOK
<1>2. /\ angle' \in [Angles -> {"none", "ready", "queued", "published", "discarded"}]
      /\ source' \in [Sources -> Source] /\ used' \in SUBSET Sources
      /\ angle'[a] = status /\ \A b \in Angles \ {a} : angle'[b] = angle[b]
      /\ ExhaustedMeansSpent' /\ BankedMeansLeft'
  BY <1>1, MarkAngleKeeps
<1>3. StoreTypeOK' /\ told' \in SUBSET (Angles \X Platforms) /\ again' \in SUBSET (Angles \X Platforms)
  BY <1>1, <1>2 DEF StoreTypeOK
<1>4. OneSlotPerSource'
  BY DEF IInv, OneSlotPerSource
<1>5. ~late => again' = {} /\ RecordsStand'
  <2> SUFFICES ASSUME ~late
               PROVE  again' = {} /\ RecordsStand'
    OBVIOUS
  <2>1. \A t \in told : t[1] \in Angles /\ (angle[t[1]] = "published" => angle'[t[1]] = "published")
    BY <1>1, <1>2
  <2> QED BY <2>1 DEF IInv, RecordedIsNotRepeated, RecordsStand, Holds
<1> QED
  BY <1>2, <1>3, <1>4, <1>5, InsideKeeps

\* A ready angle is taken for a draft, or discarded, or the bank is left.
LEMMA BankKeeps ==
  ASSUME IInv, NEW r \in Runs, Bank(r)
  PROVE  IInv'
<1>1. /\ run \in [Runs -> Run] /\ run[r] \in Run /\ run[r].pc = "bank" /\ Inside(r) /\ (~late => ReadStands(r))
      /\ UNCHANGED <<slot, history, lock, told, again, late, crashed>> /\ RunSound(r)
  BY DEF IInv, TypeOK, Bank, At, Inside, ghosts
<1>2. again' \in SUBSET (Angles \X Platforms) /\ (~late => again' = {})
  BY <1>1 DEF IInv, TypeOK, RecordedIsNotRepeated
<1>3. run[r].todo \subseteq Sources /\ (~late => SlotSources \subseteq run[r].reserved)
  BY <1>1 DEF RunSound, ReadStands
<1>4. CASE End(r) /\ UNCHANGED <<angle, source, used>>
  <2>1. PICK n \in Run : /\ run' = [run EXCEPT ![r] = n] /\ n.pc \in {"done", "look"}
                         /\ RunSound(r)' /\ ReadStands(r)'
    BY <1>4, Leaves
  <2> QED BY <1>1, <1>2, <1>4, <2>1, QuietKeeps
<1>5. CASE Goto(r, "fetch") /\ UNCHANGED <<angle, source, used>>
  <2>1. PICK n \in Run :
           /\ run' = [run EXCEPT ![r] = n] /\ run'[r] = n /\ n.pc = "fetch" /\ n.todo = run[r].todo
           /\ n.slot = run[r].slot /\ n.item = run[r].item /\ n.angle = run[r].angle
           /\ n.reserved = run[r].reserved /\ n.from = run[r].from
    BY <1>5, GotoMoves DEF Pc
  <2>2. RunSound(r)'
    BY <1>3, <2>1 DEF RunSound
  <2>3. ~late => ReadStands(r)'
    BY <1>1, <1>3, <2>1 DEF ReadStands, SlotSources
  <2> QED BY <1>1, <1>2, <1>5, <2>1, <2>2, <2>3, QuietKeeps
<1>6. ASSUME NEW a \in ReadyAngles(run[r].reserved), Draft(r, a, "bank"), UNCHANGED <<angle, source, used>>
      PROVE  IInv'
  <2>1. a \in Angles /\ SourceOf(a) \notin run[r].reserved /\ angle'[a] = "ready"
    BY <1>6 DEF ReadyAngles
  <2>2. PICK n \in Run :
           /\ run' = [run EXCEPT ![r] = n] /\ n.pc = "draft" /\ RunSound(r)'
           /\ SlotSources \subseteq run[r].reserved /\ SourceOf(a) \notin run[r].reserved /\ angle'[a] = "ready"
                => ReadStands(r)'
    BY <1>1, <1>3, <1>6, <2>1, DraftMoves
  <2> QED BY <1>1, <1>2, <1>3, <1>6, <2>1, <2>2, QuietKeeps
<1>7. ASSUME NEW a \in ReadyAngles(run[r].reserved), MarkAngle(a, "discarded"), UNCHANGED run
      PROVE  IInv'
  <2>1. a \in Angles /\ angle[a] = "ready"
    BY DEF ReadyAngles
  <2>2. run' = [run EXCEPT ![r] = run[r]]
    BY <1>1, <1>7
  <2>3. RunSound(r)' /\ (~late => ReadStands(r)')
    BY <1>1, <1>3, <1>7 DEF RunSound, ReadStands, SlotSources
  <2>4. angle'[a] = "discarded" /\ \A b \in Angles \ {a} : angle'[b] = angle[b]
    BY <1>7, <2>1, MarkAngleKeeps DEF IInv, TypeOK
  <2>5. ASSUME ~late, ~crashed
        PROVE  BooksStand'
    <3>1. /\ \A b \in Angles : (Placing(b)' <=> Placing(b)) /\ (Logging(b)' <=> Logging(b))
          /\ \A x \in Slots : Leaving(x)' <=> Leaving(x)
      BY <1>7 DEF Placing, Leaving, Logging, At
    <3>2. BooksStand
      BY <2>5 DEF IInv
    <3> QED BY <1>1, <2>1, <2>4, <3>1, <3>2 DEF BooksStand, Holds
  <2> QED BY <1>1, <1>7, <2>1, <2>2, <2>3, <2>5, MarkKeeps
<1> QED
  BY <1>4, <1>5, <1>6, <1>7 DEF Bank

\* What is extracted was not there; the rest stays as it is.
LEMMA ExtractKeeps ==
  ASSUME IInv, NEW r \in Runs, Extract(r)
  PROVE  IInv'
<1>1. PICK s, h : s = run[r].angle[1] /\ h = run[r].angle[2]
  OBVIOUS
<1>2. /\ run \in [Runs -> Run] /\ run[r].pc = "extract" /\ Inside(r) /\ (~late => ReadStands(r))
      /\ UNCHANGED <<slot, history, lock, told, again, late, crashed>> /\ RunSound(r)
      /\ StoreTypeOK /\ ExhaustedMeansSpent /\ BankedMeansLeft /\ told \in SUBSET (Angles \X Platforms)
  BY DEF IInv, TypeOK, Extract, At, Inside, ghosts
<1>3. again' \in SUBSET (Angles \X Platforms) /\ (~late => again' = {})
  BY <1>2 DEF IInv, TypeOK, RecordedIsNotRepeated
<1>4. /\ run[r].todo \subseteq Sources /\ (~late => SlotSources \subseteq run[r].reserved /\ s \notin run[r].reserved)
      /\ s \in Sources /\ h \in Hashes
  BY <1>1, <1>2 DEF RunSound, ReadStands
<1>5. ASSUME Pass(r, s)
      PROVE  \E n \in Run : /\ run' = [run EXCEPT ![r] = n] /\ n.pc \in {"posts", "draft"} /\ RunSound(r)'
                            /\ (~late => ReadStands(r)')
  <2>1. PICK n \in Run : /\ run' = [run EXCEPT ![r] = n] /\ n.pc = "posts" /\ RunSound(r)'
                         /\ UNCHANGED slot /\ SlotSources \subseteq run[r].reserved => ReadStands(r)'
    BY <1>4, <1>5, PassMoves
  <2> QED BY <1>2, <1>4, <2>1
<1>6. ASSUME NEW a \in ReadyOf(angle', s, h), Draft(r, a, "posts")
      PROVE  \E n \in Run : /\ run' = [run EXCEPT ![r] = n] /\ n.pc \in {"posts", "draft"} /\ RunSound(r)'
                            /\ (~late => ReadStands(r)')
  <2>1. a \in Angles /\ SourceOf(a) = s /\ angle'[a] = "ready"
    BY DEF ReadyOf
  <2>2. PICK n \in Run :
           /\ run' = [run EXCEPT ![r] = n] /\ n.pc = "draft" /\ RunSound(r)'
           /\ SlotSources \subseteq run[r].reserved /\ SourceOf(a) \notin run[r].reserved /\ angle'[a] = "ready"
                => ReadStands(r)'
    BY <1>2, <1>4, <1>6, <2>1, DraftMoves
  <2> QED BY <1>4, <2>1, <2>2
<1>7. CASE Pass(r, s) /\ UNCHANGED <<angle, source, used>>
  BY <1>2, <1>3, <1>5, <1>7, QuietKeeps
<1>8. ASSUME NEW fresh \in SUBSET {a \in Angles : SourceOf(a) = s /\ HashOf(a) = h}, BankExtraction(s, h, fresh),
             Pass(r, s) \/ \E a \in ReadyOf(angle', s, h) : Draft(r, a, "posts")
      PROVE  IInv'
  <2>1. PICK n \in Run : /\ run' = [run EXCEPT ![r] = n] /\ n.pc \in {"posts", "draft"} /\ RunSound(r)'
                         /\ (~late => ReadStands(r)')
    BY <1>5, <1>6, <1>8
  <2>2. /\ angle' \in [Angles -> {"none", "ready", "queued", "published", "discarded"}]
        /\ source' \in [Sources -> Source] /\ used' \in SUBSET Sources
        /\ \A a \in Angles : angle'[a] = angle[a] \/ (angle[a] = "none" /\ angle'[a] = "ready")
        /\ ExhaustedMeansSpent' /\ BankedMeansLeft'
    BY <1>2, <1>4, <1>8, BankExtractionKeeps
  <2>3. StoreTypeOK' /\ told' \in SUBSET (Angles \X Platforms) /\ OneSlotPerSource'
    BY <1>2, <2>2 DEF IInv, StoreTypeOK, OneSlotPerSource
  <2>4. ~late => RecordsStand'
    <3>1. \A t \in told : t[1] \in Angles /\ (angle[t[1]] = "published" => angle'[t[1]] = "published")
      BY <1>2, <2>2
    <3> QED BY <1>2, <3>1 DEF IInv, RecordsStand, Holds
  <2>5. ASSUME ~late, ~crashed
        PROVE  BooksStand'
    <3>1. /\ \A a \in Angles : (Placing(a)' <=> Placing(a)) /\ (Logging(a)' <=> Logging(a))
          /\ \A x \in Slots : Leaving(x)' <=> Leaving(x)
      BY <1>2, <2>1, <2>5, OnlyRun, OnlyRunThen
    <3>2. BooksStand
      BY <2>5 DEF IInv
    <3> QED BY <1>2, <2>2, <3>1, <3>2 DEF BooksStand, Holds
  <2> QED BY <1>2, <1>3, <2>1, <2>2, <2>3, <2>4, <2>5, InsideKeeps
<1> QED
  BY <1>1, <1>7, <1>8 DEF Extract

\* The draft is here: the angle it was made from is still ready, and its slot open.
LEMMA DraftedKeeps ==
  ASSUME IInv, NEW r \in Runs, Drafted(r)
  PROVE  IInv'
<1>1. PICK a : a = run[r].angle
  OBVIOUS
<1>2. /\ run \in [Runs -> Run] /\ run[r] \in Run /\ run[r].pc = "draft" /\ Inside(r) /\ (~late => ReadStands(r))
      /\ UNCHANGED <<slot, history, lock, told, again, late, crashed>> /\ RunSound(r)
  BY DEF IInv, TypeOK, Drafted, At, Inside, ghosts
<1>3. again' \in SUBSET (Angles \X Platforms) /\ (~late => again' = {})
  BY <1>2 DEF IInv, TypeOK, RecordedIsNotRepeated
<1>4. /\ run[r].todo \subseteq Sources /\ a \in Angles
      /\ ~late => /\ SlotSources \subseteq run[r].reserved /\ slot[run[r].slot] = None
                  /\ SourceOf(a) \notin run[r].reserved /\ angle[a] = "ready"
  BY <1>1, <1>2 DEF RunSound, ReadStands
<1>5. CASE MarkAngle(a, "queued") /\ Goto(r, "place")
  <2>1. PICK n \in Run :
           /\ run' = [run EXCEPT ![r] = n] /\ run'[r] = n /\ n.pc = "place" /\ n.todo = run[r].todo
           /\ n.slot = run[r].slot /\ n.item = run[r].item /\ n.angle = run[r].angle
           /\ n.reserved = run[r].reserved /\ n.from = run[r].from
    BY <1>5, GotoMoves DEF Pc
  <2>2. RunSound(r)'
    BY <1>1, <1>4, <2>1 DEF RunSound
  <2>3. angle'[a] = "queued" /\ \A b \in Angles \ {a} : angle'[b] = angle[b]
    BY <1>4, <1>5, MarkAngleKeeps DEF IInv, TypeOK
  <2>4. ~late => ReadStands(r)'
    BY <1>1, <1>2, <1>4, <2>1, <2>3 DEF ReadStands, SlotSources
  <2>5. ASSUME ~late, ~crashed
        PROVE  BooksStand'
    <3>1. /\ \A b \in Angles : ~Placing(b) /\ ~Logging(b)
          /\ \A x \in Slots : ~Leaving(x)
      BY <1>2, <2>5, OnlyRun
    <3>2. /\ \A b \in Angles : (Placing(b)' <=> b = a) /\ ~Logging(b)'
          /\ \A x \in Slots : ~Leaving(x)'
      BY ZenonT(60), <1>1, <1>2, <2>1, <2>5, OnlyRunThen
    <3>3. BooksStand
      BY <2>5 DEF IInv
    <3> QED BY <1>2, <1>4, <2>3, <2>5, <3>1, <3>2, <3>3 DEF BooksStand, Holds
  <2> QED BY <1>2, <1>4, <1>5, <2>1, <2>2, <2>4, <2>5, MarkKeeps
<1>6. CASE Pass(r, SourceOf(a)) /\ UNCHANGED <<angle, source, used>>
  <2>1. PICK n \in Run : /\ run' = [run EXCEPT ![r] = n] /\ n.pc = "posts" /\ RunSound(r)'
                         /\ UNCHANGED slot /\ SlotSources \subseteq run[r].reserved => ReadStands(r)'
    BY <1>4, <1>6, PassMoves
  <2>2. ~late => ReadStands(r)'
    BY <1>2, <1>4, <2>1
  <2> QED BY <1>2, <1>3, <1>6, <2>1, <2>2, QuietKeeps
<1>7. CASE /\ Become(r, [run[r] EXCEPT !.pc = "fetch", !.angle = None, !.slot = 1])
           /\ UNCHANGED <<angle, source, used>>
  <2>1. PICK n : n = [run[r] EXCEPT !.pc = "fetch", !.angle = None, !.slot = 1]
    OBVIOUS
  <2>2. n \in Run /\ n.pc = "fetch" /\ n.todo = run[r].todo /\ n.reserved = run[r].reserved
    <3>1. 1 \in Slots /\ "fetch" \in Pc
      BY StoreAssumption DEF Slots, Pc
    <3> QED BY <1>2, <2>1, <3>1 DEF Run
  <2>3. run' = [run EXCEPT ![r] = n] /\ run'[r] = n
    BY <1>2, <1>7, <2>1 DEF Become
  <2>4. RunSound(r)'
    BY <1>4, <2>2, <2>3 DEF RunSound
  <2>5. ~late => ReadStands(r)'
    BY <1>2, <1>4, <2>2, <2>3 DEF ReadStands, SlotSources
  <2> QED BY <1>2, <1>3, <1>7, <2>2, <2>3, <2>4, <2>5, QuietKeeps
<1> QED
  BY <1>1, <1>5, <1>6, <1>7 DEF Drafted

----------------------------------------------------------------------------
(* Slots are written *)

\* The item of a slot is written again, of the same angle and with all that was recorded.
LEMMA ItemKeeps ==
  ASSUME IInv, NEW r \in Runs, Inside(r), NEW n \in Run, run' = [run EXCEPT ![r] = n],
         NEW x \in Slots, NEW item \in Item, SetSlot(x, item),
         ~late => slot[x] # None /\ slot[x].angle = item.angle /\ slot[x].ids \subseteq item.ids,
         told \subseteq told', told' \subseteq told \cup PostsOf(item),
         UNCHANGED <<angle, source, used, history, lock, again, late, crashed>>,
         {n.pc, run[r].pc} \cap {"place", "clear", "drop", "log"} = {},
         RunSound(r)', ~late => ReadStands(r)'
  PROVE  IInv'
<1>1. /\ StoreTypeOK /\ told \in SUBSET (Angles \X Platforms) /\ again' \in SUBSET (Angles \X Platforms)
      /\ slot \in [Slots -> Item \cup {None}] /\ item # None
  BY RuntimeAssumption DEF IInv, TypeOK, StoreTypeOK
<1>2. slot'[x] = item /\ \A y \in Slots \ {x} : slot'[y] = slot[y]
  BY <1>1 DEF SetSlot
<1>3. StoreTypeOK' /\ ExhaustedMeansSpent' /\ BankedMeansLeft'
  BY <1>1 DEF IInv, StoreTypeOK, SetSlot, ExhaustedMeansSpent, BankedMeansLeft
<1>4. told' \in SUBSET (Angles \X Platforms) /\ \A t \in told' : t \in told \/ (t[1] = item.angle /\ t[2] \in item.ids)
  <2>1. \A t \in PostsOf(item) : t \in Angles \X Platforms /\ t[1] = item.angle /\ t[2] \in item.ids
    BY DEF PostsOf, Item
  <2> QED BY <1>1, <2>1
<1>5. ASSUME ~late
      PROVE  \A y \in Slots, a \in Angles : Holds(y, a)' <=> Holds(y, a)
  BY <1>1, <1>2, <1>5 DEF Holds
<1>6. OneSlotPerSource'
  BY <1>1, <1>2 DEF IInv, OneSlotPerSource
<1>7. ASSUME ~late
      PROVE  RecordsStand'
  <2>1. \A y \in Slots : slot'[y] # None => \A p \in Platforms : <<slot'[y].angle, p>> \in told' => p \in slot'[y].ids
    <3> SUFFICES ASSUME NEW y \in Slots, slot'[y] # None, NEW p \in Platforms, <<slot'[y].angle, p>> \in told'
                 PROVE  p \in slot'[y].ids
      OBVIOUS
    <3>1. <<slot'[y].angle, p>> \in told \/ (slot'[y].angle = item.angle /\ p \in item.ids)
      BY <1>4
    <3>2. CASE y = x
      BY <1>2, <1>7, <3>1, <3>2 DEF IInv, RecordsStand
    <3>3. CASE y # x
      <4>1. slot'[y] = slot[y] /\ SourceOf(slot[y].angle) # SourceOf(slot[x].angle)
        BY <1>2, <1>7, <3>3 DEF IInv, OneSlotPerSource
      <4>2. <<slot[y].angle, p>> \in told
        BY <1>7, <3>1, <4>1
      <4> QED BY <1>7, <4>1, <4>2 DEF IInv, RecordsStand
    <3> QED BY <3>2, <3>3
  <2>2. \A t \in told' : (\E y \in Slots : Holds(y, t[1])') \/ angle'[t[1]] = "published"
    <3> SUFFICES ASSUME NEW t \in told'
                 PROVE  (\E y \in Slots : Holds(y, t[1])') \/ angle'[t[1]] = "published"
      OBVIOUS
    <3>1. t[1] \in Angles
      BY <1>4
    <3>2. CASE t \in told
      BY <1>5, <1>7, <3>1, <3>2 DEF IInv, RecordsStand
    <3>3. CASE t[1] = item.angle
      BY <1>1, <1>2, <3>3 DEF Holds
    <3> QED BY <1>4, <3>2, <3>3
  <2> QED BY <2>1, <2>2 DEF RecordsStand, Holds
<1>8. ASSUME ~late, ~crashed
      PROVE  BooksStand'
  <2>1. /\ \A a \in Angles : (Placing(a)' <=> Placing(a)) /\ (Logging(a)' <=> Logging(a))
        /\ \A y \in Slots : Leaving(y)' <=> Leaving(y)
    BY <1>8, OnlyRun, OnlyRunThen
  <2>2. BooksStand
    BY <1>8 DEF IInv
  <2> QED BY <1>5, <1>8, <2>1, <2>2 DEF BooksStand
<1>9. ~late => again' = {}
  BY DEF IInv, RecordedIsNotRepeated
<1> QED
  BY <1>1, <1>3, <1>4, <1>6, <1>7, <1>8, <1>9, InsideKeeps

\* The texts that were missing, merged into the item that was read.
LEMMA HydrateKeeps ==
  ASSUME IInv, NEW r \in Runs, Hydrate(r)
  PROVE  IInv'
<1>1. PICK x : x = run[r].slot
  OBVIOUS
<1>2. /\ run \in [Runs -> Run] /\ run[r] \in Run /\ run[r].pc = "hydrate" /\ Inside(r) /\ (~late => ReadStands(r))
      /\ UNCHANGED <<angle, source, used, history, lock, told, again, late, crashed>> /\ RunSound(r)
  BY DEF IInv, TypeOK, Hydrate, At, Inside, ghosts
<1>3. again' \in SUBSET (Angles \X Platforms) /\ (~late => again' = {})
  BY <1>2 DEF IInv, TypeOK, RecordedIsNotRepeated
<1>4. run[r].todo \subseteq Slots /\ run[r].item \in Item /\ x \in Slots /\ (~late => slot[x] = run[r].item)
  BY <1>1, <1>2 DEF RunSound, ReadStands, Run
<1>5. ASSUME End(r) \/ SlotDone(r, x)
      PROVE  \E n \in Run : /\ run' = [run EXCEPT ![r] = n] /\ n.pc \in {"done", "look"}
                            /\ RunSound(r)' /\ ReadStands(r)'
  BY <1>4, <1>5, Leaves
<1>6. CASE UNCHANGED slot /\ (End(r) \/ SlotDone(r, x))
  BY <1>2, <1>3, <1>5, <1>6, QuietKeeps
<1>7. ASSUME NEW item \in Item, SetSlot(x, item), item.angle = run[r].item.angle, item.ids = run[r].item.ids,
             SlotDone(r, x) \/ Become(r, Publishing(r, x, item))
      PROVE  IInv'
  <2>1. /\ ~late => slot[x] # None /\ slot[x].angle = item.angle /\ slot[x].ids \subseteq item.ids
        /\ told \subseteq told' /\ told' \subseteq told \cup PostsOf(item)
    BY <1>2, <1>4, <1>7, RuntimeAssumption
  <2>2. CASE SlotDone(r, x)
    BY <1>2, <1>4, <1>5, <1>7, <2>1, <2>2, ItemKeeps
  <2>3. CASE Become(r, Publishing(r, x, item))
    <3>1. PICK n : n = [run[r] EXCEPT !.pc = "publish", !.slot = x, !.item = item]
      OBVIOUS
    <3>2. n \in Run /\ n.pc = "publish" /\ n.slot = x /\ n.item = item /\ n.todo = run[r].todo
      BY <1>2, <1>4, <3>1 DEF Run, Pc
    <3>3. run' = [run EXCEPT ![r] = n] /\ run'[r] = n
      BY <1>2, <2>3, <3>1 DEF Become, Publishing
    <3>4. RunSound(r)'
      BY <1>4, <3>2, <3>3 DEF RunSound
    <3>5. slot'[x] = item /\ item # None
      BY <1>4, <1>7, RuntimeAssumption DEF SetSlot, IInv, TypeOK, StoreTypeOK
    <3>6. ReadStands(r)'
      BY <3>2, <3>3, <3>5 DEF ReadStands, Holds
    <3> QED BY <1>2, <1>4, <1>7, <2>1, <3>2, <3>3, <3>4, <3>6, ItemKeeps
  <2> QED BY <1>7, <2>2, <2>3
<1>8. ASSUME NEW texts \in SUBSET Platforms
      PROVE  LET item == [run[r].item EXCEPT !.drafted = run[r].item.drafted \cup texts]
             IN  item \in Item /\ item.angle = run[r].item.angle /\ item.ids = run[r].item.ids
  BY <1>4, <1>8 DEF Item
<1> QED
  <2>1. \/ UNCHANGED slot /\ (End(r) \/ SlotDone(r, x))
        \/ \E texts \in SUBSET Platforms :
             LET item == [run[r].item EXCEPT !.drafted = run[r].item.drafted \cup texts]
             IN  SetSlot(x, item) /\ (SlotDone(r, x) \/ Become(r, Publishing(r, x, item)))
    BY <1>1 DEF Hydrate
  <2> QED BY <1>6, <1>7, <1>8, <2>1

\* A run ends with new texts for its slot.
LEMMA UpdateKeeps ==
  ASSUME IInv, NEW r \in Runs, Update(r)
  PROVE  IInv'
<1>1. PICK x : x = run[r].slot
  OBVIOUS
<1>2. /\ run \in [Runs -> Run] /\ run[r] \in Run /\ run[r].pc = "update" /\ Inside(r) /\ x \in Slots
      /\ UNCHANGED <<angle, source, used, history, lock, told, again, late, crashed>>
      /\ slot[x] \in Item \cup {None}
  BY <1>1 DEF IInv, TypeOK, StoreTypeOK, Update, At, Inside, ghosts, Run
<1>3. again' \in SUBSET (Angles \X Platforms) /\ (~late => again' = {})
  BY <1>2 DEF IInv, TypeOK, RecordedIsNotRepeated
<1>4. PICK n \in Run : /\ run' = [run EXCEPT ![r] = n] /\ n.pc \in {"done", "look"}
                       /\ RunSound(r)' /\ ReadStands(r)'
  <2>1. End(r)
    BY DEF Update
  <2> QED BY <2>1, Leaves
<1>5. CASE UNCHANGED slot
  BY <1>2, <1>3, <1>4, <1>5, QuietKeeps
<1>6. ASSUME NEW texts \in SUBSET Platforms, slot[x] # None, SetSlot(x, [slot[x] EXCEPT !.drafted = texts])
      PROVE  IInv'
  <2>1. PICK item : item = [slot[x] EXCEPT !.drafted = texts]
    OBVIOUS
  <2>2. item \in Item /\ item.angle = slot[x].angle /\ item.ids = slot[x].ids
    BY <1>2, <1>6, <2>1 DEF Item
  <2>3. SetSlot(x, item) /\ told \subseteq told' /\ told' \subseteq told \cup PostsOf(item)
    BY <1>2, <1>6, <2>1
  <2> QED BY <1>2, <1>4, <1>6, <2>2, <2>3, ItemKeeps
<1> QED
  BY <1>1, <1>5, <1>6 DEF Update

----------------------------------------------------------------------------
(* Slots are filled and emptied *)

\* A slot is filled with the angle that was queued for it: no slot has a post of its
\* source, and none of it was recorded.
LEMMA PlaceKeeps ==
  ASSUME IInv, NEW r \in Runs, Place(r)
  PROVE  IInv'
<1>1. PICK a, x : a = run[r].angle /\ x = run[r].slot
  OBVIOUS
<1>2. /\ run \in [Runs -> Run] /\ run[r] \in Run /\ run[r].pc = "place" /\ Inside(r) /\ (~late => ReadStands(r))
      /\ UNCHANGED <<angle, source, used, history, lock, told, again, late, crashed>> /\ RunSound(r)
      /\ StoreTypeOK /\ slot \in [Slots -> Item \cup {None}] /\ None \notin Item
  BY RuntimeAssumption DEF IInv, TypeOK, StoreTypeOK, Place, At, Inside, ghosts
<1>3. /\ run[r].todo \subseteq Sources /\ a \in Angles /\ SourceOf(a) \in Sources /\ x \in Slots
      /\ run[r].from \in {"bank", "posts"} /\ run[r].reserved \in SUBSET Sources
  BY <1>1, <1>2, AngleParts DEF RunSound, Run
<1>4. ~late => /\ SlotSources \subseteq run[r].reserved /\ slot[x] = None
               /\ SourceOf(a) \notin run[r].reserved /\ angle[a] = "queued"
  BY <1>1, <1>2 DEF ReadStands
<1>5. PICK item \in Item : item.angle = a /\ item.ids = {} /\ SetSlot(x, item)
  <2>1. PICK texts \in SUBSET Platforms : SetSlot(x, [angle |-> a, drafted |-> texts, ids |-> {}])
    BY <1>1 DEF Place
  <2> QED BY <1>3, <2>1 DEF Item
<1>6. slot'[x] = item /\ \A y \in Slots \ {x} : slot'[y] = slot[y]
  BY <1>2, <1>3, <1>5 DEF SetSlot
<1>7. StoreTypeOK' /\ ExhaustedMeansSpent' /\ BankedMeansLeft'
  BY <1>2, <1>5 DEF IInv, StoreTypeOK, SetSlot, ExhaustedMeansSpent, BankedMeansLeft
<1>8. PICK n : n = [run[r] EXCEPT !.pc = run[r].from, !.reserved = run[r].reserved \cup {SourceOf(a)},
                                  !.todo = run[r].todo \ {SourceOf(a)}, !.angle = None, !.slot = 1]
  OBVIOUS
<1>9. /\ n \in Run /\ n.pc \in {"bank", "posts"} /\ n.todo \subseteq Sources
      /\ n.reserved = run[r].reserved \cup {SourceOf(a)}
  <2>1. /\ run[r].from \in Pc /\ run[r].reserved \cup {SourceOf(a)} \in SUBSET Sources
        /\ run[r].todo \ {SourceOf(a)} \in SUBSET Sources /\ 1 \in Slots
    BY <1>3, StoreAssumption DEF Pc, Slots
  <2> QED BY <1>2, <1>3, <1>8, <2>1 DEF Run
<1>10. run' = [run EXCEPT ![r] = n] /\ run'[r] = n
  BY <1>1, <1>2, <1>8 DEF Place, Become
<1>11. RunSound(r)'
  BY <1>9, <1>10 DEF RunSound
<1>12. ASSUME ~late
       PROVE  ReadStands(r)'
  <2>1. SlotSources' \subseteq n.reserved
    BY <1>2, <1>4, <1>5, <1>6, <1>9, <1>12 DEF SlotSources
  <2> QED BY <1>9, <1>10, <2>1 DEF ReadStands
<1>13. ASSUME ~late
       PROVE  \A y \in Slots, b \in Angles : Holds(y, b)' <=> Holds(y, b) \/ (y = x /\ b = a)
  BY <1>2, <1>4, <1>5, <1>6, <1>13 DEF Holds
<1>14. ~late => \A y \in Slots : slot[y] # None => SourceOf(slot[y].angle) # SourceOf(a)
  BY <1>4 DEF SlotSources
<1>15. OneSlotPerSource'
  <2> SUFFICES ASSUME ~late, NEW y \in Slots, NEW z \in Slots, y # z, slot'[y] # None, slot'[z] # None
               PROVE  SourceOf(slot'[y].angle) # SourceOf(slot'[z].angle)
    BY <1>2 DEF OneSlotPerSource
  <2>1. CASE x \in {y, z}
    BY <1>5, <1>6, <1>14, <2>1
  <2>2. CASE x \notin {y, z}
    BY <1>6, <2>2 DEF IInv, OneSlotPerSource
  <2> QED BY <2>1, <2>2
<1>16. ASSUME ~late
       PROVE  RecordsStand'
  <2>1. \A t \in told : t[1] \in Angles /\ t[1] # a
    BY <1>4, <1>14, <1>16 DEF IInv, TypeOK, RecordsStand, Holds
  <2>2. \A y \in Slots : slot'[y] # None => \A p \in Platforms : <<slot'[y].angle, p>> \in told => p \in slot'[y].ids
    <3> SUFFICES ASSUME NEW y \in Slots, slot'[y] # None, NEW p \in Platforms, <<slot'[y].angle, p>> \in told
                 PROVE  p \in slot'[y].ids
      OBVIOUS
    <3>1. slot'[y].angle # a
      BY <2>1
    <3>2. slot'[y] = slot[y]
      BY <1>5, <1>6, <3>1
    <3> QED BY <1>16, <3>2 DEF IInv, RecordsStand
  <2>3. \A t \in told : (\E y \in Slots : Holds(y, t[1])') \/ angle'[t[1]] = "published"
    <3>1. \A t \in told : (\E y \in Slots : Holds(y, t[1])) \/ angle[t[1]] = "published"
      BY <1>16 DEF IInv, RecordsStand
    <3> QED BY <1>2, <1>13, <1>16, <2>1, <3>1
  <2> QED BY <1>2, <2>2, <2>3 DEF RecordsStand
<1>17. ASSUME ~late, ~crashed
       PROVE  BooksStand'
  <2>1. /\ \A b \in Angles : (Placing(b) <=> b = a) /\ ~Logging(b)
        /\ \A y \in Slots : ~Leaving(y)
    BY <1>1, <1>2, <1>17, OnlyRun
  <2>2. /\ \A b \in Angles : ~Placing(b)' /\ ~Logging(b)'
        /\ \A y \in Slots : ~Leaving(y)'
    BY <1>2, <1>9, <1>10, <1>17, OnlyRunThen
  <2>3. BooksStand
    BY <1>17 DEF IInv
  <2> QED BY <1>2, <1>3, <1>13, <1>17, <2>1, <2>2, <2>3 DEF BooksStand
<1>18. /\ told' \in SUBSET (Angles \X Platforms) /\ again' \in SUBSET (Angles \X Platforms)
       /\ ~late => again' = {}
  BY <1>2 DEF IInv, TypeOK, RecordedIsNotRepeated
<1> QED
  BY <1>2, <1>7, <1>9, <1>10, <1>11, <1>12, <1>15, <1>16, <1>17, <1>18, InsideKeeps

\* A slot is emptied, and what was recorded of its angle goes with it or is done with.
LEMMA EmptyKeeps ==
  ASSUME IInv, NEW r \in Runs, Inside(r), NEW n \in Run, run' = [run EXCEPT ![r] = n],
         NEW x \in Slots, SetSlot(x, None),
         UNCHANGED <<angle, source, used, history, lock, again, late, crashed>>,
         told' \subseteq told,
         ~late /\ slot[x] # None =>
           angle[slot[x].angle] = "published" \/ \A t \in told' : t[1] # slot[x].angle,
         RunSound(r)', ~late => ReadStands(r)', ~late /\ ~crashed => BooksStand'
  PROVE  IInv'
<1>1. /\ StoreTypeOK /\ told \in SUBSET (Angles \X Platforms) /\ again \in SUBSET (Angles \X Platforms)
      /\ slot \in [Slots -> Item \cup {None}]
  BY DEF IInv, TypeOK, StoreTypeOK
<1>2. slot'[x] = None /\ \A y \in Slots \ {x} : slot'[y] = slot[y]
  BY <1>1 DEF SetSlot
<1>3. StoreTypeOK' /\ ExhaustedMeansSpent' /\ BankedMeansLeft'
  BY <1>1 DEF IInv, StoreTypeOK, SetSlot, ExhaustedMeansSpent, BankedMeansLeft
<1>4. OneSlotPerSource'
  BY <1>2 DEF IInv, OneSlotPerSource
<1>5. ASSUME ~late
      PROVE  RecordsStand'
  <2>1. \A y \in Slots : slot'[y] # None => \A p \in Platforms : <<slot'[y].angle, p>> \in told' => p \in slot'[y].ids
    BY <1>2, <1>5 DEF IInv, RecordsStand
  <2>2. \A t \in told' : (\E y \in Slots : Holds(y, t[1])') \/ angle'[t[1]] = "published"
    <3> SUFFICES ASSUME NEW t \in told', angle[t[1]] # "published"
                 PROVE  \E y \in Slots : Holds(y, t[1])'
      OBVIOUS
    <3>1. PICK y \in Slots : slot[y] # None /\ slot[y].angle = t[1]
      BY <1>5 DEF IInv, RecordsStand, Holds
    <3>2. y # x
      BY <1>5, <3>1
    <3> QED BY <1>2, <3>1, <3>2 DEF Holds
  <2> QED BY <2>1, <2>2 DEF RecordsStand
<1>6. told' \in SUBSET (Angles \X Platforms) /\ again' \in SUBSET (Angles \X Platforms) /\ (~late => again' = {})
  BY <1>1 DEF IInv, RecordedIsNotRepeated
<1> QED
  BY <1>3, <1>4, <1>5, <1>6, InsideKeeps

\* The slot whose post is published or released is the only one with its angle.
LEMMA OnlySlot ==
  ASSUME IInv, ~late, NEW x \in Slots, NEW a \in Angles, Holds(x, a)
  PROVE  \A y \in Slots \ {x} : ~Holds(y, a)
BY DEF IInv, OneSlotPerSource, Holds

\* The slot of a published angle is emptied before its history is written.
LEMMA ClearKeeps ==
  ASSUME IInv, NEW r \in Runs, Clear(r)
  PROVE  IInv'
<1>1. PICK x, item : x = run[r].slot /\ item = run[r].item
  OBVIOUS
<1>2. /\ run \in [Runs -> Run] /\ run[r] \in Run /\ run[r].pc = "clear" /\ Inside(r) /\ (~late => ReadStands(r))
      /\ UNCHANGED <<angle, source, used, history, lock, told, again, late, crashed>> /\ RunSound(r)
      /\ slot \in [Slots -> Item \cup {None}] /\ SetSlot(x, None) /\ Goto(r, "log")
  BY <1>1 DEF IInv, TypeOK, StoreTypeOK, Clear, At, Inside, ghosts
<1>3. /\ x \in Slots /\ item \in Item /\ item.angle \in Angles /\ run[r].todo \subseteq Slots
      /\ ~late => Holds(x, item.angle) /\ angle[item.angle] = "published"
  BY <1>1, <1>2 DEF RunSound, ReadStands, Run, Item
<1>4. PICK n \in Run :
         /\ run' = [run EXCEPT ![r] = n] /\ run'[r] = n /\ n.pc = "log" /\ n.todo = run[r].todo
         /\ n.slot = run[r].slot /\ n.item = run[r].item /\ n.angle = run[r].angle
         /\ n.reserved = run[r].reserved /\ n.from = run[r].from
  BY <1>2, GotoMoves DEF Pc
<1>5. slot'[x] = None /\ \A y \in Slots \ {x} : slot'[y] = slot[y]
  BY <1>2, <1>3 DEF SetSlot
<1>6. RunSound(r)'
  BY <1>1, <1>3, <1>4 DEF RunSound
<1>7. ASSUME ~late
      PROVE  /\ \A y \in Slots : ~Holds(y, item.angle)'
             /\ \A y \in Slots, a \in Angles : a # item.angle => (Holds(y, a)' <=> Holds(y, a))
  <2>1. \A y \in Slots \ {x} : ~Holds(y, item.angle)
    BY <1>3, <1>7, OnlySlot
  <2> QED BY <1>3, <1>5, <1>7, <2>1 DEF Holds
<1>8. ~late => ReadStands(r)'
  BY <1>1, <1>2, <1>3, <1>4, <1>7 DEF ReadStands
<1>9. ASSUME ~late, ~crashed
      PROVE  BooksStand'
  <2>1. /\ \A a \in Angles : ~Placing(a) /\ (Logging(a) <=> a = item.angle)
        /\ \A y \in Slots : Leaving(y) <=> y = x
    BY <1>1, <1>2, <1>9, OnlyRun
  <2>2. /\ \A a \in Angles : ~Placing(a)' /\ (Logging(a)' <=> a = item.angle)
        /\ \A y \in Slots : ~Leaving(y)'
    <3>1. n.pc = "log" /\ n.item = item
      BY <1>1, <1>4
    <3>2. /\ \A a \in Angles : /\ Placing(a)' <=> n.pc = "place" /\ n.angle = a
                               /\ Logging(a)' <=> n.pc \in {"clear", "log"} /\ n.item.angle = a
          /\ \A y \in Slots : Leaving(y)' <=> n.pc \in {"clear", "drop"} /\ n.slot = y
      BY <1>2, <1>4, <1>9, OnlyRunThen
    <3> QED BY <3>1, <3>2
  <2>3. BooksStand /\ Holds(x, item.angle)
    BY <1>3, <1>9 DEF IInv
  <2>4. \A y \in Slots, a \in Angles : a # item.angle /\ Holds(y, a) => y # x
    BY <2>3 DEF Holds
  <2> QED BY <1>2, <1>3, <1>7, <1>9, <2>1, <2>2, <2>3, <2>4 DEF BooksStand
<1>10. ~late /\ slot[x] # None => angle[slot[x].angle] = "published"
  BY <1>3 DEF Holds
<1> QED
  BY <1>2, <1>3, <1>4, <1>6, <1>8, <1>9, <1>10, EmptyKeeps

\* The slot of an angle that was given back is emptied, with the ids it knew.
LEMMA DropKeeps ==
  ASSUME IInv, NEW r \in Runs, Drop(r)
  PROVE  IInv'
<1>1. PICK x : x = run[r].slot
  OBVIOUS
<1>2. /\ run \in [Runs -> Run] /\ run[r] \in Run /\ run[r].pc = "drop" /\ Inside(r) /\ x \in Slots
      /\ UNCHANGED <<angle, source, used, history, lock, again, late, crashed>>
      /\ slot \in [Slots -> Item \cup {None}] /\ SetSlot(x, None) /\ End(r)
      /\ told' = told \ {t \in told : slot[x] # None /\ t[1] = slot[x].angle}
  BY <1>1 DEF IInv, TypeOK, StoreTypeOK, Drop, At, Inside, Run
<1>3. PICK n \in Run : /\ run' = [run EXCEPT ![r] = n] /\ n.pc \in {"done", "look"}
                       /\ RunSound(r)' /\ ReadStands(r)'
  BY <1>2, Leaves
<1>4. slot'[x] = None /\ \A y \in Slots \ {x} : slot'[y] = slot[y]
  BY <1>2 DEF SetSlot
<1>5. ASSUME ~late, ~crashed
      PROVE  BooksStand'
  <2>1. /\ \A a \in Angles : ~Placing(a) /\ ~Logging(a)
        /\ \A y \in Slots : Leaving(y) <=> y = x
    BY <1>1, <1>2, <1>5, OnlyRun
  <2>2. /\ \A a \in Angles : ~Placing(a)' /\ ~Logging(a)'
        /\ \A y \in Slots : ~Leaving(y)'
    BY <1>2, <1>3, <1>5, OnlyRunThen
  <2>3. \A y \in Slots, a \in Angles : Holds(y, a)' <=> Holds(y, a) /\ y # x
    BY <1>4 DEF Holds
  <2>4. BooksStand
    BY <1>5 DEF IInv
  <2> QED BY <1>2, <2>1, <2>2, <2>3, <2>4 DEF BooksStand
<1> QED
  BY <1>2, <1>3, <1>5, EmptyKeeps

\* What was posted is logged: from here on the history knows that the angle is done with.
LEMMA LogHistoryKeeps ==
  ASSUME IInv, NEW r \in Runs, LogHistory(r)
  PROVE  IInv'
<1>1. PICK item : item = run[r].item
  OBVIOUS
<1>2. /\ run \in [Runs -> Run] /\ run[r].pc = "log" /\ Inside(r) /\ (~late => ReadStands(r)) /\ RunSound(r)
      /\ UNCHANGED <<angle, source, used, slot, lock, again, late, crashed>> /\ StoreTypeOK
      /\ history' = history \cup {item.angle} /\ told' = told \cup PostsOf(item)
      /\ SlotDone(r, run[r].slot) /\ told \in SUBSET (Angles \X Platforms) /\ again \in SUBSET (Angles \X Platforms)
  BY <1>1 DEF IInv, TypeOK, LogHistory, At, Inside
<1>3. /\ item \in Item /\ item.angle \in Angles /\ run[r].todo \subseteq Slots
      /\ ~late => /\ angle[item.angle] = "published" /\ \A x \in Slots : ~Holds(x, item.angle)
  BY <1>1, <1>2 DEF RunSound, ReadStands, Item
<1>4. PICK n \in Run : /\ run' = [run EXCEPT ![r] = n] /\ n.pc \in {"done", "look"}
                       /\ RunSound(r)' /\ ReadStands(r)'
  BY <1>2, <1>3, Leaves
<1>5. /\ told' \in SUBSET (Angles \X Platforms) /\ \A t \in told' : t \in told \/ t[1] = item.angle
  <2>1. \A t \in PostsOf(item) : t \in Angles \X Platforms /\ t[1] = item.angle
    BY <1>3 DEF PostsOf, Item
  <2> QED BY <1>2, <2>1
<1>6. StoreTypeOK' /\ ExhaustedMeansSpent' /\ BankedMeansLeft' /\ OneSlotPerSource'
  BY <1>2, <1>3 DEF IInv, StoreTypeOK, ExhaustedMeansSpent, BankedMeansLeft, OneSlotPerSource
<1>7. ASSUME ~late
      PROVE  RecordsStand'
  <2>1. \A x \in Slots : slot[x] # None => \A p \in Platforms : <<slot[x].angle, p>> \in told' => p \in slot[x].ids
    <3> SUFFICES ASSUME NEW x \in Slots, slot[x] # None, NEW p \in Platforms, <<slot[x].angle, p>> \in told'
                 PROVE  p \in slot[x].ids
      OBVIOUS
    <3>1. slot[x].angle # item.angle
      BY <1>3, <1>7 DEF Holds
    <3>2. <<slot[x].angle, p>> \in told
      BY <1>5, <3>1
    <3> QED BY <1>7, <3>2 DEF IInv, RecordsStand
  <2>2. \A t \in told' : (\E x \in Slots : Holds(x, t[1])) \/ angle[t[1]] = "published"
    BY <1>3, <1>5, <1>7 DEF IInv, RecordsStand
  <2> QED BY <1>2, <2>1, <2>2 DEF RecordsStand, Holds
<1>8. ASSUME ~late, ~crashed
      PROVE  BooksStand'
  <2>1. /\ \A a \in Angles : ~Placing(a) /\ (Logging(a) <=> a = item.angle)
        /\ \A x \in Slots : ~Leaving(x)
    BY <1>1, <1>2, <1>8, OnlyRun
  <2>2. /\ \A a \in Angles : ~Placing(a)' /\ ~Logging(a)'
        /\ \A x \in Slots : ~Leaving(x)'
    BY <1>2, <1>4, <1>8, OnlyRunThen
  <2>3. BooksStand
    BY <1>8 DEF IInv
  <2> QED BY <1>2, <2>1, <2>2, <2>3 DEF BooksStand, Holds
<1>9. ~late => again' = {}
  BY <1>2 DEF IInv, RecordedIsNotRepeated
<1> QED
  BY <1>2, <1>4, <1>5, <1>6, <1>7, <1>8, <1>9, InsideKeeps

\* The angle of the slot is given back, and stays given back once the slot is emptied.
LEMMA ReleaseKeeps ==
  ASSUME IInv, NEW r \in Runs, Release(r)
  PROVE  IInv'
<1>1. PICK x, item : x = run[r].slot /\ item = slot[x]
  OBVIOUS
<1>2. /\ run \in [Runs -> Run] /\ run[r] \in Run /\ run[r].pc = "release" /\ Inside(r) /\ x \in Slots
      /\ UNCHANGED <<slot, history, lock, told, again, late, crashed>> /\ item \in Item \cup {None}
      /\ told \in SUBSET (Angles \X Platforms) /\ StoreTypeOK
  BY <1>1 DEF IInv, TypeOK, StoreTypeOK, Release, At, Inside, ghosts, Run
<1>3. again' \in SUBSET (Angles \X Platforms) /\ (~late => again' = {})
  BY <1>2 DEF IInv, TypeOK, RecordedIsNotRepeated
<1>4. CASE End(r) /\ UNCHANGED <<angle, source, used>>
  <2>1. PICK n \in Run : /\ run' = [run EXCEPT ![r] = n] /\ n.pc \in {"done", "look"}
                         /\ RunSound(r)' /\ ReadStands(r)'
    BY <1>4, Leaves
  <2> QED BY <1>2, <1>3, <1>4, <2>1, QuietKeeps
<1>5. ASSUME item # None, Goto(r, "drop"),
             \/ angle[item.angle] = "queued" /\ MarkAngle(item.angle, "ready")
             \/ angle[item.angle] # "queued" /\ UNCHANGED <<angle, source, used>>
      PROVE  IInv'
  <2>1. PICK n \in Run :
           /\ run' = [run EXCEPT ![r] = n] /\ run'[r] = n /\ n.pc = "drop" /\ n.todo = run[r].todo
           /\ n.slot = run[r].slot /\ n.item = run[r].item /\ n.angle = run[r].angle
           /\ n.reserved = run[r].reserved /\ n.from = run[r].from
    BY <1>5, GotoMoves DEF Pc
  <2>2. RunSound(r)' /\ ReadStands(r)'
    BY <1>1, <1>2, <1>5, <2>1 DEF RunSound, ReadStands
  <2>3. item \in Item /\ item.angle \in Angles /\ Holds(x, item.angle)
    BY <1>1, <1>2, <1>5 DEF Item, Holds
  <2>4. ASSUME ~late, ~crashed
        PROVE  /\ \A a \in Angles : /\ ~Placing(a) /\ ~Placing(a)'
                                    /\ ~Logging(a) /\ ~Logging(a)'
               /\ \A y \in Slots : ~Leaving(y) /\ (Leaving(y)' <=> y = x)
               /\ BooksStand
    <3>1. /\ \A a \in Angles : ~Placing(a) /\ ~Logging(a)
          /\ \A y \in Slots : ~Leaving(y)
      BY <1>2, <2>4, OnlyRun
    <3>2. /\ \A a \in Angles : /\ Placing(a)' <=> n.pc = "place" /\ n.angle = a
                               /\ Logging(a)' <=> n.pc \in {"clear", "log"} /\ n.item.angle = a
          /\ \A y \in Slots : Leaving(y)' <=> n.pc \in {"clear", "drop"} /\ n.slot = y
      BY <1>2, <2>1, <2>4, OnlyRunThen
    <3>3. BooksStand
      BY <2>4 DEF IInv
    <3> QED BY <1>1, <2>1, <3>1, <3>2, <3>3
  <2>5. CASE angle[item.angle] = "queued" /\ MarkAngle(item.angle, "ready")
    <3>1. angle'[item.angle] = "ready" /\ \A b \in Angles \ {item.angle} : angle'[b] = angle[b]
      BY <2>3, <2>5, MarkAngleKeeps DEF IInv, TypeOK
    <3>2. ASSUME ~late, ~crashed
          PROVE  BooksStand'
      <4>1. \A y \in Slots \ {x} : ~Holds(y, item.angle)
        BY <1>2, <2>3, <3>2, OnlySlot
      <4>2. \A y \in Slots, b \in Angles : (Holds(y, b)' <=> Holds(y, b)) /\ (b # item.angle /\ Holds(y, b) => y # x)
        BY <1>2, <2>3 DEF Holds
      <4>3. SUFFICES ASSUME NEW b \in Angles
                     PROVE  /\ angle'[b] = "queued" <=> Placing(b)' \/ \E y \in Slots : Holds(y, b)' /\ ~Leaving(y)'
                            /\ angle'[b] = "published" <=> Logging(b)' \/ b \in history'
        BY DEF BooksStand
      <4>4. /\ angle[b] = "queued" <=> \E y \in Slots : Holds(y, b)
            /\ angle[b] = "published" <=> b \in history
        BY <2>4, <3>2 DEF BooksStand
      <4>5. CASE b = item.angle
        BY <1>2, <2>4, <2>5, <3>1, <3>2, <4>1, <4>2, <4>4, <4>5
      <4>6. CASE b # item.angle
        BY <1>2, <2>4, <3>1, <3>2, <4>2, <4>4, <4>6
      <4> QED BY <4>5, <4>6
    <3>3. angle[item.angle] # "published"
      BY <2>5
    <3> QED BY <1>2, <2>1, <2>2, <2>3, <2>5, <3>2, <3>3, MarkKeeps
  <2>6. CASE angle[item.angle] # "queued" /\ UNCHANGED <<angle, source, used>>
    <3>1. StoreTypeOK' /\ ExhaustedMeansSpent' /\ BankedMeansLeft' /\ OneSlotPerSource'
      BY <1>2, <2>6 DEF IInv, StoreTypeOK, ExhaustedMeansSpent, BankedMeansLeft, OneSlotPerSource
    <3>2. ~late => RecordsStand'
      BY <1>2, <2>6 DEF IInv, RecordsStand, Holds
    <3>3. ASSUME ~late, ~crashed
          PROVE  FALSE
      <4>1. angle[item.angle] = "queued" <=> \E y \in Slots : Holds(y, item.angle) /\ ~Leaving(y)
        BY <2>3, <2>4, <3>3 DEF BooksStand
      <4> QED BY <1>2, <2>3, <2>4, <2>6, <3>3, <4>1
    <3>4. told' \in SUBSET (Angles \X Platforms)
      BY <1>2
    <3> QED BY <1>2, <1>3, <2>1, <2>2, <3>1, <3>2, <3>3, <3>4, InsideKeeps
  <2> QED BY <1>5, <2>5, <2>6
<1> QED
  BY <1>1, <1>4, <1>5 DEF Release

\* Every platform was attempted: the angle is published and its slot emptied next, or
\* the item is written back with what it knows.
LEMMA SettleKeeps ==
  ASSUME IInv, NEW r \in Runs, Settle(r)
  PROVE  IInv'
<1>1. PICK x, item : x = run[r].slot /\ item = run[r].item
  OBVIOUS
<1>2. /\ run \in [Runs -> Run] /\ run[r] \in Run /\ run[r].pc = "publish" /\ Inside(r) /\ (~late => ReadStands(r))
      /\ UNCHANGED <<history, lock, again, late, crashed>> /\ RunSound(r)
  BY DEF IInv, TypeOK, Settle, At, Inside
<1>3. /\ run[r].todo \subseteq Slots /\ item \in Item /\ item.angle \in Angles /\ x \in Slots
      /\ ~late => Holds(x, item.angle) /\ slot[x].ids \subseteq item.ids
  BY <1>1, <1>2 DEF RunSound, ReadStands, Run, Item
<1>4. CASE MarkAngle(item.angle, "published") /\ Goto(r, "clear") /\ UNCHANGED <<slot, told>>
  <2>1. PICK n \in Run :
           /\ run' = [run EXCEPT ![r] = n] /\ run'[r] = n /\ n.pc = "clear" /\ n.todo = run[r].todo
           /\ n.slot = run[r].slot /\ n.item = run[r].item /\ n.angle = run[r].angle
           /\ n.reserved = run[r].reserved /\ n.from = run[r].from
    BY <1>4, GotoMoves DEF Pc
  <2>2. RunSound(r)'
    BY <1>1, <1>3, <2>1 DEF RunSound
  <2>3. angle'[item.angle] = "published" /\ \A b \in Angles \ {item.angle} : angle'[b] = angle[b]
    BY <1>3, <1>4, MarkAngleKeeps DEF IInv, TypeOK
  <2>4. ~late => ReadStands(r)'
    BY <1>1, <1>2, <1>3, <1>4, <2>1, <2>3 DEF ReadStands, Holds
  <2>5. ASSUME ~late, ~crashed
        PROVE  BooksStand'
    <3>1. /\ \A a \in Angles : ~Placing(a) /\ ~Logging(a)
          /\ \A y \in Slots : ~Leaving(y)
      BY <1>2, <2>5, OnlyRun
    <3>2. /\ \A a \in Angles : /\ Placing(a)' <=> n.pc = "place" /\ n.angle = a
                               /\ Logging(a)' <=> n.pc \in {"clear", "log"} /\ n.item.angle = a
          /\ \A y \in Slots : Leaving(y)' <=> n.pc \in {"clear", "drop"} /\ n.slot = y
      BY <1>2, <2>1, <2>5, OnlyRunThen
    <3>3. /\ \A a \in Angles : ~Placing(a)' /\ (Logging(a)' <=> a = item.angle)
          /\ \A y \in Slots : Leaving(y)' <=> y = x
      BY <1>1, <2>1, <3>2
    <3>4. BooksStand
      BY <2>5 DEF IInv
    <3>5. \A y \in Slots \ {x} : ~Holds(y, item.angle)
      BY <1>3, <2>5, OnlySlot
    <3>6. \A y \in Slots, b \in Angles : (Holds(y, b)' <=> Holds(y, b)) /\ (b # item.angle /\ Holds(y, b) => y # x)
      BY <1>3, <1>4, <2>5 DEF Holds
    <3>7. SUFFICES ASSUME NEW b \in Angles
                   PROVE  /\ angle'[b] = "queued" <=> Placing(b)' \/ \E y \in Slots : Holds(y, b)' /\ ~Leaving(y)'
                          /\ angle'[b] = "published" <=> Logging(b)' \/ b \in history'
      BY DEF BooksStand
    <3>8. /\ angle[b] = "queued" <=> \E y \in Slots : Holds(y, b)
          /\ angle[b] = "published" <=> b \in history
      BY <3>1, <3>4 DEF BooksStand
    <3>9. CASE b = item.angle
      BY <2>3, <3>3, <3>5, <3>6, <3>9
    <3>10. CASE b # item.angle
      BY <1>2, <2>3, <3>3, <3>6, <3>8, <3>10
    <3> QED BY <3>9, <3>10
  <2> QED BY <1>2, <1>3, <1>4, <2>1, <2>2, <2>4, <2>5, MarkKeeps
<1>5. CASE SetSlot(x, item) /\ UNCHANGED <<angle, source, used>> /\ told' = told \cup PostsOf(item) /\ SlotDone(r, x)
  <2>1. PICK n \in Run : /\ run' = [run EXCEPT ![r] = n] /\ n.pc \in {"done", "look"}
                         /\ RunSound(r)' /\ ReadStands(r)'
    BY <1>3, <1>5, Leaves
  <2>2. /\ ~late => slot[x] # None /\ slot[x].angle = item.angle /\ slot[x].ids \subseteq item.ids
        /\ told \subseteq told' /\ told' \subseteq told \cup PostsOf(item)
    BY <1>3, <1>5 DEF Holds
  <2> QED BY <1>2, <1>3, <1>5, <2>1, <2>2, ItemKeeps
<1> QED
  BY <1>1, <1>4, <1>5 DEF Settle

----------------------------------------------------------------------------
(* The theorems *)

\* The first start, with or without files of an earlier release.
LEMMA InitIsSound == Init => IInv
<1> SUFFICES ASSUME Init
             PROVE  IInv
  OBVIOUS
<1>1. /\ angle = [a \in Angles |-> IF a \in Legacy THEN "ready" ELSE "none"]
      /\ source = [s \in Sources |->
           IF \E a \in Legacy : SourceOf(a) = s
           THEN [status |-> "banked", hash |-> HashOf(CHOOSE a \in Legacy : SourceOf(a) = s), summary |-> FALSE]
           ELSE [status |-> "none", hash |-> None, summary |-> FALSE]]
      /\ used \in SUBSET {s \in Sources : source[s].status = "none"}
      /\ slot = [x \in Slots |-> None] /\ history = {} /\ lock = None /\ run = [r \in Runs |-> Idle]
      /\ told = {} /\ again = {} /\ late = FALSE /\ crashed = FALSE
  BY DEF Init, StoreInit
<1>2. Legacy \subseteq Angles
  BY StoreAssumption
<1>3. ASSUME NEW s \in Sources
      PROVE  /\ source[s] \in Source /\ source[s].status # "exhausted"
             /\ source[s].status = "banked" => \E a \in Legacy : SourceOf(a) = s
  <2>1. CASE \E a \in Legacy : SourceOf(a) = s
    <3>1. PICK a : a = CHOOSE b \in Legacy : SourceOf(b) = s
      OBVIOUS
    <3>2. a \in Legacy /\ SourceOf(a) = s
      BY <2>1, <3>1
    <3>3. HashOf(a) \in Hashes
      BY <1>2, <3>2, AngleParts
    <3>4. source[s] = [status |-> "banked", hash |-> HashOf(a), summary |-> FALSE]
      BY <1>1, <1>3, <2>1, <3>1
    <3> QED BY <2>1, <3>3, <3>4 DEF Source
  <2>2. CASE ~\E a \in Legacy : SourceOf(a) = s
    <3>1. source[s] = [status |-> "none", hash |-> None, summary |-> FALSE]
      BY <1>1, <1>3, <2>2
    <3> QED BY <3>1 DEF Source
  <2> QED BY <2>1, <2>2
<1>4. source \in [Sources -> Source]
  BY <1>1, <1>3
<1>5. StoreTypeOK
  BY <1>1, <1>4 DEF StoreTypeOK
<1>6. TypeOK
  BY <1>1, <1>5, IdleRun DEF TypeOK
<1>7. ExhaustedMeansSpent
  BY <1>3 DEF ExhaustedMeansSpent
<1>8. BankedMeansLeft
  BY <1>1, <1>2, <1>3 DEF BankedMeansLeft, HasActive, IsActive
<1>9. \A r \in Runs : run[r].pc = "idle"
  BY <1>1, IdleRun
<1>10. Alone /\ \A r \in Runs : RunSound(r) /\ ReadStands(r)
  BY <1>9 DEF Alone, Inside, RunSound, ReadStands
<1>11. OneSlotPerSource /\ RecordedIsNotRepeated /\ RecordsStand
  BY <1>1 DEF OneSlotPerSource, RecordedIsNotRepeated, RecordsStand
<1>12. BooksStand
  BY <1>1, <1>9 DEF BooksStand, Placing, Logging, At, Holds
<1> QED
  BY <1>6, <1>7, <1>8, <1>10, <1>11, <1>12 DEF IInv

\* A step of the system, or none.
LEMMA NextKeeps == IInv /\ [Next]_vars => IInv'
<1> SUFFICES ASSUME IInv, [Next]_vars
             PROVE  IInv'
  OBVIOUS
<1>1. ASSUME NEW r \in Runs, Works(r)
      PROVE  IInv'
  BY <1>1, FinishKeeps, LookKeeps, HydrateKeeps, ReserveKeeps, BankKeeps, FetchedKeeps, PostKeeps, ExtractKeeps,
     DraftedKeeps, PlaceKeeps, PublishKeeps, SettleKeeps, ClearKeeps, LogHistoryKeeps, ReleaseKeeps, DropKeeps,
     UpdateKeeps DEF Works
<1>2. ASSUME NEW r \in Runs, Crash(r)
      PROVE  IInv'
  BY <1>2, CrashKeeps
<1>3. ASSUME NEW r \in Runs, NEW kind \in Kind, NEW targets \in {Slots} \cup {{x} : x \in Slots},
             Start(r, kind, targets)
      PROVE  IInv'
  BY <1>3, StartKeeps
<1>4. CASE Expire
  BY <1>4, ExpireKeeps
<1>5. CASE UNCHANGED vars
  <2>1. UNCHANGED <<angle, source, used, slot, history, lock, run, told, again, late, crashed>>
    BY <1>5 DEF vars, store
  <2>2. TypeOK' /\ ExhaustedMeansSpent' /\ BankedMeansLeft' /\ OneSlotPerSource' /\ RecordedIsNotRepeated'
    BY <2>1 DEF IInv, TypeOK, StoreTypeOK, ExhaustedMeansSpent, BankedMeansLeft, OneSlotPerSource,
                RecordedIsNotRepeated
  <2>3. (\A r \in Runs : RunSound(r)') /\ (~late' => Alone' /\ \A r \in Runs : ReadStands(r)')
    BY <2>1 DEF IInv, RunSound, Alone, Inside, ReadStands, SlotSources, Holds
  <2>4. (~late' => RecordsStand') /\ (~late' /\ ~crashed' => BooksStand')
    BY <2>1 DEF IInv, RecordsStand, BooksStand, Holds, Placing, Leaving, Logging, At
  <2> QED BY <2>2, <2>3, <2>4 DEF IInv
<1> QED
  BY <1>1, <1>2, <1>3, <1>4, <1>5 DEF Next

\* Types, the rules of the store and, as long as no run has outlived its lock, all that a
\* run relies on between its awaits (automation-service.ts, content-engine.ts, publish.ts).
THEOREM LocalInvariance == Spec => []IInv
<1>1. Init => IInv
  BY InitIsSound
<1>2. IInv /\ [Next]_vars => IInv'
  BY NextKeeps
<1> QED
  BY <1>1, <1>2, PTL DEF Spec

\* Two slots never hold posts of one source while no run outlives its lock, whatever
\* crashes (content-engine.ts getReservedSourceIds, queueAngleIntoSlot, releaseSlot).
THEOREM SlotsStayDistinct == Spec => []OneSlotPerSource
<1>1. IInv => OneSlotPerSource
  BY DEF IInv
<1> QED
  BY <1>1, LocalInvariance, PTL

\* Between undisturbed runs angles, slots and history agree, though every run writes them
\* in separate transactions (content-engine.ts queueAngleIntoSlot, finalizePublishResult, releaseSlot).
THEOREM BooksStayTogether == Spec => []BooksAgree
<1>1. IInv => BooksAgree
  <2> SUFFICES ASSUME IInv, ~late, ~crashed, \A r \in Runs : ~Inside(r), NEW a \in Angles
               PROVE  /\ angle[a] = "queued" <=> \E x \in Slots : Holds(x, a)
                      /\ angle[a] = "published" <=> a \in history
    BY DEF BooksAgree
  <2>1. ~Placing(a) /\ ~Logging(a) /\ \A x \in Slots : ~Leaving(x)
    BY DEF Inside, Placing, Logging, Leaving, At
  <2> QED BY <2>1 DEF IInv, BooksStand
<1> QED
  BY <1>1, LocalInvariance, PTL

\* What was recorded as posted is not posted again, across crashes and retries, unless its
\* slot was released (publish.ts publishQueuedItem, content-engine.ts finalizePublishResult).
THEOREM RecordedStaysUnrepeated == Spec => []RecordedIsNotRepeated
<1>1. IInv => RecordedIsNotRepeated
  BY DEF IInv
<1> QED
  BY <1>1, LocalInvariance, PTL

=============================================================================
