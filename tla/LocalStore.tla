---------------------------- MODULE LocalStore ----------------------------
(***************************************************************************)
(* src/store.ts: the tables of the local runtime's SQLite file that its    *)
(* automation reads and writes, each function as the transaction it is.    *)
(* An angle is <<source, hash, number>>: it belongs to one revision of the *)
(* source's content.  A slot's item keeps the angle it was drafted from,   *)
(* the platforms it has a text for and those it has been posted to.        *)
(***************************************************************************)
EXTENDS Naturals, Sequences, FiniteSets

CONSTANTS
    NSlots,         \* slots, in the order of the day
    Sources,        \* collected posts
    Hashes,         \* revisions of their content
    Angles,         \* the angles that extraction may find
    Legacy,         \* angles imported from JSON files without a summary
    PlatformSteps,  \* the platforms in publishing order
    None

Slots == 1..NSlots
Platforms == {PlatformSteps[i] : i \in DOMAIN PlatformSteps}

ASSUME StoreAssumption ==
    /\ NSlots \in Nat \ {0} /\ Angles \subseteq Sources \X Hashes \X Nat /\ Legacy \subseteq Angles
    /\ PlatformSteps \in Seq(Platforms) /\ None \notin Angles

SourceOf(a) == a[1]
HashOf(a) == a[2]

VARIABLES
    angle,     \* app_angles: the status of each angle
    source,    \* app_sources
    used,      \* app_used_ids
    slot,      \* app_queue
    history,   \* app_history: the angles whose batches were logged
    lock       \* app_automation_locks: the owner of 'automation:run'

store == <<angle, source, used, slot, history, lock>>

Item == [angle : Angles, drafted : SUBSET Platforms, ids : SUBSET Platforms]
Source == [status : {"none", "banked", "exhausted"}, hash : Hashes \cup {None}, summary : BOOLEAN]

StoreTypeOK ==
    /\ angle \in [Angles -> {"none", "ready", "queued", "published", "discarded"}]
    /\ source \in [Sources -> Source] /\ used \in SUBSET Sources
    /\ slot \in [Slots -> Item \cup {None}] /\ history \in SUBSET Angles

\* importLegacyDataIfNeeded: files from before summaries were kept, or nothing.
StoreInit ==
    /\ angle = [a \in Angles |-> IF a \in Legacy THEN "ready" ELSE "none"]
    /\ source = [s \in Sources |->
         IF \E a \in Legacy : SourceOf(a) = s
         THEN [status |-> "banked", hash |-> HashOf(CHOOSE a \in Legacy : SourceOf(a) = s), summary |-> FALSE]
         ELSE [status |-> "none", hash |-> None, summary |-> FALSE]]
    /\ used \in SUBSET {s \in Sources : source[s].status = "none"}
    /\ slot = [x \in Slots |-> None] /\ history = {} /\ lock = None

----------------------------------------------------------------------------
(* Reading *)

First(slots) == {x \in slots : \A y \in slots : x <= y}
OpenSlots == {x \in Slots : slot[x] = None}
SlotSources == {SourceOf(slot[x].angle) : x \in {y \in Slots : slot[y] # None}}
IsActive(status) == status \in {"ready", "queued"}
HasActive(angles, s) == \E a \in Angles : SourceOf(a) = s /\ IsActive(angles[a])
ReadyAngles(excluded) == {a \in Angles : angle[a] = "ready" /\ SourceOf(a) \notin excluded}
ReadyOf(angles, s, h) == {a \in Angles : angles[a] = "ready" /\ SourceOf(a) = s /\ HashOf(a) = h}
IsExhausted(s, h) ==
    IF source[s].status = "none" THEN s \in used
    ELSE source[s].hash = h /\ source[s].status = "exhausted"

----------------------------------------------------------------------------
(* Writing *)

StatusFor(isActive) == IF isActive THEN "banked" ELSE "exhausted"
MarkUsed(sources) == used' = used \cup {s \in DOMAIN sources : sources[s].status = "exhausted"}

\* Slip: the source is left as it was.
MarkAngleOnly(a, status) == angle' = [angle EXCEPT ![a] = status] /\ UNCHANGED <<source, used>>

\* markAngleQueued, releaseQueuedAngle, discardAngle and markAnglePublished all
\* leave the source banked exactly if some angle of it is still active.
MarkAngle(a, status) ==
    /\ angle' = [angle EXCEPT ![a] = status]
    /\ source' = [source EXCEPT ![SourceOf(a)].status = StatusFor(HasActive(angle', SourceOf(a)))]
    /\ MarkUsed(source')

\* bankSourceExtraction: angles of this revision that are already known win
\* over the ones that were just extracted.
BankExtraction(s, h, fresh) ==
    LET known == {a \in Angles : SourceOf(a) = s /\ HashOf(a) = h /\ angle[a] # "none"}
        angles == [a \in Angles |-> IF known = {} /\ a \in fresh THEN "ready" ELSE angle[a]]
        isActive == \E a \in known \cup fresh : HashOf(a) = h /\ IsActive(angles[a])
    IN  /\ angle' = angles
        /\ source' = [source EXCEPT ![s] = [status |-> StatusFor(isActive), hash |-> h, summary |-> TRUE]]
        /\ MarkUsed(source')

SetSlot(x, item) == slot' = [slot EXCEPT ![x] = item]
=============================================================================
