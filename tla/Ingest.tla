------------------------------- MODULE Ingest -------------------------------
(***************************************************************************)
(* Posts that arrive from outside (src/browser-collector-ingest.ts,        *)
(* src/reddit-connector.ts): a browser extension is paired with a one-use  *)
(* code, its device token stands for its user, and batches of records go   *)
(* through the same checks, whether a device or the signed collector sends *)
(* them: the source of a record has to be the user's and enabled, rows the *)
(* database already has are looked up, and the rest is inserted at once.   *)
(*                                                                         *)
(* Every step that awaits the database is an action, but for the checks of *)
(* a batch's sources, which are one.  What a check leaves of a batch is    *)
(* the batch at part of its positions.  A record is known by up to three   *)
(* keys (url, reddit_post_id, content_hash), and by the source it claims   *)
(* to come from.  The pairing codes have been made before; the signed      *)
(* collector runs as it does locally, without a canary.  Not in the model: *)
(* signatures and time windows, the format checks of a record, its author  *)
(* (a source that would not accept the author is one that is not enabled), *)
(* listings of sources, when a device was last seen.                       *)
(***************************************************************************)
EXTENDS Naturals, FiniteSets, Functions

CONSTANTS
    Code,        \* pairing codes
    Attempt,     \* pair requests
    Request,     \* record batches on their way
    Record,      \* records that collectors see
    Keys,        \* the keys of a record, as <<kind, value>>
    Source,      \* the source a record names
    Sources,     \* user_sources
    UserOf,      \* whose a code or a source is
    Allowed,     \* users of the canary list
    MaxRecords,  \* connectorMaxPosts, parseMaxRecords
    Null

Kind == {"url", "reddit_post_id", "content_hash"}

\* A record has finitely many keys, and each is of a kind.
ASSUME IngestAssumption ==
    /\ \A r \in Record : IsFiniteSet(Keys[r]) /\ \A key \in Keys[r] : key[1] \in Kind
    /\ MaxRecords \in Nat

VARIABLES
    code,        \* reddit_connector_pairing_codes: used, expired
    pair,        \* a pair request: where it is, and the code it has read
    device,      \* reddit_connector_devices: a device is named by its pair request
    enabled,     \* the sources that are enabled
    rows,        \* source_records, as a set of <<user, record, request>>
    batch,       \* a batch: where it is, who sends it, what is left of it
    raced        \* users for whom two batches have overlapped

pairVars == <<code, pair, device>>
batchVars == <<enabled, rows, batch, raced>>
ingestVars == <<pairVars, batchVars>>

----------------------------------------------------------------------------
(* Pairing *)

\* pairConnector: the code is looked up ...
Lookup(q, c) ==
    /\ pair[q].pc = "idle"
    /\ ~code[c].used /\ ~code[c].expired /\ UserOf[c] \in Allowed
    /\ pair' = [pair EXCEPT ![q] = [pc |-> "claim", code |-> c]]
    /\ UNCHANGED <<code, device, batchVars>>

\* ... claimed if it still is what it was ...
Claim(q) ==
    LET c == code[pair[q].code]
    IN  /\ pair[q].pc = "claim"
        /\ IF ~c.used /\ ~c.expired
           THEN /\ code' = [code EXCEPT ![pair[q].code].used = TRUE]
                /\ pair' = [pair EXCEPT ![q].pc = "insert"]
           ELSE /\ pair' = [pair EXCEPT ![q].pc = "ended"]
                /\ UNCHANGED code
        /\ UNCHANGED <<device, batchVars>>

\* ... and exchanged for a device, unless the insert fails.
Issue(q) ==
    /\ pair[q].pc = "insert"
    /\ \/ device' = [device EXCEPT ![q] = "paired"]
       \/ UNCHANGED device
    /\ pair' = [pair EXCEPT ![q].pc = "ended"]
    /\ UNCHANGED <<code, batchVars>>

Expire(c) ==
    /\ ~code[c].expired
    /\ code' = [code EXCEPT ![c].expired = TRUE]
    /\ UNCHANGED <<pair, device, batchVars>>

DeviceUser(d) == UserOf[pair[d].code]

\* revokeUserDevices; the disconnect of a device revokes that one.
Revoke(D) ==
    /\ D # {} /\ \A d \in D : device[d] # "none"
    /\ device' = [d \in Attempt |-> IF d \in D THEN "revoked" ELSE device[d]]
    /\ UNCHANGED <<code, pair, batchVars>>
----------------------------------------------------------------------------
(* A batch of records *)

KeysOf(r, kind) == {key \in Keys[r] : key[1] = kind}

\* dedupeKey: the post's id, or else its url.
DedupeKey(r) ==
    IF KeysOf(r, "reddit_post_id") # {} THEN KeysOf(r, "reddit_post_id") ELSE KeysOf(r, "url")

\* The batches a request may bring, and the first record of each identity.
Batches == UNION {[1..n -> Record] : n \in 1..MaxRecords}

Nothing == [i \in {} |-> Null]

Distinct(recs) ==
    Restrict(recs, {i \in DOMAIN recs :
                      \A j \in DOMAIN recs : j < i => DedupeKey(recs[j]) # DedupeKey(recs[i])})

RowsOf(u) == {row \in rows : row[1] = u}

\* processTrustedConnectorSourceRecords: the device token is known and not
\* revoked, and the records are taken to be of its user.
FromDevice(b, d, recs) ==
    /\ batch[b].pc = "idle" /\ device[d] = "paired" /\ DeviceUser(d) \in Allowed
    /\ batch' = [batch EXCEPT ![b].pc = "check", ![b].user = DeviceUser(d), ![b].recs = Distinct(recs)]
    /\ UNCHANGED <<pairVars, enabled, rows, raced>>

\* processBrowserCollectorIngest: a record is of the user it names.  Writing is
\* never on in production.
FromCollector(b, recs) ==
    /\ batch[b].pc = "idle"
    /\ batch' = [batch EXCEPT ![b].pc = "check", ![b].recs = Distinct(recs)]
    /\ UNCHANGED <<pairVars, enabled, rows, raced>>

\* validateUserSourceRelationship, for each record; then one user has to be left.
CheckSources(b) ==
    LET recs == batch[b].recs
        claimed(r) == IF batch[b].user = Null THEN UserOf[Source[r]] ELSE batch[b].user
        good == {i \in DOMAIN recs :
                   Source[recs[i]] \in enabled /\ UserOf[Source[recs[i]]] = claimed(recs[i])}
        users == {claimed(recs[i]) : i \in good}
    IN  /\ batch[b].pc = "check"
        /\ \/ \E u \in users :
                 /\ users = {u}
                 /\ batch' = [batch EXCEPT ![b].pc = "lookup", ![b].user = u,
                                          ![b].recs = Restrict(recs, good)]
           \/ /\ \A u \in users : users # {u}
              /\ batch' = [batch EXCEPT ![b].pc = "ended", ![b].recs = Nothing]
        /\ UNCHANGED <<pairVars, enabled, rows, raced>>

\* loadExistingSourceRecords: for each kind of key, no more rows than the batch
\* has values of it.
Values(recs, kind) == UNION {KeysOf(recs[i], kind) : i \in DOMAIN recs}
Hits(u, recs, kind) == {row \in RowsOf(u) : KeysOf(row[2], kind) \cap Values(recs, kind) # {}}

Found(u, recs, some) ==
    /\ some \subseteq RowsOf(u)
    /\ \A kind \in Kind :
         Cardinality(Hits(u, recs, kind)) <= Cardinality(Values(recs, kind)) =>
           Hits(u, recs, kind) \subseteq some
    /\ \A row \in some : \E i \in DOMAIN recs : Keys[row[2]] \cap Keys[recs[i]] # {}

\* The positions that are inserted, when a record only has to differ from those
\* the database has.
IsFreshToTheDatabase(recs, some, keep) ==
    \A i \in DOMAIN recs :
      i \in keep <=> \A row \in some : Keys[row[2]] \cap Keys[recs[i]] = {}

\* The positions that are inserted: records that share no key with an existing
\* row, nor with a record before them that is inserted.
IsFresh(recs, some, keep) ==
    \A i \in DOMAIN recs :
      i \in keep <=> /\ \A row \in some : Keys[row[2]] \cap Keys[recs[i]] = {}
                    /\ \A j \in keep : j < i => Keys[recs[j]] \cap Keys[recs[i]] = {}

LookUpRows(b, some, keep) ==
    LET recs == batch[b].recs
    IN  /\ batch[b].pc = "lookup" /\ Found(batch[b].user, recs, some)
        /\ keep \subseteq DOMAIN recs /\ IsFresh(recs, some, keep)
        /\ batch' = [batch EXCEPT ![b].pc = IF keep = {} THEN "ended" ELSE "insert",
                                 ![b].recs = Restrict(recs, keep),
                                 ![b].known = Cardinality(RowsOf(batch[b].user))]
        /\ UNCHANGED <<pairVars, enabled, rows, raced>>

\* insertSourceRecords: the whole batch, or nothing.
InsertRows(b) ==
    LET u == batch[b].user
    IN  /\ batch[b].pc = "insert"
        /\ \/ /\ rows' = rows \cup {<<u, batch[b].recs[i], b>> : i \in DOMAIN batch[b].recs}
              /\ raced' = IF Cardinality(RowsOf(u)) = batch[b].known THEN raced ELSE raced \cup {u}
           \/ UNCHANGED <<rows, raced>>
        /\ batch' = [batch EXCEPT ![b].pc = "ended", ![b].recs = Nothing]
        /\ UNCHANGED <<pairVars, enabled>>

\* The owner switches a source on or off.
Switch(s) ==
    /\ enabled' = IF s \in enabled THEN enabled \ {s} ELSE enabled \cup {s}
    /\ UNCHANGED <<pairVars, rows, batch, raced>>

----------------------------------------------------------------------------
(* Specification *)

IngestInit ==
    /\ code = [c \in Code |-> [used |-> FALSE, expired |-> FALSE]]
    /\ pair = [q \in Attempt |-> [pc |-> "idle", code |-> Null]]
    /\ device = [q \in Attempt |-> "none"]
    /\ enabled = Sources /\ rows = {} /\ raced = {}
    /\ batch = [b \in Request |-> [pc |-> "idle", user |-> Null, recs |-> Nothing, known |-> 0]]

IngestNext ==
    \/ \E q \in Attempt, c \in Code : Lookup(q, c)
    \/ \E q \in Attempt : Claim(q) \/ Issue(q)
    \/ \E c \in Code : Expire(c)
    \/ \E D \in SUBSET Attempt : Revoke(D)
    \/ \E b \in Request, recs \in Batches :
          FromCollector(b, recs) \/ \E d \in Attempt : FromDevice(b, d, recs)
    \/ \E b \in Request, some \in SUBSET rows, keep \in SUBSET (1..MaxRecords) : LookUpRows(b, some, keep)
    \/ \E b \in Request : CheckSources(b) \/ InsertRows(b)
    \/ \E s \in Sources : Switch(s)

IngestSpec == IngestInit /\ [][IngestNext]_ingestVars

----------------------------------------------------------------------------
(* Properties *)

\* However many requests present a code, and whenever it expires, it pairs one
\* device at most.
PairedOnce ==
    \A c \in Code :
      Cardinality({q \in Attempt : device[q] # "none" /\ pair[q].code = c}) <= 1

\* Unless two batches of a user have overlapped between lookup and insert, no
\* two of the user's rows have a url, a post or a text in common.
RowsAreSingle ==
    \A x, y \in rows :
      x # y /\ x[1] = y[1] /\ x[1] \notin raced => Keys[x[2]] \cap Keys[y[2]] = {}

\* A row is of a source of its own user, whoever sent it.
RowsAreOwn == \A x \in rows : UserOf[Source[x[2]]] = x[1]

IngestIsSound == PairedOnce /\ RowsAreSingle /\ RowsAreOwn

----------------------------------------------------------------------------
(* The inductive invariant behind them *)

Users == {Null} \cup {UserOf[c] : c \in Code} \cup {UserOf[Source[r]] : r \in Record}

\* What is left of a batch has records at some of its positions.
Left == UNION {[D -> Record] : D \in SUBSET (1..MaxRecords)}

IngestTypeOK ==
    /\ pair \in [Attempt -> [pc : {"idle", "claim", "insert", "ended"}, code : Code \cup {Null}]]
    /\ code \in [Code -> [used : BOOLEAN, expired : BOOLEAN]]
    /\ device \in [Attempt -> {"none", "paired", "revoked"}]
    /\ batch \in [Request -> [pc : {"idle", "check", "lookup", "insert", "ended"},
                             user : Users, recs : Left, known : Nat]]
    /\ IsFiniteSet(rows) /\ rows \subseteq Users \X Record \X Request

\* A pair request that has claimed a code, or has a device, has the code to
\* itself, and the code is used.
Holds(q) == pair[q].pc = "insert" \/ device[q] # "none"

CodesAreHeld ==
    /\ \A q \in Attempt : Holds(q) => pair[q].code \in Code /\ code[pair[q].code].used
    /\ \A q \in Attempt : pair[q].pc # "idle" => pair[q].code \in Code
    /\ \A q \in Attempt : pair[q].pc \in {"idle", "claim"} => device[q] = "none"
    /\ \A q, r \in Attempt : Holds(q) /\ Holds(r) /\ pair[q].code = pair[r].code => q = r

\* A batch whose sources are checked has only records of its user, and one that
\* is about to insert has none the database has, unless rows have come since it
\* looked, and no two that share a key.
Disjoint(u, recs) ==
    \A row \in RowsOf(u) : \A i \in DOMAIN recs : Keys[row[2]] \cap Keys[recs[i]] = {}

BatchSound(b) ==
    LET recs == batch[b].recs
        u == batch[b].user
    IN  /\ batch[b].pc \in {"lookup", "insert"} =>
             \A i \in DOMAIN recs : UserOf[Source[recs[i]]] = u
        /\ batch[b].pc = "insert" =>
             /\ \A i, j \in DOMAIN recs : i # j => Keys[recs[i]] \cap Keys[recs[j]] = {}
             /\ batch[b].known <= Cardinality(RowsOf(u))
             /\ u \notin raced /\ batch[b].known = Cardinality(RowsOf(u)) => Disjoint(u, recs)

BatchesSound == \A b \in Request : BatchSound(b)

IngestInv ==
    IngestTypeOK /\ CodesAreHeld /\ BatchesSound /\ RowsAreSingle /\ RowsAreOwn
============================================================================
