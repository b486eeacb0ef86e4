------------------------- MODULE PublicationLedger -------------------------
(***************************************************************************)
(* The durable publication ledger as src/publication-ledger.ts sees it:    *)
(* one queue item's intent row and attempt row, and the eight stored       *)
(* procedures the Worker calls on them.  The procedures live in the        *)
(* database project, not in this repository; their effects are taken from  *)
(* what the callers send, expect back and assert in their tests.           *)
(*                                                                         *)
(* Calls cross a network.  Every procedure here is called with             *)
(* retrySafe, so one call may put up to Tries copies of the same body on   *)
(* the wire; each copy is applied late, or never, independently of whether *)
(* the caller still waits for it.                                          *)
(***************************************************************************)
EXTENDS Naturals, FiniteSets

CONSTANTS
    Exec,        \* executions of executePublication, each with its own claim
                 \* token and dispatch operation id (both are fresh uuids)
    Recoverer,   \* callers of reconcilePublication: the scheduler's scan and
                 \* the recovery of an expired publish job
    None,        \* SQL NULL
    Tries        \* attempts of a retry-safe RPC (3 in fetchSupabase)

ASSUME LedgerAssumption ==
    /\ Exec \cap Recoverer = {}
    /\ None \notin Exec
    /\ Tries \in Nat \ {0}

Proc == Exec \cup Recoverer

VARIABLES
    intent,      \* publication_intents row: state, token, ver, lease
    attempt,     \* latest publication_attempts row: op, state, ext, stale
    net          \* copies of procedure calls on the wire

ledgerVars == <<intent, attempt>>

----------------------------------------------------------------------------
(* Rows and messages *)

AttemptState == {"dispatching", "accepted", "rejected", "unknown", "verified"}
\* "none": no intent row exists yet
IntentState  == {"none", "scheduled", "claimed"} \cup AttemptState

IntentRow == [state : IntentState,
              token : Exec \cup {None},
              ver   : Nat,
              lease : {"none", "live", "expired"}]

AttemptRow == [op    : Exec \cup {None},
               state : {"none"} \cup AttemptState,
               ext   : Exec \cup {None},   \* the post made for operation op is named op
               stale : BOOLEAN]            \* dispatch_started_at <= now - 180 s

NoIntent  == [state |-> "none", token |-> None, ver |-> 0, lease |-> "none"]
NoAttempt == [op |-> None, state |-> "none", ext |-> None, stale |-> FALSE]

Kind == {"claim", "release", "begin", "accept", "resolve", "reject", "unknown"}

\* op stands for the claim token or the operation id the body carries, ver for
\* the claim version; try tells the copies of one call apart.
Request == [kind : Kind, by : Proc, op : Exec \cup {None}, ver : Nat, try : 1..Tries]

----------------------------------------------------------------------------
(* The stored procedures: when one succeeds, and what it leaves behind *)

\* Slip, for the runs to catch: a fence that forgets the state.
HeldClaim(r) == intent.token = r.op /\ intent.ver = r.ver

HoldsClaim(r) == /\ intent.state = "claimed"
                 /\ intent.token = r.op
                 /\ intent.ver = r.ver

Replay(r) == attempt.op = r.op   \* the operation already owns the attempt

Accepts(r) ==
    CASE r.kind = "claim" ->
            \/ intent.state \in {"none", "scheduled"}
            \/ intent.state = "claimed" /\ (intent.token = r.op \/ intent.lease = "expired")
      [] r.kind = "release" ->
            \/ HoldsClaim(r)
            \/ intent.state = "scheduled" /\ intent.ver = r.ver
      [] r.kind = "begin"   -> HoldsClaim(r) \/ Replay(r)
      [] r.kind = "accept"  -> Replay(r) /\ attempt.state \in {"dispatching", "accepted", "verified"}
      [] r.kind = "resolve" -> Replay(r) /\ attempt.state \in {"unknown", "accepted", "verified"}
      [] r.kind = "reject"  -> Replay(r) /\ attempt.state \in {"dispatching", "rejected"}
      [] r.kind = "unknown" -> Replay(r) /\ attempt.state \in {"dispatching", "unknown"}

\* begin on a claim whose lease has run out: the callers do not depend on
\* whether the database still takes it, so both are possible.
MayRefuse(r) == r.kind = "begin" /\ intent.lease = "expired"

ClaimRow(r) ==
    IF intent.state = "claimed" /\ intent.token = r.op
    THEN intent                              \* replay keeps token and fence
    ELSE [state |-> "claimed", token |-> r.op, ver |-> intent.ver + 1, lease |-> "live"]

Settle(state, ext) ==
    /\ intent'  = [intent EXCEPT !.state = state]
    /\ attempt' = [attempt EXCEPT !.state = state, !.ext = ext]

\* The first copy changes the rows; any later copy of an accepted call finds
\* its own effect and changes nothing.
Effect(r) ==
    \/ /\ r.kind = "claim"
       /\ intent' = ClaimRow(r)
       /\ UNCHANGED attempt
    \/ /\ r.kind = "release"
       /\ IF HoldsClaim(r)
          THEN intent' = [state |-> "scheduled", token |-> None, ver |-> r.ver, lease |-> "none"]
          ELSE UNCHANGED intent
       /\ UNCHANGED attempt
    \/ /\ r.kind = "begin"
       /\ IF Replay(r)
          THEN UNCHANGED ledgerVars
          ELSE /\ intent'  = [intent EXCEPT !.state = "dispatching"]
               /\ attempt' = [op |-> r.op, state |-> "dispatching", ext |-> None, stale |-> FALSE]
    \/ /\ r.kind \in {"accept", "resolve"}
       /\ IF attempt.state \in {"accepted", "verified"}
          THEN UNCHANGED ledgerVars
          ELSE Settle("accepted", r.op)
    \/ /\ r.kind = "reject"
       /\ Settle("rejected", None)
    \/ /\ r.kind = "unknown"
       /\ Settle("unknown", None)

----------------------------------------------------------------------------
(* Time and the visibility check, both outside the Worker *)

\* The 120 s claim lease runs out.
LeaseExpires ==
    /\ intent.state = "claimed" /\ intent.lease = "live"
    /\ intent' = [intent EXCEPT !.lease = "expired"]
    /\ UNCHANGED <<attempt, net>>

\* The attempt has been dispatching for 180 s.
DispatchAges ==
    /\ attempt.state = "dispatching" /\ ~attempt.stale
    /\ attempt' = [attempt EXCEPT !.stale = TRUE]
    /\ UNCHANGED <<intent, net>>

\* Somebody records that the accepted post is visible.
VerifyVisible ==
    /\ attempt.state = "accepted"
    /\ intent'  = [intent EXCEPT !.state = "verified"]
    /\ attempt' = [attempt EXCEPT !.state = "verified"]
    /\ UNCHANGED net
============================================================================
