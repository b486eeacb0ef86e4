---------------------------- MODULE SocialAction ----------------------------
(***************************************************************************)
(* The local social connector (src/social-connector.ts): one ledger row    *)
(* per idempotency key, reserved before anything is written to a provider  *)
(* and finalized with what came of it.  A post may go out over the         *)
(* provider's API, by execute, or over a browser relay, which asks for the *)
(* reservation and reports the outcome; a verify request looks a post up   *)
(* and finalizes a row once more, the post and the row being what it says: *)
(* the connector does not compare them.  The ledger (src/store.ts) runs    *)
(* every call in a transaction of its own.                                 *)
(*                                                                         *)
(* The key hashes platform, account, action, target and text: an Action.   *)
(* A relay that leaves the fingerprint of the text out has another key,    *)
(* and is another Action here.  Not in the model: the checks of a request  *)
(* that end it before the ledger is touched, and a dry run, which ends     *)
(* there too.                                                              *)
(***************************************************************************)
EXTENDS Naturals, FiniteSets

CONSTANTS
    Action,      \* idempotency keys
    Api,         \* execute requests
    Relay,       \* relay clients, each doing one action
    Verifier,    \* verify requests
    Elsewhere,   \* posts that were not made over the connector
    Nobody

Caller == Api \cup Relay \cup Verifier

\* A caller writes once at most: its name is the id of its post.
PostId == Api \cup Relay \cup Elsewhere

\* A caller does one kind of thing, and Nobody is none of them.
ASSUME SocialAssumption ==
    /\ Api \cap Relay = {} /\ Api \cap Verifier = {} /\ Relay \cap Verifier = {}
    /\ Elsewhere \cap Caller = {} /\ Nobody \notin Caller \cup Elsewhere \cup Action

VARIABLES
    entry,       \* app_social_action_ledger: status, path and provider_result_id
    posts,       \* what the providers have: <<action, who posted it>>
    gone,        \* posts that have been taken down again
    call,        \* a request: where it is, its action, the post it knows of
    misnamed     \* history: actions that a verification gave another's post

socialVars == <<entry, posts, gone, call, misnamed>>

----------------------------------------------------------------------------
(* Data *)

Failure == {"confirmed_failure", "rate_limited", "authentication_failure", "permission_failure"}
ActionStatus == {"none", "pending", "success", "ambiguous"} \cup Failure

Pc == {"idle", "write", "check", "report", "found", "other", "again", "ended", "blocked"}

NoEntry == [status |-> "none", path |-> "none", post |-> Nobody]
Idle == [pc |-> "idle", action |-> Nobody, post |-> Nobody]

\* finalizeSocialAction: whatever the row says, if there is one.
Finalize(a, status, post) ==
    entry' = IF entry[a].status = "none" THEN entry
             ELSE [entry EXCEPT ![a].status = status,
                                ![a].post = IF post = Nobody THEN @ ELSE post]

To(c, pc) == call' = [call EXCEPT ![c].pc = pc]
Knows(c, pc, post) == call' = [call EXCEPT ![c].pc = pc, ![c].post = post]

\* A reservation that lets a failed action be tried again.
ReserveIfNotDone(c, a, path) ==
    IF entry[a].status \in {"none"} \cup Failure
    THEN /\ entry' = [entry EXCEPT ![a] = [status |-> "pending", path |-> path, post |-> Nobody]]
         /\ call' = [call EXCEPT ![c] = [pc |-> "write", action |-> a, post |-> Nobody]]
    ELSE /\ call' = [call EXCEPT ![c] = [pc |-> "blocked", action |-> a, post |-> Nobody]]
         /\ UNCHANGED entry

\* reserveSocialAction: a key that has a row is a duplicate.
Reserve(c, a, path) ==
    IF entry[a].status = "none"
    THEN /\ entry' = [entry EXCEPT ![a] = [status |-> "pending", path |-> path, post |-> Nobody]]
         /\ call' = [call EXCEPT ![c] = [pc |-> "write", action |-> a, post |-> Nobody]]
    ELSE /\ call' = [call EXCEPT ![c] = [pc |-> "blocked", action |-> a, post |-> Nobody]]
         /\ UNCHANGED entry

----------------------------------------------------------------------------
(* executeSocialConnectorAction *)

Execute(c, a) ==
    /\ c \in Api /\ call[c].pc = "idle"
    /\ Reserve(c, a, "api")
    /\ UNCHANGED <<posts, gone, misnamed>>

\* publish answers with the id of the post.
Posted(c) ==
    /\ c \in Api /\ call[c].pc = "write"
    /\ posts' = posts \cup {<<call[c].action, c>>}
    /\ Knows(c, "check", c)
    /\ UNCHANGED <<entry, gone, misnamed>>

\* publish throws, safeErrorCategory says why.  Without an answer the post may
\* be there: a timeout is ambiguous, a connection that broke is a failure.
PostFails(c) ==
    /\ c \in Api /\ call[c].pc = "write"
    /\ \E written \in BOOLEAN, status \in Failure \cup {"ambiguous"} :
          /\ written => status \in {"ambiguous", "confirmed_failure"}
          /\ posts' = IF written THEN posts \cup {<<call[c].action, c>>} ELSE posts
          /\ Finalize(call[c].action, status, Nobody)
    /\ To(c, "ended")
    /\ UNCHANGED <<gone, misnamed>>

\* verifyPublished finds the post, another one, or none.
Confirm(c) ==
    /\ c \in Api /\ call[c].pc = "check"
    /\ \E confirmed \in BOOLEAN :
          /\ confirmed => c \notin gone
          /\ Finalize(call[c].action, IF confirmed THEN "success" ELSE "ambiguous", call[c].post)
    /\ To(c, "ended")
    /\ UNCHANGED <<posts, gone, misnamed>>

----------------------------------------------------------------------------
(* recordRelaySocialAction *)

RelayReserve(c, a) ==
    /\ c \in Relay /\ call[c].pc = "idle"
    /\ Reserve(c, a, "relay")
    /\ UNCHANGED <<posts, gone, misnamed>>

\* The client goes on when it is told to proceed.
RelayWrites(c) ==
    /\ c \in Relay /\ call[c].pc = "write"
    /\ \E written \in BOOLEAN :
          /\ posts' = IF written THEN posts \cup {<<call[c].action, c>>} ELSE posts
          /\ Knows(c, "report", IF written THEN c ELSE Nobody)
    /\ UNCHANGED <<entry, gone, misnamed>>

\* The phases success, confirmed_failure and ambiguous; a client that is not
\* sure of its post says ambiguous.  The connector asks only for a row.
RelayReports(c) ==
    /\ c \in Relay /\ call[c].pc = "report" /\ entry[call[c].action].status # "none"
    /\ \/ /\ call[c].post # Nobody                        \* with or without its id
          /\ \E id \in {call[c].post, Nobody} : Finalize(call[c].action, "success", id)
       \/ Finalize(call[c].action, "ambiguous", Nobody)
       \/ call[c].post = Nobody /\ Finalize(call[c].action, "confirmed_failure", Nobody)
    /\ \/ To(c, "ended")
       \/ To(c, "report")                               \* the report is sent again
    /\ UNCHANGED <<posts, gone, misnamed>>

----------------------------------------------------------------------------
(* verifySocialConnectorAction *)

\* What a provider would answer with: any of its posts, whoever made it.
There == ({p[2] : p \in posts} \cup Elsewhere) \ gone

\* A request names a post, and a key or none; no row is read.  The provider
\* answers with the post, or with another one, or the lookup throws.
Verify(c, a) ==
    /\ c \in Verifier /\ call[c].pc = "idle"
    /\ \/ \E answer \in There, asked \in PostId :
             call' = [call EXCEPT ![c] = [pc |-> IF answer = asked THEN "found" ELSE "other",
                                          action |-> a, post |-> answer]]
       \/ call' = [call EXCEPT ![c] = [pc |-> "ended", action |-> a, post |-> Nobody]]
    /\ UNCHANGED <<entry, posts, gone, misnamed>>

\* What it answered is recorded later, with the id that it answered with.
Verified(c) ==
    /\ c \in Verifier /\ call[c].pc \in {"found", "other"}
    /\ Finalize(call[c].action,
                IF call[c].pc = "found" THEN "success" ELSE "confirmed_failure", call[c].post)
    /\ misnamed' = IF entry[call[c].action].status = "none" \/ <<call[c].action, call[c].post>> \in posts
                   THEN misnamed ELSE misnamed \cup {call[c].action}
    /\ To(c, "ended")
    /\ UNCHANGED <<posts, gone>>

----------------------------------------------------------------------------
(* The owner, and the process *)

TakeDown(p) ==
    /\ p[2] \notin gone
    /\ gone' = gone \cup {p[2]}
    /\ UNCHANGED <<entry, posts, call, misnamed>>

\* The connector stops, and whoever asked asks again.
Crashed(c) ==
    /\ call[c].pc \notin {"idle", "again", "ended", "blocked"}
    /\ call' = [call EXCEPT ![c] = [pc |-> "again", action |-> call[c].action, post |-> Nobody]]
    /\ UNCHANGED <<entry, posts, gone, misnamed>>

Again(c) ==
    /\ c \in Api \cup Relay /\ call[c].pc \in {"again", "ended"}
    /\ Reserve(c, call[c].action, IF c \in Api THEN "api" ELSE "relay")
    /\ UNCHANGED <<posts, gone, misnamed>>

----------------------------------------------------------------------------
(* Specification *)

SocialInit ==
    /\ entry = [a \in Action |-> NoEntry]
    /\ posts = {} /\ gone = {} /\ misnamed = {}
    /\ call = [c \in Caller |-> Idle]

SocialNext ==
    \/ \E c \in Caller, a \in Action : Execute(c, a) \/ RelayReserve(c, a) \/ Verify(c, a)
    \/ \E c \in Caller :
          \/ Posted(c) \/ PostFails(c) \/ Confirm(c)
          \/ RelayWrites(c) \/ RelayReports(c)
          \/ Verified(c) \/ Crashed(c) \/ Again(c)
    \/ \E p \in posts : TakeDown(p)

SocialSpec == SocialInit /\ [][SocialNext]_socialVars

----------------------------------------------------------------------------
(* Properties *)

SocialTypeOK ==
    /\ entry \in [Action -> [status : ActionStatus, path : {"none", "api", "relay"},
                            post : PostId \cup {Nobody}]]
    /\ posts \subseteq Action \X (Api \cup Relay) /\ misnamed \subseteq Action
    /\ call \in [Caller -> [pc : Pc, action : Action \cup {Nobody}, post : PostId \cup {Nobody}]]

\* Over the API and the relay together, however often it is asked for again, and
\* whatever a verification makes of its row, an action is written once at most.
OneWritePerKey == \A a \in Action : Cardinality({p \in posts : p[1] = a}) <= 1

\* Unless a verification said otherwise, by another action's post or by one from
\* elsewhere, a row says success only of an action that was written, and an id it
\* names is the one of a post made for its action.
SuccessIsReal ==
    \A a \in Action \ misnamed :
      /\ entry[a].status = "success" => \E p \in posts : p[1] = a
      /\ entry[a].post # Nobody => <<a, entry[a].post>> \in posts

ActionsAreSound == SocialTypeOK /\ OneWritePerKey /\ SuccessIsReal

----------------------------------------------------------------------------
(* The inductive invariant behind them *)

\* Between its reservation and its report a request owns its action.
Owns(c) == call[c].pc \in {"write", "check", "report"}

CallersSound ==
    \A c \in Caller :
      /\ call[c].pc # "idle" => call[c].action \in Action
      /\ Owns(c) => c \in Api \cup Relay /\ entry[call[c].action].status # "none"
      /\ \A d \in Caller : Owns(c) /\ Owns(d) /\ call[c].action = call[d].action => c = d
      /\ call[c].pc = "write" => \A p \in posts : p[1] # call[c].action
      /\ call[c].pc = "check" => <<call[c].action, call[c].post>> \in posts
      /\ call[c].pc \in {"found", "other"} => call[c].post # Nobody
      /\ call[c].pc = "report" /\ call[c].post # Nobody => <<call[c].action, call[c].post>> \in posts

\* An action without a row has no post, and no action has two.
PostsSound ==
    /\ \A a \in Action : entry[a].status = "none" => entry[a].post = Nobody /\ \A p \in posts : p[1] # a
    /\ \A p, q \in posts : p[1] = q[1] => p = q

SocialInv == SocialTypeOK /\ CallersSound /\ PostsSound /\ SuccessIsReal
============================================================================
