---------------------------- MODULE MCServices ----------------------------
(* Four components that share nothing, in one run: a behaviour is one of    *)
(* one of them, while the others stay at their beginning.                  *)
EXTENDS Connections, SocialAction, Ingest, ControlPlane, TLC

CONSTANTS k1, k2, t1, t2, t3, v1, d1, d2, p1, p2, q1, q2

\* Two posts with one text, and a sighting of the first that has only its url.
MCKeys ==
    1 :> {<<"url", 1>>, <<"reddit_post_id", 1>>, <<"content_hash", 1>>} @@
    2 :> {<<"url", 2>>, <<"reddit_post_id", 2>>, <<"content_hash", 1>>} @@
    3 :> {<<"url", 1>>, <<"content_hash", 3>>}
MCSource == 1 :> "s1" @@ 2 :> "s1" @@ 3 :> "s2"
MCUserOf == "s1" :> "u1" @@ "s2" :> "u2" @@ "c1" :> "u1"

VARIABLE moving      \* the component that moves

servicesVars == <<moving, connVars, socialVars, ingestVars, controlVars>>

ServicesInit ==
    /\ moving \in {"connections", "social", "ingest", "control"}
    /\ ConnInit /\ SocialInit /\ IngestInit /\ ControlInit

ServicesNext ==
    \/ /\ moving = "connections"
       /\ ConnNext /\ UNCHANGED <<moving, socialVars, ingestVars, controlVars>>
    \/ /\ moving = "social"
       /\ SocialNext /\ UNCHANGED <<moving, connVars, ingestVars, controlVars>>
    \/ /\ moving = "ingest"
       /\ IngestNext /\ UNCHANGED <<moving, connVars, socialVars, controlVars>>
    \/ /\ moving = "control"
       /\ ControlNext /\ UNCHANGED <<moving, connVars, socialVars, ingestVars>>

ServicesSpec == ServicesInit /\ [][ServicesNext]_servicesVars

\* The connections of two tenants have only the isolate in common: one of them
\* at a time leaves its first token.
Moved(t) ==
    \/ row[t].rev # 0 \/ live[t].nth # 0
    \/ \E m \in wire : m.tenant = t
    \/ \E k \in Isolate : sess[k].tenant = t

OneConnection == ~(Moved(t1) /\ Moved(t2))

\* Accounts and billing have only the owner's session in common: nobody is
\* disabled and no password changes once Stripe reports or time passes.
OneSide ==
    \/ now = 0 /\ events = {}
    \/ \A p \in Person : account[p].password = 1 /\ ~account[p].disabled

\* One isolate has time for a second session or job after its first.
MCWork == k1 :> 3 @@ k2 :> 2
============================================================================
