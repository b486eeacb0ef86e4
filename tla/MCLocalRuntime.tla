--------------------------- MODULE MCLocalRuntime ---------------------------
(***************************************************************************)
(* LocalRuntime for TLC: two slots, a source with two angles and a second  *)
(* revision, an imported source without a summary.                         *)
(***************************************************************************)
EXTENDS LocalRuntime, TLC
CONSTANTS s1, s2, h1, h2, twitter, threads, r1, r2

MCAngles == {<<s1, h1, 1>>, <<s1, h2, 1>>, <<s2, h1, 1>>}
MCLegacy == {<<s2, h1, 1>>}
MCSteps == <<threads, twitter>>
MCOwner == r1 :> "cron" @@ r2 :> "cli"

\* After a run has outlived its lock, only overlapping fetches are followed.
SmallOverlap ==
    late => ~crashed /\ told = {} /\ history = {} /\ \A r \in Runs : run[r].kind = "fetch"
=============================================================================
