--------------------------- MODULE MCDraftPipeline ---------------------------
(***************************************************************************)
(* DraftPipeline for TLC: one source with two revisions, two platforms,    *)
(* a day of one slot, limits of two texts and one image.                   *)
(***************************************************************************)
EXTENDS DraftPipeline, TLC
CONSTANTS s1, twitter, instagram, j1, j2, j3

MCAngles == {<<s1, 1, instagram>>, <<s1, 2, instagram>>}
MCOptions ==
    {[fill |-> FALSE, target |-> None, on |-> {twitter, instagram}], [fill |-> TRUE, target |-> 1, on |-> {twitter, instagram}],
     [fill |-> FALSE, target |-> None, on |-> {twitter}], [fill |-> FALSE, target |-> None, on |-> {}]}
MCLimit == "text" :> 2 @@ "image" :> 1
Symmetry == Permutations(Jobs)
=============================================================================
