--------------------------- MODULE MCThreadsRelay ---------------------------
(***************************************************************************)
(* ThreadsRelay for TLC: handlers and attempts are interchangeable.        *)
(***************************************************************************)
EXTENDS ThreadsRelay, TLC

Symmetry == Permutations(Handler) \cup Permutations(Attempt)
============================================================================
