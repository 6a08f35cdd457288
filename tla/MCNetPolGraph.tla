---------------------------- MODULE MCNetPolGraph ----------------------------
(* Two watches that take over from each other while the subject changes.   *)
EXTENDS NetPolGraph, TLC
CONSTANTS a, b, caller1, caller2, watch1, watch2, view
MCSubjects == {a, b}
MCNoCallers == {}
MCWatches == {watch1, watch2}
MCListeners == {view}
Symmetric == Permutations(MCSubjects) \union Permutations(MCWatches)
=============================================================================
