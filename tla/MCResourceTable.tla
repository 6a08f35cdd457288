--------------------------- MODULE MCResourceTable ---------------------------
EXTENDS ResourceTable, TLC
CONSTANTS pod1, pod2, default, system, ready, labelled, watch1, watch2
MCIds == {pod1, pod2}
MCValues == {Unset, ready}
MCNamespaces == {default, system}
MCOneNamespace == {default}
MCSelectors == {Everything, labelled}
MCOneSelector == {Everything}
MCOneWatch == {watch1}
MCWatches == {watch1, watch2}
MCOneId == {pod1}
MCOneValue == {Unset}
MCEveryCluster == [Ids -> Values \union {Absent}]
MCTwoClusters == {[id \in Ids |-> Absent], [id \in Ids |-> IF id = pod1 THEN ready ELSE Unset]}
MCScope(n, s) ==
    Ids \intersect ((IF n = default THEN {pod1, pod2} ELSE {pod2}) \ (IF s = labelled THEN {pod1} ELSE {}))

(* The first watch begins first: a permutation turns any behaviour into    *)
(* such a one.                                                             *)
WatchesInOrder == cancelFn = watch2 => pc[watch1] # "off" \/ watch1 \in cancelled
=============================================================================
