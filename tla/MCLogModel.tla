------------------------------ MODULE MCLogModel ------------------------------
EXTENDS LogModel, TLC
CONSTANTS first, second, plain, odd
MCStreams == {first, second}
MCFilters == {plain, odd}
MCSelects(f, n) == n = 1

(* The streams begin in this order: a permutation turns any behaviour into *)
(* such a one.  With the second there are two commands, and the two begin  *)
(* at once only with the second command (all containers of a pod).         *)
Bounds ==
    /\ second \in Unused \/ first \notin Unused
    /\ second \in Unused \/ commands <= 2
    /\ loaded = MCStreams => commands = 2
=============================================================================
