------------------------------ MODULE JobBatch ------------------------------
(***************************************************************************)
(* What the callers of internal/pool.go rely on (treeHydrate,              *)
(* decodeTable): every job they hand over is run once, and the list they   *)
(* get back holds exactly the errors of the jobs that failed.              *)
(***************************************************************************)
CONSTANTS Jobs

VARIABLES
    outcome,    \* outcome[j]: "none" before j is done, then "ok" or "err"
    given,      \* the jobs handed over so far
    report      \* <<>> until Drain returns, then << set of failed jobs >>

vars == <<outcome, given, report>>

Init ==
    /\ outcome = [j \in Jobs |-> "none"]
    /\ given = {}
    /\ report = <<>>

Give(j) ==
    /\ report = <<>>
    /\ j \notin given
    /\ given' = given \union {j}
    /\ UNCHANGED <<outcome, report>>

Done(j, result) ==
    /\ j \in given
    /\ report = <<>>
    /\ outcome[j] = "none"
    /\ outcome' = [outcome EXCEPT ![j] = result]
    /\ UNCHANGED <<given, report>>

Return ==
    /\ report = <<>>
    /\ \A j \in given : outcome[j] # "none"
    /\ report' = << {j \in given : outcome[j] = "err"} >>
    /\ UNCHANGED <<outcome, given>>

Next ==
    \/ \E j \in Jobs : Give(j) \/ \E result \in {"ok", "err"} : Done(j, result)
    \/ Return

Spec == Init /\ [][Next]_vars
=============================================================================
