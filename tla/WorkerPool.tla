----------------------------- MODULE WorkerPool -----------------------------
(***************************************************************************)
(* internal/pool.go: a batch of jobs run by at most Size goroutines.  The  *)
(* caller (treeHydrate in model/tree.go, decodeTable in dao/table.go) adds *)
(* every job from one goroutine and drains the pool once.  semC is the     *)
(* channel that bounds the goroutines, errC the channel of capacity one    *)
(* that carries the errors to the collector, wg and wge the wait groups of *)
(* the jobs and of the collector.                                          *)
(***************************************************************************)
EXTENDS Naturals, FiniteSets, Sequences

CONSTANTS
    Jobs,       \* the jobs of one batch
    Size        \* capacity of semC

ASSUME PoolAssumption == IsFiniteSet(Jobs) /\ Size \in Nat \ {0}

VARIABLES
    caller,     \* where the goroutine that adds and drains stands
    job,        \* job[j]: where the goroutine of j stands
    failed,     \* the jobs that returned an error
    semC,       \* the jobs whose token is in semC
    wg,         \* the jobs wg counts
    errC,       \* the errors in transit in errC
    semClosed, errClosed,
    collector,  \* "recv", "append" (an error in hand) or "done"
    inHand,     \* the error the collector received last
    errs        \* the errors collected

vars == <<caller, job, failed, semC, wg, errC, semClosed, errClosed,
          collector, inHand, errs>>

chans == <<semC, errC, semClosed, errClosed>>

Init ==
    /\ caller = "adding"
    /\ job = [j \in Jobs |-> "new"]
    /\ failed = {}
    /\ semC = {}
    /\ wg = {}
    /\ errC = <<>>
    /\ semClosed = FALSE
    /\ errClosed = FALSE
    /\ collector = "recv"
    /\ inHand = {}
    /\ errs = {}

-----------------------------------------------------------------------------
(* Mistakes the properties below must catch.                               *)
AddUnbounded(j) ==          \* no wait for a free slot in semC
    /\ caller = "adding"
    /\ job[j] = "new"
    /\ semC' = semC \union {j}
    /\ wg' = wg \union {j}
    /\ job' = [job EXCEPT ![j] = "running"]
    /\ UNCHANGED <<caller, failed, errC, semClosed, errClosed, collector, inHand, errs>>

AddUncounted(j) ==          \* the goroutine starts before wg.Add
    /\ caller = "adding"
    /\ job[j] = "new"
    /\ Cardinality(semC) < Size
    /\ semC' = semC \union {j}
    /\ job' = [job EXCEPT ![j] = "running"]
    /\ UNCHANGED <<caller, failed, wg, errC, semClosed, errClosed, collector, inHand, errs>>

SendErrUnbuffered(j) ==     \* the send does not wait for room in errC
    /\ job[j] = "sending"
    /\ errC' = Append(errC, j)
    /\ job' = [job EXCEPT ![j] = "released"]
    /\ UNCHANGED <<caller, failed, semC, wg, semClosed, errClosed, collector, inHand, errs>>

SendErrKeepsToken(j) ==     \* the error path skips the receive from semC
    /\ job[j] = "sending"
    /\ errC = <<>>
    /\ errC' = <<j>>
    /\ job' = [job EXCEPT ![j] = "counted"]
    /\ UNCHANGED <<caller, failed, semC, wg, semClosed, errClosed, collector, inHand, errs>>

CollectorOverwrites ==      \* errs is assigned, not appended to
    /\ collector = "append"
    /\ errs' = inHand
    /\ inHand' = {}
    /\ collector' = "recv"
    /\ UNCHANGED <<caller, job, failed, wg, chans>>

DrainSkipsCollector ==      \* no wge.Wait
    /\ caller = "collecting"
    /\ caller' = "returned"
    /\ UNCHANGED <<job, failed, wg, chans, collector, inHand, errs>>

-----------------------------------------------------------------------------
(* Add: blocks while semC is full, then counts the job and starts it.      *)
Add(j) ==
    /\ caller = "adding"
    /\ job[j] = "new"
    /\ Cardinality(semC) < Size
    /\ semC' = semC \union {j}
    /\ wg' = wg \union {j}
    /\ job' = [job EXCEPT ![j] = "running"]
    /\ UNCHANGED <<caller, failed, errC, semClosed, errClosed, collector, inHand, errs>>

(* The job returns; an error goes to errC before the deferred calls run.   *)
JobReturns(j) ==
    /\ job[j] = "running"
    /\ \/ job' = [job EXCEPT ![j] = "released"] /\ UNCHANGED failed
       \/ job' = [job EXCEPT ![j] = "sending"] /\ failed' = failed \union {j}
    /\ UNCHANGED <<caller, wg, chans, collector, inHand, errs>>

SendErr(j) ==
    /\ job[j] = "sending"
    /\ errC = <<>>
    /\ errC' = <<j>>
    /\ job' = [job EXCEPT ![j] = "released"]
    /\ UNCHANGED <<caller, failed, semC, wg, semClosed, errClosed, collector, inHand, errs>>

(* The deferred function: take a token back from semC, then wg.Done.       *)
ReleaseToken(j) ==
    /\ job[j] = "released"
    /\ semC' = semC \ {j}
    /\ job' = [job EXCEPT ![j] = "counted"]
    /\ UNCHANGED <<caller, failed, wg, errC, semClosed, errClosed, collector, inHand, errs>>

JobDone(j) ==
    /\ job[j] = "counted"
    /\ wg' = wg \ {j}
    /\ job' = [job EXCEPT ![j] = "gone"]
    /\ UNCHANGED <<caller, failed, chans, collector, inHand, errs>>

-----------------------------------------------------------------------------
(* The collector ranges over errC until it is closed and empty.            *)
CollectorReceive ==
    /\ collector = "recv"
    /\ errC # <<>>
    /\ inHand' = {Head(errC)}
    /\ errC' = Tail(errC)
    /\ collector' = "append"
    /\ UNCHANGED <<caller, job, failed, semC, wg, semClosed, errClosed, errs>>

CollectorAppend ==
    /\ collector = "append"
    /\ errs' = errs \union inHand
    /\ inHand' = {}
    /\ collector' = "recv"
    /\ UNCHANGED <<caller, job, failed, wg, chans>>

CollectorEnd ==
    /\ collector = "recv"
    /\ errC = <<>>
    /\ errClosed
    /\ collector' = "done"
    /\ UNCHANGED <<caller, job, failed, wg, chans, inHand, errs>>

-----------------------------------------------------------------------------
(* Drain: the derived context it cancels is not the one the jobs hold, so  *)
(* the cancel changes nothing; then it waits for wg, closes both channels  *)
(* and waits for the collector.                                            *)
DrainStart ==
    /\ caller = "adding"
    /\ \A j \in Jobs : job[j] # "new"
    /\ caller' = "waiting"
    /\ UNCHANGED <<job, failed, wg, chans, collector, inHand, errs>>

DrainWaited ==
    /\ caller = "waiting"
    /\ wg = {}
    /\ semClosed' = TRUE
    /\ caller' = "closing"
    /\ UNCHANGED <<job, failed, semC, wg, errC, errClosed, collector, inHand, errs>>

DrainCloseErrs ==
    /\ caller = "closing"
    /\ errClosed' = TRUE
    /\ caller' = "collecting"
    /\ UNCHANGED <<job, failed, semC, wg, errC, semClosed, collector, inHand, errs>>

DrainReturn ==
    /\ caller = "collecting"
    /\ collector = "done"
    /\ caller' = "returned"
    /\ UNCHANGED <<job, failed, wg, chans, collector, inHand, errs>>

-----------------------------------------------------------------------------
JobStep(j) == JobReturns(j) \/ SendErr(j) \/ ReleaseToken(j) \/ JobDone(j)

CollectorStep == CollectorReceive \/ CollectorAppend \/ CollectorEnd

CallerStep ==
    \/ \E j \in Jobs : Add(j)
    \/ DrainStart
    \/ DrainWaited
    \/ DrainCloseErrs
    \/ DrainReturn

Next ==
    \/ CallerStep
    \/ \E j \in Jobs : JobStep(j)
    \/ CollectorStep

(* Every goroutine that can run is scheduled again, and jobs return.       *)
Fairness ==
    /\ WF_vars(CallerStep)
    /\ WF_vars(CollectorStep)
    /\ \A j \in Jobs : WF_vars(JobStep(j))

Spec == Init /\ [][Next]_vars /\ Fairness

-----------------------------------------------------------------------------
Working == {j \in Jobs : job[j] \in {"running", "sending"}}

TypeOK ==
    /\ caller \in {"adding", "waiting", "closing", "collecting", "returned"}
    /\ job \in [Jobs -> {"new", "running", "sending", "released", "counted", "gone"}]
    /\ failed \subseteq Jobs
    /\ semC \subseteq Jobs
    /\ wg \subseteq Jobs
    /\ errC \in {<<>>} \union {<<j>> : j \in Jobs}
    /\ semClosed \in BOOLEAN
    /\ errClosed \in BOOLEAN
    /\ collector \in {"recv", "append", "done"}
    /\ inHand \subseteq Jobs
    /\ errs \subseteq Jobs

(* At most Size jobs are inside their function at any time: semC holds the *)
(* token of every job from Add until the deferred receive.                 *)
BoundedJobs == Cardinality(Working) <= Size

(* Drain closes semC and errC only when no goroutine can still send on     *)
(* errC (a panic) or read a zero value from semC instead of its token.     *)
NoUseAfterClose ==
    semClosed \/ errClosed =>
        \A j \in Jobs : job[j] \notin {"running", "sending", "released"}

(* What Drain returns is every error a job returned, and nothing else:     *)
(* none is still in errC or in the collector's hands.  treeHydrate and     *)
(* decodeTable take an empty list to mean that every row was handled.      *)
DrainReportsEveryError == caller = "returned" => errs = failed

(* The caller always gets its batch back: neither Add nor Drain blocks for *)
(* ever, though the errors go through a channel of capacity one.           *)
BatchReturns == <>(caller = "returned")

Batch == INSTANCE JobBatch WITH
    outcome <- [j \in Jobs |->
                  IF job[j] \in {"new", "running"} THEN "none"
                  ELSE IF j \in failed THEN "err" ELSE "ok"],
    given <- {j \in Jobs : job[j] # "new"},
    report <- IF caller = "returned" THEN <<errs>> ELSE <<>>

(* The pool implements the batch its callers rely on.                      *)
ImplementsBatch == Batch!Spec

=============================================================================
