-------------------------- MODULE WorkerPoolProofs --------------------------
(***************************************************************************)
(* For every batch and every pool size: at most Size jobs run at once, no  *)
(* goroutine uses a channel after Drain closed it, and Drain returns every *)
(* error, which is what JobBatch promises the caller.  The inductive       *)
(* invariant ties the two wait groups and semC to the positions of the     *)
(* goroutines, and follows every error on its way.                         *)
(***************************************************************************)
EXTENDS WorkerPool, FiniteSetTheorems, TLAPS

(* semC holds exactly the tokens of the jobs that have one.                *)
TokensMatch ==
    /\ semC = {j \in Jobs : job[j] \in {"running", "sending", "released"}}
    /\ Cardinality(semC) <= Size

(* wg counts exactly the jobs between Add and the deferred wg.Done.        *)
CountMatches ==
    wg = {j \in Jobs : job[j] \in {"running", "sending", "released", "counted"}}

(* How far Drain has come, and what it has waited for by then.             *)
DrainOrder ==
    /\ caller # "adding" => \A j \in Jobs : job[j] # "new"
    /\ caller \in {"closing", "collecting", "returned"} => wg = {}
    /\ semClosed => caller \in {"closing", "collecting", "returned"}
    /\ errClosed => caller \in {"collecting", "returned"}
    /\ caller = "returned" => collector = "done"
    /\ collector = "done" => errC = <<>> /\ errClosed
    /\ collector # "append" => inHand = {}

(* An error is with its job, in errC, in the collector's hands or in errs. *)
ErrorsInTransit == IF errC = <<>> THEN {} ELSE {errC[1]}

ErrorsTracked ==
    failed = {j \in Jobs : job[j] = "sending"} \union ErrorsInTransit \union inHand \union errs

IInv == TypeOK /\ TokensMatch /\ CountMatches /\ DrainOrder /\ ErrorsTracked

-----------------------------------------------------------------------------
LEMMA InitIInv == Init => IInv
<1> SUFFICES ASSUME Init PROVE IInv
  OBVIOUS
<1>1. \A j \in Jobs : job[j] = "new"
  BY DEF Init
<1>2. Cardinality(semC) = 0
  BY FS_EmptySet DEF Init
<1>3. TypeOK
  BY DEF Init, TypeOK
<1>4. TokensMatch
  BY <1>1, <1>2, PoolAssumption DEF Init, TokensMatch
<1>5. CountMatches /\ DrainOrder
  BY <1>1 DEF Init, CountMatches, DrainOrder
<1>6. ErrorsTracked
  BY <1>1 DEF Init, ErrorsTracked, ErrorsInTransit
<1> QED
  BY <1>3, <1>4, <1>5, <1>6 DEF IInv

LEMMA NextIInv == IInv /\ [Next]_vars => IInv'
<1> SUFFICES ASSUME IInv, [Next]_vars PROVE IInv'
  OBVIOUS
<1> USE PoolAssumption
<1>0. IsFiniteSet(semC)
  BY FS_Subset DEF IInv, TypeOK
<1>1. ASSUME NEW j \in Jobs, Add(j) PROVE IInv'
  <2>1. TypeOK'
    BY <1>1 DEF Add, IInv, TypeOK
  <2>2. j \notin semC
    BY <1>1 DEF Add, IInv, TokensMatch
  <2>3. Cardinality(semC') <= Size
    <3>1. Cardinality(semC \union {j}) = Cardinality(semC) + 1
      BY <1>0, <2>2, FS_AddElement
    <3>2. Cardinality(semC) \in Nat
      BY <1>0, FS_CardinalityType
    <3>3. Cardinality(semC) < Size /\ semC' = semC \union {j}
      BY <1>1 DEF Add
    <3> QED
      BY <3>1, <3>2, <3>3
  <2>4. TokensMatch'
    BY <1>1, <2>3 DEF Add, IInv, TypeOK, TokensMatch
  <2>5. CountMatches'
    BY <1>1 DEF Add, IInv, TypeOK, CountMatches
  <2>6. DrainOrder'
    BY <1>1 DEF Add, IInv, TypeOK, DrainOrder
  <2>7. ErrorsTracked'
    BY <1>1 DEF Add, IInv, TypeOK, ErrorsTracked, ErrorsInTransit
  <2> QED
    BY <2>1, <2>4, <2>5, <2>6, <2>7 DEF IInv
<1>2. ASSUME NEW j \in Jobs, JobReturns(j) PROVE IInv'
  <2>1. TypeOK'
    BY <1>2 DEF JobReturns, chans, IInv, TypeOK
  <2>2. TokensMatch' /\ CountMatches'
    BY <1>2 DEF JobReturns, chans, IInv, TypeOK, TokensMatch, CountMatches
  <2>3. DrainOrder'
    BY <1>2 DEF JobReturns, chans, IInv, TypeOK, DrainOrder
  <2>4. ErrorsTracked'
    BY <1>2 DEF JobReturns, chans, IInv, TypeOK, ErrorsTracked, ErrorsInTransit
  <2> QED
    BY <2>1, <2>2, <2>3, <2>4 DEF IInv
<1>3. ASSUME NEW j \in Jobs, SendErr(j) PROVE IInv'
  <2>1. TypeOK'
    BY <1>3 DEF SendErr, IInv, TypeOK
  <2>2. TokensMatch' /\ CountMatches'
    BY <1>3 DEF SendErr, IInv, TypeOK, TokensMatch, CountMatches
  <2>3. ~errClosed
    BY <1>3 DEF SendErr, IInv, TypeOK, DrainOrder, CountMatches
  <2>4. DrainOrder'
    BY <1>3, <2>3 DEF SendErr, IInv, TypeOK, DrainOrder
  <2>5. ErrorsTracked'
    BY <1>3 DEF SendErr, IInv, TypeOK, ErrorsTracked, ErrorsInTransit
  <2> QED
    BY <2>1, <2>2, <2>4, <2>5 DEF IInv
<1>4. ASSUME NEW j \in Jobs, ReleaseToken(j) PROVE IInv'
  <2>1. TypeOK'
    BY <1>4 DEF ReleaseToken, IInv, TypeOK
  <2>2. Cardinality(semC') <= Size
    <3>1. semC' \subseteq semC
      BY <1>4 DEF ReleaseToken
    <3>2. Cardinality(semC') <= Cardinality(semC) /\ IsFiniteSet(semC')
      BY <1>0, <3>1, FS_Subset
    <3>3. Cardinality(semC) \in Nat /\ Cardinality(semC') \in Nat
      BY <1>0, <3>2, FS_CardinalityType
    <3> QED
      BY <3>2, <3>3 DEF IInv, TokensMatch
  <2>3. TokensMatch' /\ CountMatches'
    BY <1>4, <2>2 DEF ReleaseToken, IInv, TypeOK, TokensMatch, CountMatches
  <2>4. DrainOrder'
    BY <1>4 DEF ReleaseToken, IInv, TypeOK, DrainOrder
  <2>5. ErrorsTracked'
    BY <1>4 DEF ReleaseToken, IInv, TypeOK, ErrorsTracked, ErrorsInTransit
  <2> QED
    BY <2>1, <2>3, <2>4, <2>5 DEF IInv
<1>5. ASSUME NEW j \in Jobs, JobDone(j) PROVE IInv'
  <2>1. TypeOK'
    BY <1>5 DEF JobDone, chans, IInv, TypeOK
  <2>2. TokensMatch' /\ CountMatches'
    BY <1>5 DEF JobDone, chans, IInv, TypeOK, TokensMatch, CountMatches
  <2>3. DrainOrder'
    BY <1>5 DEF JobDone, chans, IInv, TypeOK, DrainOrder
  <2>4. ErrorsTracked'
    BY <1>5 DEF JobDone, chans, IInv, TypeOK, ErrorsTracked, ErrorsInTransit
  <2> QED
    BY <2>1, <2>2, <2>3, <2>4 DEF IInv
<1>6. CASE CollectorStep
  <2>1. TypeOK'
    <3>1. CASE CollectorReceive
      <4>1. PICK j \in Jobs : errC = <<j>>
        BY <3>1 DEF CollectorReceive, IInv, TypeOK
      <4>2. errC' = <<>> /\ inHand' = {j}
        BY <3>1, <4>1 DEF CollectorReceive
      <4> QED
        BY <3>1, <4>2 DEF CollectorReceive, IInv, TypeOK
    <3>2. CASE CollectorAppend \/ CollectorEnd
      BY <3>2 DEF CollectorAppend, CollectorEnd, chans, IInv, TypeOK
    <3> QED
      BY <1>6, <3>1, <3>2 DEF CollectorStep
  <2>2. TokensMatch' /\ CountMatches'
    BY <1>6 DEF CollectorStep, CollectorReceive, CollectorAppend, CollectorEnd, chans,
                IInv, TokensMatch, CountMatches
  <2>3. DrainOrder'
    BY <1>6 DEF CollectorStep, CollectorReceive, CollectorAppend, CollectorEnd, chans,
                IInv, TypeOK, DrainOrder
  <2>4. ErrorsTracked'
    <3>1. CASE CollectorReceive
      <4>1. inHand = {}
        BY <3>1 DEF CollectorReceive, IInv, TypeOK, DrainOrder
      <4>2. PICK j \in Jobs : errC = <<j>>
        BY <3>1 DEF CollectorReceive, IInv, TypeOK
      <4>3. errC' = <<>> /\ inHand' = {j}
        BY <3>1, <4>2 DEF CollectorReceive
      <4> QED
        BY <3>1, <4>1, <4>2, <4>3 DEF CollectorReceive, IInv, ErrorsTracked, ErrorsInTransit
    <3>2. CASE CollectorAppend
      BY <3>2 DEF CollectorAppend, chans, IInv, ErrorsTracked, ErrorsInTransit
    <3>3. CASE CollectorEnd
      BY <3>3 DEF CollectorEnd, chans, IInv, ErrorsTracked, ErrorsInTransit
    <3> QED
      BY <1>6, <3>1, <3>2, <3>3 DEF CollectorStep
  <2> QED
    BY <2>1, <2>2, <2>3, <2>4 DEF IInv
<1>7. CASE DrainStart \/ DrainWaited \/ DrainCloseErrs \/ DrainReturn
  <2>1. TypeOK'
    BY <1>7 DEF DrainStart, DrainWaited, DrainCloseErrs, DrainReturn, chans, IInv, TypeOK
  <2>2. TokensMatch' /\ CountMatches'
    BY <1>7 DEF DrainStart, DrainWaited, DrainCloseErrs, DrainReturn, chans,
                IInv, TokensMatch, CountMatches
  <2>3. DrainOrder'
    BY <1>7 DEF DrainStart, DrainWaited, DrainCloseErrs, DrainReturn, chans,
                IInv, TypeOK, DrainOrder
  <2>4. ErrorsTracked'
    BY <1>7 DEF DrainStart, DrainWaited, DrainCloseErrs, DrainReturn, chans,
                IInv, ErrorsTracked, ErrorsInTransit
  <2> QED
    BY <2>1, <2>2, <2>3, <2>4 DEF IInv
<1>8. CASE UNCHANGED vars
  BY <1>8 DEF vars, IInv, TypeOK, TokensMatch, CountMatches, DrainOrder, ErrorsTracked, ErrorsInTransit
<1> QED
  BY <1>1, <1>2, <1>3, <1>4, <1>5, <1>6, <1>7, <1>8 DEF Next, CallerStep, JobStep

LEMMA SpecIInv == Spec => []IInv
BY InitIInv, NextIInv, PTL DEF Spec

-----------------------------------------------------------------------------
(* Every variable of the pool keeps its type.                              *)
THEOREM PoolTypeOK == Spec => []TypeOK
<1>1. IInv => TypeOK
  BY DEF IInv
<1> QED
  BY <1>1, SpecIInv, PTL

(* However many jobs a caller adds, at most Size of them run at once.      *)
THEOREM PoolBounded == Spec => []BoundedJobs
<1>1. IInv => BoundedJobs
  <2> SUFFICES ASSUME IInv PROVE BoundedJobs
    OBVIOUS
  <2>1. Working \subseteq semC
    BY DEF Working, IInv, TokensMatch
  <2>2. IsFiniteSet(semC)
    BY FS_Subset, PoolAssumption DEF IInv, TypeOK
  <2>3. /\ Cardinality(Working) <= Cardinality(semC)
        /\ Cardinality(Working) \in Nat /\ Cardinality(semC) \in Nat
    BY <2>1, <2>2, FS_Subset, FS_CardinalityType
  <2> QED
    BY <2>3, PoolAssumption DEF BoundedJobs, IInv, TokensMatch
<1> QED
  BY <1>1, SpecIInv, PTL

(* No job can send on errC or receive from semC once Drain closed it.      *)
THEOREM PoolClosesSafely == Spec => []NoUseAfterClose
<1>1. IInv => NoUseAfterClose
  BY DEF IInv, TypeOK, DrainOrder, CountMatches, NoUseAfterClose
<1> QED
  BY <1>1, SpecIInv, PTL

(* The list Drain returns is complete, for any batch and any pool size.    *)
THEOREM PoolReportsEveryError == Spec => []DrainReportsEveryError
<1>1. IInv => DrainReportsEveryError
  BY DEF IInv, TypeOK, DrainOrder, CountMatches, ErrorsTracked, ErrorsInTransit, DrainReportsEveryError
<1> QED
  BY <1>1, SpecIInv, PTL

-----------------------------------------------------------------------------
(* The batch behind a state of the pool.                                   *)
Outcome == [j \in Jobs |-> IF job[j] \in {"new", "running"} THEN "none"
                           ELSE IF j \in failed THEN "err" ELSE "ok"]
Given == {j \in Jobs : job[j] # "new"}
Report == IF caller = "returned" THEN <<errs>> ELSE <<>>

(* Only a job whose function has returned has failed.  Without it a job    *)
(* that returns nothing could turn out to have an error all the same.      *)
FailedHasReturned == \A j \in failed : job[j] \notin {"new", "running"}

LEMMA NextFailed == IInv /\ FailedHasReturned /\ [Next]_vars => FailedHasReturned'
<1> SUFFICES ASSUME IInv, FailedHasReturned, [Next]_vars PROVE FailedHasReturned'
  OBVIOUS
<1>1. TypeOK
  BY DEF IInv
<1>2. ASSUME NEW j \in Jobs, Add(j) PROVE FailedHasReturned'
  BY <1>1, <1>2 DEF Add, TypeOK, FailedHasReturned
<1>3. ASSUME NEW j \in Jobs, JobStep(j) PROVE FailedHasReturned'
  BY <1>1, <1>3 DEF JobStep, JobReturns, SendErr, ReleaseToken, JobDone, TypeOK, FailedHasReturned
<1>4. ASSUME UNCHANGED <<job, failed>> PROVE FailedHasReturned'
  BY <1>4 DEF FailedHasReturned
<1> QED
  BY <1>2, <1>3, <1>4 DEF Next, CallerStep, CollectorStep, CollectorReceive, CollectorAppend, CollectorEnd,
     DrainStart, DrainWaited, DrainCloseErrs, DrainReturn, vars

(* When Drain can return, every job is over and its error collected.       *)
LEMMA AllCollected ==
    ASSUME IInv, FailedHasReturned, caller \in {"closing", "collecting"}, collector = "done"
    PROVE  /\ \A j \in Jobs : job[j] \notin {"new", "running"}
           /\ errs = {j \in Jobs : j \in failed}
<1>1. TypeOK /\ DrainOrder /\ CountMatches /\ ErrorsTracked
  BY DEF IInv
<1>2. wg = {} /\ errC = <<>> /\ inHand = {} /\ \A j \in Jobs : job[j] # "new"
  BY <1>1 DEF DrainOrder
<1>3. \A j \in Jobs : job[j] \notin {"running", "sending"}
  BY <1>1, <1>2 DEF CountMatches
<1>4. failed = errs
  BY <1>1, <1>2, <1>3 DEF ErrorsTracked, ErrorsInTransit
<1> QED
  BY <1>1, <1>2, <1>3, <1>4 DEF TypeOK

LEMMA InitBatch == Init => FailedHasReturned /\ Batch!Init
<1> SUFFICES ASSUME Init PROVE FailedHasReturned /\ Batch!Init
  OBVIOUS
<1>1. \A j \in Jobs : job[j] = "new"
  BY DEF Init
<1>2. Outcome = [j \in Jobs |-> "none"] /\ Given = {} /\ Report = <<>>
  BY <1>1 DEF Init, Outcome, Given, Report
<1>3. FailedHasReturned
  BY DEF Init, FailedHasReturned
<1> QED
  BY <1>2, <1>3 DEF Batch!Init, Outcome, Given, Report

(* A step of the pool gives a job, ends one, returns the batch, or changes *)
(* nothing the caller can see.                                             *)
LEMMA NextBatch ==
    ASSUME IInv, FailedHasReturned, [Next]_vars
    PROVE  [Batch!Next]_(Batch!vars)
<1>1. TypeOK /\ DrainOrder /\ CountMatches
  BY DEF IInv
<1>2. ASSUME UNCHANGED <<Outcome, Given, Report>> PROVE [Batch!Next]_(Batch!vars)
  BY <1>2 DEF Batch!vars, Outcome, Given, Report
<1>3. ASSUME NEW j \in Jobs, Add(j) PROVE Batch!Give(j)
  <2>1. Report = <<>> /\ Report' = <<>> /\ j \notin Given
    BY <1>3 DEF Add, Report, Given
  <2>2. Given' = Given \union {j}
    BY <1>1, <1>3 DEF Add, Given, TypeOK
  <2>3. Outcome' = Outcome
    BY <1>1, <1>3 DEF Add, Outcome, TypeOK
  <2> QED
    BY <2>1, <2>2, <2>3 DEF Batch!Give, Outcome, Given, Report
<1>4. ASSUME NEW j \in Jobs, JobReturns(j)
      PROVE  \E result \in {"ok", "err"} : Batch!Done(j, result)
  <2>1. job[j] = "running" /\ j \notin failed /\ UNCHANGED <<caller, errs>>
    BY <1>4 DEF JobReturns, FailedHasReturned
  <2>2. caller # "returned"
    BY <1>1, <2>1 DEF DrainOrder, CountMatches
  <2>3. Report = <<>> /\ Report' = <<>> /\ j \in Given /\ Outcome[j] = "none"
    BY <2>1, <2>2 DEF Report, Given, Outcome
  <2>4. Given' = Given
    BY <1>1, <1>4 DEF JobReturns, Given, TypeOK
  <2>5. PICK result \in {"ok", "err"} : Outcome' = [Outcome EXCEPT ![j] = result]
    <3>1. CASE job' = [job EXCEPT ![j] = "released"] /\ UNCHANGED failed
      <4>1. Outcome' = [Outcome EXCEPT ![j] = "ok"]
        BY <1>1, <2>1, <3>1 DEF Outcome, TypeOK
      <4> QED
        BY <4>1
    <3>2. CASE job' = [job EXCEPT ![j] = "sending"] /\ failed' = failed \union {j}
      <4>1. Outcome' = [Outcome EXCEPT ![j] = "err"]
        BY <1>1, <2>1, <3>2 DEF Outcome, TypeOK
      <4> QED
        BY <4>1
    <3> QED
      BY <1>4, <3>1, <3>2 DEF JobReturns
  <2> QED
    BY <2>3, <2>4, <2>5 DEF Batch!Done, Outcome, Given, Report
<1>5. ASSUME NEW j \in Jobs, SendErr(j) \/ ReleaseToken(j) \/ JobDone(j)
      PROVE  UNCHANGED <<Outcome, Given, Report>>
  <2>1. UNCHANGED <<caller, failed, errs>>
    BY <1>5 DEF SendErr, ReleaseToken, JobDone
  <2>2. \A i \in Jobs : /\ job'[i] = "new" <=> job[i] = "new"
                        /\ job'[i] = "running" <=> job[i] = "running"
    BY <1>1, <1>5 DEF SendErr, ReleaseToken, JobDone, TypeOK
  <2> QED
    BY <2>1, <2>2 DEF Outcome, Given, Report
<1>6. ASSUME CollectorStep PROVE UNCHANGED <<Outcome, Given, Report>>
  <2>1. caller # "returned" /\ UNCHANGED <<caller, job, failed>>
    BY <1>1, <1>6 DEF CollectorStep, CollectorReceive, CollectorAppend, CollectorEnd, DrainOrder
  <2> QED
    BY <2>1 DEF Outcome, Given, Report
<1>7. ASSUME DrainStart \/ DrainWaited \/ DrainCloseErrs PROVE UNCHANGED <<Outcome, Given, Report>>
  <2>1. caller # "returned" /\ caller' # "returned" /\ UNCHANGED <<job, failed>>
    BY <1>7 DEF DrainStart, DrainWaited, DrainCloseErrs
  <2> QED
    BY <2>1 DEF Outcome, Given, Report
<1>8. ASSUME DrainReturn PROVE Batch!Return
  <2>1. caller = "collecting" /\ collector = "done" /\ caller' = "returned" /\ UNCHANGED <<job, failed, errs>>
    BY <1>8 DEF DrainReturn
  <2>2. Report = <<>> /\ Report' = <<errs>> /\ Outcome' = Outcome /\ Given' = Given
    BY <2>1 DEF Report, Outcome, Given
  <2>3. \A j \in Jobs : job[j] \notin {"new", "running"}
    BY <2>1, AllCollected
  <2>4. \A j \in Jobs : j \in Given /\ Outcome[j] = IF j \in failed THEN "err" ELSE "ok"
    BY <2>3 DEF Outcome, Given
  <2>5. errs = {j \in Jobs : j \in failed}
    BY <2>1, AllCollected
  <2>6. errs = {j \in Given : Outcome[j] = "err"}
    <3>1. Given \subseteq Jobs
      BY DEF Given
    <3> QED
      BY <2>4, <2>5, <3>1
  <2>7. \A j \in Given : Outcome[j] # "none"
    BY <2>4 DEF Given
  <2> QED
    BY <2>2, <2>6, <2>7 DEF Batch!Return, Outcome, Given, Report
<1>9. ASSUME UNCHANGED vars PROVE UNCHANGED <<Outcome, Given, Report>>
  BY <1>9 DEF vars, Outcome, Given, Report
<1> QED
  BY <1>2, <1>3, <1>4, <1>5, <1>6, <1>7, <1>8, <1>9 DEF Next, CallerStep, JobStep, Batch!Next

(* The pool is the batch its callers rely on: each job they hand over ends *)
(* once, and the list they get back is of the jobs that failed.            *)
THEOREM PoolImplementsBatch == Spec => ImplementsBatch
<1>1. IInv /\ FailedHasReturned /\ [Next]_vars => [Batch!Next]_(Batch!vars)
  BY NextBatch
<1> QED
  BY <1>1, SpecIInv, InitBatch, NextFailed, PTL DEF Spec, ImplementsBatch, Batch!Spec
=============================================================================
