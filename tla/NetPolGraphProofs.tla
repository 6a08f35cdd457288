-------------------------- MODULE NetPolGraphProofs --------------------------
(***************************************************************************)
(* For any number of callers, watches, listeners and subjects: the result  *)
(* the model holds is of its current subject, results are accepted in the  *)
(* order of their snapshots, a failure is reported while LastRefresh is    *)
(* about it, at most one watch has a live context, and no change made      *)
(* while a watch lives is forgotten.                                       *)
(***************************************************************************)
EXTENDS NetPolGraph, TLAPS

(* refreshMu is held by the thread inside Refresh and by nobody else.      *)
Mutex == \A t \in Threads : InRefresh(t) <=> refreshMu = t

(* An evaluation in flight saw a cluster no older than the result, and no  *)
(* newer than the cluster is.                                              *)
Snapshots ==
    /\ result.version <= world
    /\ \A t \in Threads : InRefresh(t) =>
          result.version <= eval[t].version /\ eval[t].version <= world

(* From its acceptance until Refresh returns an evaluation is the one      *)
(* LastRefresh describes.                                                  *)
Reported ==
    \A t \in Threads :
        pc[t] \in {"changed", "failed", "callChanged", "callFailed"} => lastRefresh = eval[t]

(* A watch with a live context has the current id and cancel function.     *)
LiveWatch ==
    \A w \in Watches :
        /\ w \notin cancelled
        /\ pc[w] \notin {"off", "spawned", "register", "clear", "rerequest"}
        => watchCancel = w /\ watchID = w

Generations == \A t \in Threads : eval[t].generation <= generation

(* The watch that watchCancel belongs to has registered and not yet left.   *)
Registered ==
    /\ watchCancel # None => watchID = watchCancel
    /\ \A w \in Watches : watchCancel = w =>
          /\ pc[w] \notin {"off", "spawned", "register", "returned"}
          /\ back[w] \in {"decide", "loop"}

(* RequestIsHeld, wherever the live watch stands: it is also enough that   *)
(* its own Refresh has yet to read the subject, or has read the newest.    *)
Held == requesting \/ trigger \/ \E u \in Watches : pc[u] \in {"debounce", "rerequest", "register"}

Pending ==
    \A w \in Watches :
        /\ watchCancel = w /\ w \notin cancelled
        /\ completed.generation < generation
        => \/ Held
           \/ pc[w] = "lock"
           \/ pc[w] = "evaluate" /\ eval[w].generation = generation

Handover == Registered /\ Pending

IInv ==
    /\ TypeOK
    /\ Mutex
    /\ Snapshots
    /\ Reported
    /\ LiveWatch
    /\ Generations
    /\ ResultIsOfSubject

-----------------------------------------------------------------------------
LEMMA NoEvalType == NoEval \in Evaluations
BY DEF NoEval, Evaluations

LEMMA NewestType ==
    ASSUME NEW g \in Nat, NEW v \in Nat, completed \in [generation : Nat, version : Nat]
    PROVE  Newest(g, v) \in [generation : Nat, version : Nat]
BY DEF Newest, Max2

LEMMA TodoType ==
    ASSUME NEW t \in Threads, NEW S \in SUBSET Listeners, todo \in [Threads -> SUBSET Listeners]
    PROVE  [todo EXCEPT ![t] = S] \in [Threads -> SUBSET Listeners]
OBVIOUS

LEMMA InitIInv == Init => IInv
<1> SUFFICES ASSUME Init PROVE IInv
  OBVIOUS
<1>1. TypeOK
  BY NoEvalType DEF Init, TypeOK
<1>2. Mutex /\ Reported /\ LiveWatch
  BY ModelAssumption DEF Init, Mutex, Reported, LiveWatch, InRefresh, Threads
<1>3. Snapshots /\ Generations /\ ResultIsOfSubject
  BY DEF Init, Snapshots, Generations, ResultIsOfSubject, NoEval, InRefresh
<1> QED
  BY <1>1, <1>2, <1>3 DEF IInv

-----------------------------------------------------------------------------
(* The steps that run on the goroutine of the model's owner.               *)
LEMMA ConfigureIInv == IInv /\ (Configure \/ WorldChanges) => IInv'
<1> SUFFICES ASSUME IInv, Configure \/ WorldChanges PROVE IInv'
  OBVIOUS
<1> USE ModelAssumption DEF IInv, dataVars, watchVars, threadVars
<1>1. ASSUME NEW s \in Subjects, SetSubject(s) PROVE IInv'
  <2>1. TypeOK'
    BY <1>1, NoEvalType DEF SetSubject, TypeOK
  <2>2. Mutex' /\ Reported' /\ LiveWatch'
    BY <1>1 DEF SetSubject, Mutex, Reported, LiveWatch, InRefresh
  <2>3. Snapshots' /\ Generations' /\ ResultIsOfSubject'
    BY <1>1 DEF SetSubject, TypeOK, Evaluations, Snapshots, Generations, ResultIsOfSubject,
                NoEval, InRefresh
  <2> QED
    BY <2>1, <2>2, <2>3
<1>2. ASSUME SetOptions PROVE IInv'
  <2>1. TypeOK'
    BY <1>2 DEF SetOptions, TypeOK
  <2>2. Mutex' /\ Reported' /\ LiveWatch'
    BY <1>2 DEF SetOptions, Mutex, Reported, LiveWatch, InRefresh
  <2>3. Snapshots' /\ Generations' /\ ResultIsOfSubject'
    BY <1>2 DEF SetOptions, TypeOK, Evaluations, Snapshots, Generations, ResultIsOfSubject,
                NoEval, InRefresh
  <2> QED
    BY <2>1, <2>2, <2>3
<1>3. ASSUME RequestRefresh \/ \E l \in Listeners : AddListener(l) \/ RemoveListener(l) PROVE IInv'
  <2> USE <1>3 DEF RequestRefresh, AddListener, RemoveListener
  <2>1. listeners' \subseteq Listeners
    BY DEF TypeOK
  <2>2. TypeOK'
    BY <2>1 DEF TypeOK
  <2>3. Mutex' /\ Snapshots' /\ Reported' /\ LiveWatch' /\ Generations' /\ ResultIsOfSubject'
    BY DEF Mutex, Snapshots, Reported, LiveWatch, Generations, ResultIsOfSubject, InRefresh
  <2> QED
    BY <2>2, <2>3
<1>4. ASSUME Stop PROVE IInv'
  <2>1. TypeOK'
    BY <1>4 DEF Stop, TypeOK
  <2>2. Mutex' /\ Snapshots' /\ Reported' /\ Generations' /\ ResultIsOfSubject'
    BY <1>4 DEF Stop, Mutex, Snapshots, Reported, Generations, ResultIsOfSubject, InRefresh
  <2>3. LiveWatch'
    BY <1>4 DEF Stop, LiveWatch, TypeOK, Threads
  <2> QED
    BY <2>1, <2>2, <2>3
<1>5. ASSUME NEW c \in Callers, CallRefresh(c) \/ CallReturned(c) PROVE IInv'
  <2>0. c \in Threads /\ c \notin Watches
    BY DEF Threads
  <2>1. TypeOK'
    BY <1>5, <2>0 DEF CallRefresh, CallReturned, TypeOK
  <2>2. Mutex' /\ Snapshots' /\ Reported' /\ Generations' /\ ResultIsOfSubject'
    BY <1>5, <2>0 DEF CallRefresh, CallReturned, TypeOK, Mutex, Snapshots, Reported, Generations,
                      ResultIsOfSubject, InRefresh
  <2>3. LiveWatch'
    BY <1>5, <2>0 DEF CallRefresh, CallReturned, LiveWatch, TypeOK, Threads
  <2> QED
    BY <2>1, <2>2, <2>3
<1>6. ASSUME NEW w \in Watches, CallWatch(w) PROVE IInv'
  <2>0. w \in Threads
    BY DEF Threads
  <2>1. TypeOK'
    BY <1>6, <2>0 DEF CallWatch, TypeOK
  <2>2. Mutex' /\ Snapshots' /\ Reported' /\ Generations' /\ ResultIsOfSubject'
    BY <1>6, <2>0 DEF CallWatch, TypeOK, Mutex, Snapshots, Reported, Generations,
                      ResultIsOfSubject, InRefresh
  <2>3. LiveWatch'
    BY <1>6, <2>0 DEF CallWatch, LiveWatch, TypeOK, Threads
  <2> QED
    BY <2>1, <2>2, <2>3
<1>7. ASSUME NEW w \in Watches, CancelContext(w) PROVE IInv'
  BY <1>7 DEF CancelContext, TypeOK, Mutex, Snapshots, Reported, LiveWatch, Generations,
              ResultIsOfSubject, InRefresh
<1>8. ASSUME WorldChanges PROVE IInv'
  BY <1>8 DEF WorldChanges, TypeOK, Evaluations, Mutex, Snapshots, Reported, LiveWatch,
              Generations, ResultIsOfSubject, InRefresh
<1> QED
  BY <1>1, <1>2, <1>3, <1>4, <1>5, <1>6, <1>7, <1>8 DEF Configure

-----------------------------------------------------------------------------
(* When a thread returns from Refresh, whatever it did before.             *)
LEMMA ReturnsIInv ==
    ASSUME IInv, NEW t \in Threads, InRefresh(t), Returns(t), NotInRefresh,
           UNCHANGED dataVars, completed' \in [generation : Nat, version : Nat]
    PROVE  IInv'
<1> USE ModelAssumption DEF IInv, Returns, NotInRefresh, dataVars, watchVars
<1>1. TypeOK'
  BY NoEvalType DEF TypeOK
<1>2. Mutex'
  BY DEF Mutex, InRefresh, TypeOK, Threads
<1>3. Snapshots' /\ Reported' /\ Generations'
  BY DEF Snapshots, Reported, Generations, InRefresh, TypeOK, NoEval, Evaluations
<1>4. LiveWatch'
  BY DEF LiveWatch, TypeOK, InRefresh, Threads
<1>5. ResultIsOfSubject'
  BY DEF ResultIsOfSubject
<1> QED
  BY <1>1, <1>2, <1>3, <1>4, <1>5

(* The steps of Refresh.                                                   *)
LEMMA RefreshIInv ==
    ASSUME IInv, NEW t \in Threads, RefreshBegin(t) \/ RefreshStep(t)
    PROVE  IInv'
<1> USE ModelAssumption DEF NotInRefresh, dataVars, watchVars
<1>1. CASE RefreshBegin(t)
  <2> USE <1>1 DEF RefreshBegin, IInv
  <2>1. TypeOK'
    <3>1. [subject |-> subject, generation |-> generation, version |-> world,
           outcome |-> IF subject = None THEN "error" ELSE "none"] \in Evaluations
      BY DEF TypeOK, Evaluations
    <3>2. eval' \in [Threads -> Evaluations]
      BY <3>1 DEF TypeOK
    <3>3. completed' \in [generation : Nat, version : Nat]
      BY NewestType DEF TypeOK
    <3> QED
      BY <3>2, <3>3 DEF TypeOK
  <2>2. Mutex'
    BY DEF Mutex, InRefresh, TypeOK
  <2>3. Snapshots' /\ Reported' /\ Generations' /\ ResultIsOfSubject'
    BY DEF Snapshots, Reported, Generations, ResultIsOfSubject, InRefresh, TypeOK, Evaluations
  <2>4. LiveWatch'
    BY DEF LiveWatch, TypeOK, Threads
  <2> QED
    BY <2>1, <2>2, <2>3, <2>4
<1>2. CASE Evaluate(t)
  <2>1. CASE t \in cancelled /\ Returns(t) /\ UNCHANGED completed
    BY <1>2, <2>1, ReturnsIInv DEF Evaluate, InRefresh, IInv, TypeOK
  <2>2. ASSUME t \notin cancelled,
               NEW outcome \in {"complete", "partial", "error"},
               eval' = [eval EXCEPT ![t].outcome = outcome],
               pc' = [pc EXCEPT ![t] = IF outcome = "error" THEN "fail" ELSE "accept"],
               completed' = Newest(eval[t].generation, eval[t].version),
               UNCHANGED <<refreshMu, todo>>
        PROVE IInv'
    <3> USE <1>2, <2>2 DEF Evaluate, IInv
    <3>0. eval[t].generation \in Nat /\ eval[t].version \in Nat
      BY DEF TypeOK, Evaluations
    <3>1. TypeOK'
      BY <3>0, NewestType DEF TypeOK, Evaluations
    <3>2. Mutex'
      BY DEF Mutex, InRefresh, TypeOK
    <3>3. Snapshots' /\ Reported' /\ Generations' /\ ResultIsOfSubject'
      BY DEF Snapshots, Reported, Generations, ResultIsOfSubject, InRefresh, TypeOK, Evaluations
    <3>4. LiveWatch'
      BY DEF LiveWatch, TypeOK, Threads
    <3> QED
      BY <3>1, <3>2, <3>3, <3>4
  <2> QED
    BY <1>2, <2>1, <2>2 DEF Evaluate
<1>3. CASE AcceptResult(t)
  <2>1. CASE Returns(t) /\ UNCHANGED dataVars
    BY <1>3, <2>1, ReturnsIInv DEF AcceptResult, InRefresh, IInv, TypeOK
  <2>2. CASE ~Returns(t) \/ ~UNCHANGED dataVars
    <3> USE <1>3, <2>2 DEF AcceptResult, IInv
    <3>a. todo' = [todo EXCEPT ![t] = listeners]
      OBVIOUS
    <3>0. todo' \in [Threads -> SUBSET Listeners]
      BY <3>a, TodoType DEF TypeOK
    <3>1. TypeOK'
      BY <3>0 DEF TypeOK
    <3>2. Mutex'
      BY DEF Mutex, InRefresh, TypeOK
    <3>3. \A u \in Threads : u # t => ~InRefresh(u)
      BY DEF Mutex, InRefresh
    <3>4. Snapshots' /\ Reported'
      BY <3>3 DEF Snapshots, Reported, InRefresh, TypeOK, Evaluations
    <3>5. Generations' /\ ResultIsOfSubject'
      BY DEF Generations, ResultIsOfSubject, IsCurrent, TypeOK, Evaluations
    <3>6. LiveWatch'
      BY DEF LiveWatch, TypeOK, Threads
    <3> QED
      BY <3>1, <3>2, <3>4, <3>5, <3>6
  <2> QED
    BY <2>1, <2>2
<1>4. CASE FinishFailure(t)
  <2>1. CASE Returns(t) /\ UNCHANGED dataVars
    BY <1>4, <2>1, ReturnsIInv DEF FinishFailure, InRefresh, IInv, TypeOK
  <2>2. CASE ~Returns(t) \/ ~UNCHANGED dataVars
    <3> USE <1>4, <2>2 DEF FinishFailure, IInv
    <3>a. todo' = [todo EXCEPT ![t] = listeners]
      OBVIOUS
    <3>0. todo' \in [Threads -> SUBSET Listeners]
      BY <3>a, TodoType DEF TypeOK
    <3>1. TypeOK'
      BY <3>0 DEF TypeOK
    <3>2. Mutex'
      BY DEF Mutex, InRefresh, TypeOK
    <3>3. \A u \in Threads : u # t => ~InRefresh(u)
      BY DEF Mutex, InRefresh
    <3>4. Snapshots' /\ Reported'
      BY <3>3 DEF Snapshots, Reported, InRefresh, TypeOK
    <3>5. Generations' /\ ResultIsOfSubject'
      BY DEF Generations, ResultIsOfSubject
    <3>6. LiveWatch'
      BY DEF LiveWatch, TypeOK, Threads
    <3> QED
      BY <3>1, <3>2, <3>4, <3>5, <3>6
  <2> QED
    BY <2>1, <2>2
<1>5. CASE CallListener(t) \/ ListenerReturns(t)
  <2> USE <1>5 DEF CallListener, ListenerReturns, Calling, IInv
  <2>0. todo' \in [Threads -> SUBSET Listeners]
    <3>1. CASE todo' = todo
      BY <3>1 DEF TypeOK
    <3>2. ASSUME NEW l \in todo[t], todo' = [todo EXCEPT ![t] = @ \ {l}]
          PROVE todo' \in [Threads -> SUBSET Listeners]
      <4>1. todo[t] \ {l} \in SUBSET Listeners
        BY DEF TypeOK
      <4> QED
        BY <3>2, <4>1, TodoType DEF TypeOK
    <3> QED
      BY <3>1, <3>2
  <2>1. TypeOK'
    BY <2>0 DEF TypeOK
  <2>2. Mutex'
    BY DEF Mutex, InRefresh, TypeOK
  <2>3. Snapshots' /\ Reported' /\ Generations' /\ ResultIsOfSubject'
    BY DEF Snapshots, Reported, Generations, ResultIsOfSubject, InRefresh, TypeOK
  <2>4. LiveWatch'
    BY DEF LiveWatch, TypeOK, Threads
  <2> QED
    BY <2>1, <2>2, <2>3, <2>4
<1>6. CASE LoopEnds(t)
  <2>1. CASE Returns(t)
    BY <1>6, <2>1, ReturnsIInv DEF LoopEnds, InRefresh, IInv, TypeOK
  <2>2. CASE ~Returns(t)
    <3> USE <1>6, <2>2 DEF LoopEnds, IInv
    <3>a. todo' = [todo EXCEPT ![t] = listeners]
      OBVIOUS
    <3>0. todo' \in [Threads -> SUBSET Listeners]
      BY <3>a, TodoType DEF TypeOK
    <3>1. TypeOK'
      BY <3>0 DEF TypeOK
    <3>2. Mutex'
      BY DEF Mutex, InRefresh, TypeOK
    <3>3. Snapshots' /\ Reported' /\ Generations' /\ ResultIsOfSubject'
      BY DEF Snapshots, Reported, Generations, ResultIsOfSubject, InRefresh, TypeOK
    <3>4. LiveWatch'
      BY DEF LiveWatch, TypeOK, Threads
    <3> QED
      BY <3>1, <3>2, <3>3, <3>4
  <2> QED
    BY <2>1, <2>2
<1> QED
  BY <1>1, <1>2, <1>3, <1>4, <1>5, <1>6 DEF RefreshStep

(* The steps of Watch and of the updater.                                  *)
LEMMA WatchIInv ==
    ASSUME IInv, NEW w \in Watches, WatchStep(w) \/ UpdaterTimer(w)
    PROVE  IInv'
<1> USE ModelAssumption DEF NotInWatch, Goto, GotoRefresh, dataVars, watchVars
<1>0. w \in Threads /\ ~InRefresh(w)
  BY DEF Threads, InRefresh, WatchStep, WatchDrain, WatchRegister, WatchDecide, UpdaterDone,
         UpdaterTimer, UpdaterTrigger, DebounceTrigger, DebounceDone, DebounceTimer,
         Rerequest, ClearWatch
<1>1. CASE WatchRegister(w)
  <2> USE <1>0, <1>1 DEF WatchRegister, IInv
  <2>1. TypeOK'
    BY DEF TypeOK
  <2>2. Mutex' /\ Snapshots' /\ Reported' /\ Generations' /\ ResultIsOfSubject'
    BY DEF Mutex, Snapshots, Reported, Generations, ResultIsOfSubject, InRefresh, TypeOK
  <2>3. LiveWatch'
    BY DEF LiveWatch, TypeOK, Threads
  <2> QED
    BY <2>1, <2>2, <2>3
<1>2. CASE ClearWatch(w)
  <2> USE <1>0, <1>2 DEF ClearWatch, IInv
  <2>1. TypeOK'
    BY DEF TypeOK
  <2>2. Mutex' /\ Snapshots' /\ Reported' /\ Generations' /\ ResultIsOfSubject'
    BY DEF Mutex, Snapshots, Reported, Generations, ResultIsOfSubject, InRefresh, TypeOK
  <2>3. LiveWatch'
    BY DEF LiveWatch, TypeOK, Threads
  <2> QED
    BY <2>1, <2>2, <2>3
<1>3. CASE \/ WatchDrain(w) \/ WatchDecide(w) \/ UpdaterDone(w) \/ UpdaterTimer(w)
           \/ UpdaterTrigger(w) \/ DebounceTrigger(w) \/ DebounceDone(w)
           \/ DebounceTimer(w) \/ Rerequest(w)
  <2> USE <1>0, <1>3
      DEF WatchDrain, WatchDecide, UpdaterDone, UpdaterTimer, UpdaterTrigger, DebounceTrigger,
          DebounceDone, DebounceTimer, Rerequest, IInv
  <2>1. TypeOK'
    BY DEF TypeOK
  <2>2. pc[w] \notin {"off", "lock"} /\ ~InRefresh(w)' /\ (\A u \in Threads : u # w => pc'[u] = pc[u])
    BY DEF TypeOK, InRefresh
  <2>3. Mutex' /\ Snapshots' /\ Reported' /\ Generations' /\ ResultIsOfSubject'
    BY <2>2 DEF Mutex, Snapshots, Reported, Generations, ResultIsOfSubject, InRefresh, TypeOK
  <2>4. LiveWatch'
    BY <2>2 DEF LiveWatch, TypeOK, Threads
  <2> QED
    BY <2>1, <2>3, <2>4
<1> QED
  BY <1>1, <1>2, <1>3 DEF WatchStep

LEMMA NextIInv == IInv /\ [Next]_vars => IInv'
<1>1. CASE UNCHANGED vars
  BY <1>1 DEF vars, dataVars, watchVars, threadVars, IInv, TypeOK, Mutex, Snapshots, Reported,
              LiveWatch, Generations, ResultIsOfSubject, InRefresh
<1> QED
  BY <1>1, ConfigureIInv, RefreshIInv, WatchIInv DEF Next, Run

LEMMA SpecIInv == Spec => []IInv
BY InitIInv, NextIInv, PTL DEF Spec

-----------------------------------------------------------------------------
(* How requests are handed over.                                           *)
LEMMA NewestIsNewer ==
    ASSUME NEW g \in Nat, NEW v \in Nat, completed \in [generation : Nat, version : Nat]
    PROVE  /\ Newest(g, v).generation >= completed.generation
           /\ Newest(g, v).generation >= g
BY DEF Newest, Max2

LEMMA ConfigureHandover == IInv /\ Handover /\ (Configure \/ WorldChanges) => Handover'
<1> SUFFICES ASSUME IInv, Handover, Configure \/ WorldChanges PROVE Handover'
  OBVIOUS
<1> USE ModelAssumption DEF IInv, Handover, dataVars, watchVars, threadVars
<1>1. ASSUME (\E s \in Subjects : SetSubject(s)) \/ SetOptions PROVE Handover'
  BY <1>1 DEF SetSubject, SetOptions, Registered, Pending, Held
<1>2. ASSUME RequestRefresh PROVE Handover'
  BY <1>2 DEF RequestRefresh, Registered, Pending, Held
<1>3. ASSUME \E l \in Listeners : AddListener(l) \/ RemoveListener(l) PROVE Handover'
  BY <1>3 DEF AddListener, RemoveListener, Registered, Pending, Held
<1>4. ASSUME Stop PROVE Handover'
  BY <1>4 DEF Stop, Registered, Pending, Threads
<1>5. ASSUME NEW c \in Callers, CallRefresh(c) \/ CallReturned(c) PROVE Handover'
  <2>1. \A w \in Watches : pc'[w] = pc[w]
    BY <1>5 DEF CallRefresh, CallReturned, TypeOK, Threads
  <2> QED
    BY <1>5, <2>1 DEF CallRefresh, CallReturned, Registered, Pending, Held
<1>6. ASSUME NEW w \in Watches, CallWatch(w) PROVE Handover'
  <2>1. pc[w] = "off" /\ watchCancel # w
    BY <1>6 DEF CallWatch, Registered
  <2> QED
    BY <1>6, <2>1 DEF CallWatch, Registered, Pending, Held, TypeOK, Threads
<1>7. ASSUME NEW w \in Watches, CancelContext(w) PROVE Handover'
  BY <1>7 DEF CancelContext, Registered, Pending, Held
<1>8. ASSUME WorldChanges PROVE Handover'
  BY <1>8 DEF WorldChanges, Registered, Pending, Held
<1> QED
  BY <1>1, <1>2, <1>3, <1>4, <1>5, <1>6, <1>7, <1>8 DEF Configure

(* A step of Refresh that moves one thread and makes nothing newer.        *)
LEMMA RefreshHandover ==
    ASSUME IInv, Handover, NEW t \in Threads, RefreshBegin(t) \/ RefreshStep(t)
    PROVE  Handover'
<1> USE ModelAssumption DEF IInv, Handover, NotInRefresh, dataVars, watchVars
<1>1. pc[t] = "lock" \/ InRefresh(t)
  BY DEF RefreshBegin, RefreshStep, Evaluate, AcceptResult, FinishFailure, CallListener,
         ListenerReturns, LoopEnds, InRefresh
<1>2. /\ UNCHANGED <<back, generation, watchID, watchCancel, cancelled, trigger, requesting>>
      /\ \A u \in Threads : u # t => pc'[u] = pc[u] /\ eval'[u] = eval[u]
      /\ pc'[t] = back[t] \/ pc'[t] \in {"evaluate", "accept", "fail", "changed", "failed",
                                         "callChanged", "callFailed"}
  BY DEF RefreshBegin, RefreshStep, Evaluate, AcceptResult, FinishFailure, CallListener,
         ListenerReturns, LoopEnds, Returns, Calling, TypeOK
<1>3. Registered'
  BY <1>2 DEF Registered, Threads
<1>4. Held => Held'
  BY <1>1, <1>2 DEF Held, InRefresh, Threads
<1>5. completed'.generation \in Nat /\ completed'.generation >= completed.generation
  <2>1. CASE UNCHANGED completed
    BY <2>1 DEF TypeOK
  <2>2. CASE completed' = Newest(generation, world) \/ completed' = Newest(eval[t].generation, eval[t].version)
    BY <2>2, NewestIsNewer, NewestType DEF TypeOK, Evaluations
  <2> QED
    BY <2>1, <2>2 DEF RefreshBegin, RefreshStep, Evaluate, AcceptResult, FinishFailure, CallListener,
                      ListenerReturns, LoopEnds
<1>6. Pending'
  <2> SUFFICES ASSUME NEW w \in Watches, watchCancel = w, w \notin cancelled, ~Held',
                      completed'.generation < generation
               PROVE  pc'[w] = "lock" \/ (pc'[w] = "evaluate" /\ eval'[w].generation = generation)
    BY <1>2 DEF Pending
  <2>1. w \in Threads /\ ~Held /\ completed.generation < generation
    BY <1>4, <1>5 DEF TypeOK, Threads
  <2>2. pc[w] = "lock" \/ (pc[w] = "evaluate" /\ eval[w].generation = generation)
    BY <2>1 DEF Pending
  <2>3. CASE w # t
    BY <1>2, <2>1, <2>2, <2>3
  <2>4. CASE w = t /\ pc[t] = "lock"
    <3>1. RefreshBegin(t)
      BY <2>4 DEF RefreshStep, Evaluate, AcceptResult, FinishFailure, CallListener, ListenerReturns, LoopEnds
    <3>2. subject # None
      <4>1. Newest(generation, world).generation >= generation
        BY NewestIsNewer DEF TypeOK
      <4>2. ~(completed'.generation >= generation)
        BY <1>5 DEF TypeOK
      <4> QED
        BY <3>1, <4>1, <4>2 DEF RefreshBegin
    <3> QED
      BY <2>4, <3>1, <3>2 DEF RefreshBegin, TypeOK
  <2>5. CASE w = t /\ pc[t] = "evaluate" /\ eval[t].generation = generation
    <3>1. Evaluate(t)
      BY <2>5 DEF RefreshBegin, RefreshStep, AcceptResult, FinishFailure, CallListener, ListenerReturns, LoopEnds
    <3>2. completed' = Newest(generation, eval[t].version)
      BY <2>5, <3>1 DEF Evaluate
    <3> QED
      <4>1. Newest(generation, eval[t].version).generation >= generation
        BY NewestIsNewer DEF TypeOK, Evaluations
      <4>2. ~(completed'.generation >= generation)
        BY <1>5 DEF TypeOK
      <4> QED
        BY <3>2, <4>1, <4>2
  <2> QED
    BY <2>2, <2>3, <2>4, <2>5
<1> QED
  BY <1>3, <1>6

LEMMA WatchHandover ==
    ASSUME IInv, Handover, NEW w \in Watches, WatchStep(w) \/ UpdaterTimer(w)
    PROVE  Handover'
<1> USE ModelAssumption DEF IInv, Handover, NotInWatch, Goto, GotoRefresh, dataVars, watchVars
<1>0. w \in Threads /\ None \notin Watches
  BY DEF Threads
<1>1. CASE WatchDrain(w)
  BY <1>0, <1>1 DEF WatchDrain, Registered, Pending, Held, TypeOK, Threads
<1>2. CASE WatchRegister(w)
  BY <1>0, <1>2 DEF WatchRegister, Registered, Pending, TypeOK, Threads
<1>3. CASE WatchDecide(w) \/ UpdaterDone(w)
  BY <1>0, <1>3 DEF WatchDecide, UpdaterDone, Registered, Pending, Held, TypeOK, Threads
<1>4. CASE UpdaterTimer(w)
  BY <1>0, <1>4 DEF UpdaterTimer, Registered, Pending, Held, TypeOK, Threads
<1>5. CASE UpdaterTrigger(w)
  BY <1>0, <1>5 DEF UpdaterTrigger, Registered, Pending, Held, TypeOK, Threads
<1>6. CASE DebounceTrigger(w)
  BY <1>0, <1>6 DEF DebounceTrigger, Registered, Pending, Held
<1>7. CASE DebounceDone(w)
  BY <1>0, <1>7 DEF DebounceDone, IsActiveWatch, Registered, Pending, Held, TypeOK, Threads
<1>8. CASE DebounceTimer(w)
  BY <1>0, <1>8 DEF DebounceTimer, IsActiveWatch, Registered, Pending, Held, TypeOK, Threads
<1>9. CASE Rerequest(w)
  BY <1>0, <1>9 DEF Rerequest, Registered, Pending, Held, TypeOK, Threads
<1>10. CASE ClearWatch(w)
  BY <1>0, <1>10 DEF ClearWatch, Registered, Pending, Held, TypeOK, Threads
<1> QED
  BY <1>1, <1>2, <1>3, <1>4, <1>5, <1>6, <1>7, <1>8, <1>9, <1>10 DEF WatchStep

LEMMA SpecHandover == Spec => [](IInv /\ Handover)
<1>1. Init => Handover
  BY ModelAssumption DEF Init, Handover, Registered, Pending, Threads
<1>2. IInv /\ Handover /\ [Next]_vars => Handover'
  <2>1. CASE UNCHANGED vars
    BY <2>1 DEF vars, dataVars, watchVars, threadVars, Handover, Registered, Pending, Held
  <2> QED
    BY <2>1, ConfigureHandover, RefreshHandover, WatchHandover DEF Next, Run
<1> QED
  BY <1>1, <1>2, SpecIInv, PTL DEF Spec

-----------------------------------------------------------------------------
(* Every variable of the model keeps its type.                             *)
THEOREM GraphTypeOK == Spec => []TypeOK
<1>1. IInv => TypeOK
  BY DEF IInv
<1> QED
  BY <1>1, SpecIInv, PTL

(* Peek never returns a result of a subject that was left.                 *)
THEOREM GraphResultIsOfSubject == Spec => []ResultIsOfSubject
<1>1. IInv => ResultIsOfSubject
  BY DEF IInv
<1> QED
  BY <1>1, SpecIInv, PTL

(* A listener that is told of a failure finds it in LastRefresh.           *)
THEOREM GraphFailureIsLastRefresh == Spec => []FailureIsLastRefresh
<1>1. IInv => FailureIsLastRefresh
  BY DEF IInv, Reported, FailureIsLastRefresh
<1> QED
  BY <1>1, SpecIInv, PTL

(* However watches are started, replaced and stopped, one is live at most. *)
THEOREM GraphOneLiveWatch == Spec => []OneLiveWatch
<1>1. IInv => OneLiveWatch
  BY DEF IInv, LiveWatch, OneLiveWatch
<1> QED
  BY <1>1, SpecIInv, PTL

(* No accepted result is older than the one it replaces.                   *)
THEOREM GraphResultsInOrder == Spec => ResultsInOrder
<1>1. IInv /\ [Next]_vars => [result' # NoEval => result'.version >= result.version]_vars
  <2> SUFFICES ASSUME IInv, Next, result' # NoEval PROVE result'.version >= result.version
    BY DEF vars
  <2>1. ASSUME NEW t \in Threads, AcceptResult(t) PROVE result'.version >= result.version
    BY <2>1 DEF AcceptResult, IInv, Snapshots, InRefresh, TypeOK, Evaluations, dataVars
  <2>2. CASE result' = result \/ result' = NoEval
    BY <2>2 DEF IInv, TypeOK, Evaluations
  <2>3. (\E t \in Threads : AcceptResult(t)) \/ result' = result \/ result' = NoEval
    BY DEF Next, Configure, WorldChanges, Run, RefreshStep, WatchStep, SetSubject, SetOptions,
           RequestRefresh, AddListener, RemoveListener, Stop, CallRefresh, CallReturned, CallWatch,
           CancelContext, RefreshBegin, Evaluate, FinishFailure, CallListener,
           ListenerReturns, LoopEnds, WatchDrain, WatchRegister, WatchDecide, UpdaterDone,
           UpdaterTimer, UpdaterTrigger, DebounceTrigger, DebounceDone, DebounceTimer,
           Rerequest, ClearWatch, NotInWatch, dataVars
  <2> QED
    BY <2>1, <2>2, <2>3
<1> QED
  BY <1>1, SpecIInv, PTL DEF Spec, ResultsInOrder

(* While an idle watch has not evaluated the newest subject and options, a *)
(* request is in the channel, about to be sent, or in the hands of another *)
(* updater that hands it on.                                               *)
THEOREM GraphRequestIsHeld == Spec => []RequestIsHeld
<1>1. IInv /\ Handover => RequestIsHeld
  BY DEF Handover, Pending, Held, RequestIsHeld
<1> QED
  BY <1>1, SpecHandover, PTL
=============================================================================
