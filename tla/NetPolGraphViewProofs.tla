------------------------ MODULE NetPolGraphViewProofs ------------------------
(***************************************************************************)
(* For any number of subjects, goroutines and listeners: the model keeps   *)
(* its invariants under the view that drives it, what the screen shows is  *)
(* of the chosen subject and never gives way to an older look at the       *)
(* cluster, and while a Watch goroutine runs before the next key press an  *)
(* auto-refreshing graph has a watch.                                      *)
(***************************************************************************)
EXTENDS NetPolGraphView, NetPolGraphProofs

Sections == {"setSubject", "request", "listen", "unlisten", "cancel", "stop", "begin",
             "watch", "settle"}

ViewTypes ==
    /\ ui \in Seq(Sections)
    /\ chosen \in Subjects
    /\ {shown, lastError, pendingResult, pendingErr} \subseteq Evaluations
    /\ pendingErrSubject \in Subjects \union {None}
    /\ {autoRefresh, started, listening, updateQueued, refreshing, refreshQueued} \subseteq BOOLEAN
    /\ cancelFn \in Watches \union {None}
    /\ handed \in [Threads -> [step : {"check", "store"}, subject : Subjects \union {None}]]
    /\ {toggles, starts, picks, asked} \subseteq Nat

(* The goroutine of Refresh goes for another round.                        *)
Resumes(c) ==
    /\ pc[c] = "returned"
    /\ pc' = [pc EXCEPT ![c] = "lock"]
    /\ UNCHANGED <<dataVars, listeners, refreshMu, watchVars, trigger, requesting,
                   back, eval, todo, world, completed>>

(* A thread between the two halves of queueUpdate is in the call of its    *)
(* listener, and holds the subject of the failure it reports.              *)
HandedInCall ==
    \A t \in Threads : handed[t].step = "store" =>
        /\ pc[t] \in {"callChanged", "callFailed"}
        /\ pc[t] = "callFailed" => handed[t].subject = eval[t].subject

(* The pending failure is of the subject kept beside it.                   *)
PendingErrOfSubject == pendingErr # NoEval => pendingErr.subject = pendingErrSubject

(* DisplayIsOfSubject, in every handler that has not yet to settle.        *)
ScreenOfSubject ==
    ~Settling =>
        /\ shown # NoEval => shown.subject = chosen
        /\ lastError # NoEval => lastError.subject = chosen

(* What is stored was seen before what is in flight, and after what is on  *)
(* the screen; a failure is stored beside results no newer than itself.    *)
SeenInOrder ==
    /\ {pendingResult.version, pendingErr.version, shown.version} \subseteq 0..world
    /\ \A t \in Threads : InRefresh(t) =>
          {pendingResult.version, pendingErr.version, shown.version} \subseteq 0..eval[t].version
    /\ pendingResult # NoEval => shown.version <= pendingResult.version
    /\ pendingErr # NoEval =>
          shown.version <= pendingErr.version /\ pendingResult.version <= pendingErr.version

DisplayInv == HandedInCall /\ PendingErrOfSubject /\ ScreenOfSubject /\ SeenInOrder

Live(w) == w \in Watches /\ w \notin cancelled /\ pc[w] \notin {"off", "clear", "rerequest"}

(* The handlers that end in a fresh start of the evaluation.                *)
Begins ==
    ui \in {<<"cancel", "stop", "listen", "begin">>, <<"stop", "listen", "begin">>,
            <<"listen", "begin">>, <<"begin">>, <<"watch">>}

(* What the UI goroutine may have left to do, and in which state.           *)
Handlers ==
    \/ ui = <<>>
    \/ ui \in {<<"setSubject", "request", "settle">>, <<"request", "settle">>, <<"settle">>}
    \/ /\ ui \in {<<"setSubject", "request", "listen">>, <<"request", "listen">>, <<"listen">>,
                  <<"cancel", "stop", "unlisten">>, <<"stop", "unlisten">>, <<"unlisten">>}
       /\ ~started
    \/ /\ ui \in {<<"cancel", "stop">>, <<"stop">>}
       /\ ~autoRefresh
    \/ Begins

(* The watch that was started last is the only one yet to register, and    *)
(* while auto-refresh is on it is alive, or another is about to start.     *)
AutoInv ==
    /\ Handlers
    /\ \A w \in Watches : pc[w] \in {"spawned", "register"} => cancelFn = w /\ ui = <<>>
    /\ started /\ autoRefresh => Begins \/ Live(cancelFn)

ViewIInv == IInv /\ Handover /\ ViewTypes /\ DisplayInv

-----------------------------------------------------------------------------
(* The model under the view.                                               *)
LEMMA ViewListens == view \in Listeners
BY ViewAssumption DEF view

LEMMA HandlerTypes ==
    {<<"cancel", "stop", "listen", "begin">>, <<"cancel", "stop", "unlisten">>, <<"watch">>,
     <<"cancel", "stop">>, <<"settle">>, <<"setSubject", "request", "settle">>} \subseteq Seq(Sections)
BY DEF Sections

LEMMA SectionTypes ==
    ASSUME ViewTypes, NEW name, Section(name)
    PROVE  ui' \in Seq(Sections)
BY DEF Section, ViewTypes

(* A critical section of the UI goroutine is one call of the model, if any. *)
LEMMA SectionsConfigure ==
    ASSUME ViewTypes, UISections
    PROVE  Configure \/ UNCHANGED vars
<1>1. CASE UISetSubject \/ UIRequest \/ UIStop \/ UICancel
  BY <1>1 DEF UISetSubject, UIRequest, UIStop, UICancel, Configure, ViewTypes
<1>2. CASE UIListen \/ UIUnlisten
  BY <1>2, ViewListens DEF UIListen, UIUnlisten, Configure
<1>3. CASE UIBegin \/ UIWatch \/ UISettle
  BY <1>3 DEF UIBegin, UIWatch, UISettle, StartWatch, Refresh, Configure
<1> QED
  BY <1>1, <1>2, <1>3 DEF UISections

LEMMA EventsAndDrains ==
    ASSUME UIEvents \/ DrainPendingUpdate
    PROVE  UNCHANGED vars
BY DEF UIEvents, Start, StopView, ToggleAutoRefresh, ApplySubject, DrainPendingUpdate

LEMMA RefreshAgainCalls ==
    ASSUME NEW c \in Callers, RefreshAgain(c)
    PROVE  Configure \/ Resumes(c)
BY DEF RefreshAgain, Resumes, Configure

(* Every step of the view takes the model by one of its own steps, by none,*)
(* or starts a caller's next round.                                        *)
LEMMA ModelOfView ==
    ASSUME ViewTypes, [ViewNext]_allVars
    PROVE  [Next]_vars \/ \E c \in Callers : Resumes(c)
<1>1. CASE UNCHANGED allVars
  BY <1>1 DEF allVars
<1>2. ASSUME NEW t \in Threads, ModelStep(t) \/ Notification(t) PROVE [Next]_vars
  BY <1>2 DEF ModelStep, Notification, NotificationChecked, NotificationStored, Next, Run,
              RefreshStep
<1>3. ASSUME NEW w \in Watches, ModelWatchStep(w) PROVE Next
  BY <1>3 DEF ModelWatchStep, Next, Run
<1> QED
  BY <1>1, <1>2, <1>3, SectionsConfigure, EventsAndDrains, RefreshAgainCalls DEF ViewNext, Next

LEMMA ResumesInv ==
    ASSUME IInv, Handover, NEW c \in Callers, Resumes(c)
    PROVE  IInv' /\ Handover'
<1> USE ModelAssumption DEF IInv, Resumes, dataVars, watchVars
<1>0. c \in Threads /\ c \notin Watches
  BY DEF Threads
<1>1. TypeOK'
  BY <1>0 DEF TypeOK
<1>2. Mutex' /\ Snapshots' /\ Reported' /\ Generations' /\ ResultIsOfSubject'
  BY <1>0 DEF TypeOK, Mutex, Snapshots, Reported, Generations, ResultIsOfSubject, InRefresh
<1>3. \A w \in Watches : pc'[w] = pc[w]
  BY <1>0 DEF TypeOK, Threads
<1>4. LiveWatch'
  BY <1>3 DEF LiveWatch
<1>5. Handover'
  BY <1>3 DEF Handover, Registered, Pending, Held
<1> QED
  BY <1>1, <1>2, <1>4, <1>5

LEMMA ModelInv ==
    ASSUME IInv, Handover, ViewTypes, [ViewNext]_allVars
    PROVE  IInv' /\ Handover'
<1>1. CASE UNCHANGED vars
  BY <1>1, NextIInv DEF vars, dataVars, watchVars, threadVars, Handover, Registered, Pending, Held
<1>2. CASE Next
  BY <1>2, NextIInv, ConfigureHandover, RefreshHandover, WatchHandover DEF Next, Run
<1> QED
  BY <1>1, <1>2, ModelOfView, ResumesInv

-----------------------------------------------------------------------------
(* The types of the view.                                                  *)
LEMMA ViewTypesInv ==
    ASSUME IInv, ViewTypes, [ViewNext]_allVars
    PROVE  ViewTypes'
<1> USE DEF screenVars, countVars, pendingVars, refreshVars
<1>0. TypeOK
  BY DEF IInv
<1>1. CASE UNCHANGED allVars
  BY <1>1 DEF allVars, viewVars, ViewTypes
<1>2. CASE UIEvents
  <2>1. ui' \in Seq(Sections)
    <3>1. ui' \in {<<"cancel", "stop", "listen", "begin">>, <<"cancel", "stop", "unlisten">>,
                   <<"watch">>, <<"cancel", "stop">>, <<"settle">>,
                   <<"setSubject", "request", "settle">>}
      BY <1>2 DEF UIEvents, Start, StopView, ToggleAutoRefresh, ApplySubject
    <3> QED
      BY <3>1, HandlerTypes
  <2>2. toggles' \in Nat /\ starts' \in Nat /\ picks' \in Nat
    BY <1>2 DEF UIEvents, Start, StopView, ToggleAutoRefresh, ApplySubject, ViewTypes
  <2>3. started' \in BOOLEAN /\ autoRefresh' \in BOOLEAN
    BY <1>2 DEF UIEvents, Start, StopView, ToggleAutoRefresh, ApplySubject, ViewTypes
  <2> QED
    BY <1>2, <2>1, <2>2, <2>3, NoEvalType
       DEF UIEvents, Start, StopView, ToggleAutoRefresh, ApplySubject, ViewTypes
<1>3. CASE UISections
  <2>1. ui' \in Seq(Sections)
    BY <1>3, SectionTypes DEF UISections, UISetSubject, UIRequest, UICancel, UIStop, UIListen,
                              UIUnlisten,
                              UIBegin, UIWatch, UISettle
  <2>2. CASE UISetSubject \/ UIRequest \/ UIStop \/ UICancel
    BY <2>1, <2>2 DEF UISetSubject, UIRequest, UIStop, UICancel, ViewTypes
  <2>3. CASE UIListen \/ UIUnlisten
    BY <2>1, <2>3 DEF UIListen, UIUnlisten, ViewTypes
  <2>4. CASE UIBegin \/ UIWatch
    BY <1>0, <2>1, <2>4 DEF UIBegin, UIWatch, StartWatch, Refresh, TypeOK, ViewTypes
  <2>5. CASE UISettle
    BY <1>0, <2>1, <2>5, NoEvalType DEF UISettle, Refresh, TypeOK, ViewTypes
  <2> QED
    BY <1>3, <2>2, <2>3, <2>4, <2>5 DEF UISections
<1>4. CASE DrainPendingUpdate
  BY <1>4, NoEvalType DEF DrainPendingUpdate, ViewTypes
<1>5. ASSUME NEW c \in Callers, RefreshAgain(c) PROVE ViewTypes'
  BY <1>5 DEF RefreshAgain, ViewTypes
<1>6. ASSUME NEW t \in Threads, NotificationChecked(t) PROVE ViewTypes'
  <2>1. handed' \in [Threads -> [step : {"check", "store"}, subject : Subjects \union {None}]]
    <3>1. CASE UNCHANGED handed
      BY <3>1 DEF ViewTypes
    <3>2. CASE handed' = [handed EXCEPT ![t].step = "store"]
      BY <3>2 DEF ViewTypes
    <3>3. CASE handed' = [handed EXCEPT ![t] = [step |-> "store", subject |-> lastRefresh.subject]]
      BY <1>0, <3>3 DEF TypeOK, Evaluations, ViewTypes
    <3> QED
      BY <1>6, <3>1, <3>2, <3>3 DEF NotificationChecked
  <2> QED
    BY <1>6, <2>1 DEF NotificationChecked, ViewTypes
<1>7. ASSUME NEW t \in Threads, NotificationStored(t) PROVE ViewTypes'
  BY <1>0, <1>7, NoEvalType DEF NotificationStored, NotHanded, TypeOK, ViewTypes
<1>8. CASE UNCHANGED viewVars
  BY <1>8 DEF viewVars, ViewTypes
<1> QED
  BY <1>1, <1>2, <1>3, <1>4, <1>5, <1>6, <1>7, <1>8 DEF ViewNext, Notification, ModelStep,
                                                        ModelWatchStep

-----------------------------------------------------------------------------
(* What is shown, pending and in flight.                                   *)

(* Apart from queueUpdate no step moves a thread that called a listener.   *)
Elsewhere ==
    \/ UNCHANGED vars
    \/ Configure
    \/ WorldChanges
    \/ \E c \in Callers : Resumes(c)
    \/ \E t \in Threads : ModelStep(t)
    \/ \E w \in Watches : ModelWatchStep(w)

LEMMA CallsStay ==
    ASSUME TypeOK, Elsewhere
    PROVE  \A t \in Threads : pc[t] \in {"callChanged", "callFailed"} =>
              pc'[t] = pc[t] /\ eval'[t] = eval[t]
<1> USE DEF TypeOK
<1>1. CASE UNCHANGED vars
  BY <1>1 DEF vars, threadVars
<1>2. CASE Configure \/ WorldChanges
  BY <1>2 DEF Configure, WorldChanges, SetSubject, SetOptions, RequestRefresh, AddListener,
              RemoveListener, Stop, CallRefresh, CallReturned, CallWatch, CancelContext, threadVars
<1>3. ASSUME NEW t \in Threads, ModelStep(t)
      PROVE  pc[t] \notin {"callChanged", "callFailed"} /\ \A u \in Threads : u # t =>
                pc'[u] = pc[u] /\ eval'[u] = eval[u]
  BY <1>3 DEF ModelStep, RefreshBegin, Evaluate, AcceptResult, FinishFailure, CallListener,
              LoopEnds, Returns, Calling
<1>4. ASSUME NEW w \in Watches, ModelWatchStep(w)
      PROVE  pc[w] \notin {"callChanged", "callFailed"} /\ UNCHANGED eval /\ \A u \in Threads : u # w =>
                pc'[u] = pc[u]
  BY <1>4 DEF ModelWatchStep, WatchStep, WatchDrain, WatchRegister, WatchDecide, UpdaterDone,
              UpdaterTimer, UpdaterTrigger, DebounceTrigger, DebounceDone, DebounceTimer, Rerequest,
              ClearWatch, NotInWatch, Goto, GotoRefresh
<1>5. ASSUME NEW c \in Callers, Resumes(c)
      PROVE  pc[c] \notin {"callChanged", "callFailed"} /\ UNCHANGED eval /\ \A u \in Threads : u # c =>
                pc'[u] = pc[u]
  BY <1>5 DEF Resumes
<1> QED
  BY <1>1, <1>2, <1>3, <1>4, <1>5 DEF Elsewhere

(* A thread that is in Refresh after a step was so before it, or begins    *)
(* with the cluster of today.                                              *)
LEMMA ModelSees ==
    ASSUME TypeOK, [Next]_vars \/ \E c \in Callers : Resumes(c)
    PROVE  /\ world' \in Nat /\ world <= world'
           /\ \A t \in Threads : InRefresh(t)' =>
                 \/ InRefresh(t) /\ eval'[t].version = eval[t].version
                 \/ eval'[t].version = world
<1> USE DEF TypeOK
<1>1. CASE UNCHANGED vars
  BY <1>1 DEF vars, threadVars, InRefresh
<1>2. CASE Configure \/ WorldChanges
  <2>1. CASE UNCHANGED <<pc, eval>>
    BY <1>2, <2>1 DEF InRefresh, Configure, WorldChanges, SetSubject, SetOptions, RequestRefresh,
                      AddListener,
              RemoveListener, Stop, CallRefresh, CallReturned, CallWatch, CancelContext
  <2>2. ASSUME NEW t \in Threads, UNCHANGED <<eval, world>>, 
               pc' = [pc EXCEPT ![t] = "lock"] \/ pc' = [pc EXCEPT ![t] = "off"] \/ pc' = [pc EXCEPT ![t] = "spawned"]
        PROVE  /\ world' \in Nat /\ world <= world'
               /\ \A u \in Threads : InRefresh(u)' => InRefresh(u) /\ eval'[u].version = eval[u].version
    BY <2>2 DEF InRefresh
  <2> QED
    BY <1>2, <2>1, <2>2 DEF Configure, WorldChanges, SetSubject, SetOptions, RequestRefresh,
                            AddListener,
              RemoveListener, Stop, CallRefresh, CallReturned, CallWatch, CancelContext,
              threadVars, Threads
<1>3. ASSUME NEW t \in Threads, RefreshBegin(t) \/ RefreshStep(t)
      PROVE  /\ world' = world
             /\ \A u \in Threads : InRefresh(u)' =>
                 \/ InRefresh(u) /\ eval'[u].version = eval[u].version
                 \/ eval'[u].version = world
  <2>1. world' = world
    BY <1>3 DEF RefreshBegin, RefreshStep, Evaluate, AcceptResult, FinishFailure, CallListener,
                ListenerReturns, LoopEnds, NotInRefresh
  <2>2. \A u \in Threads : u # t => pc'[u] = pc[u] /\ eval'[u] = eval[u]
    BY <1>3 DEF RefreshBegin, RefreshStep, Evaluate, AcceptResult, FinishFailure, CallListener,
                ListenerReturns, LoopEnds, Returns
  <2>3. CASE RefreshBegin(t)
    BY <2>1, <2>2, <2>3 DEF RefreshBegin, InRefresh
  <2>4. CASE RefreshStep(t)
    <3>1. InRefresh(t) 
      BY <2>4 DEF RefreshStep, Evaluate, AcceptResult, FinishFailure, CallListener, ListenerReturns,
                  LoopEnds, InRefresh
    <3>2. CASE Returns(t)
      <4>1. ~InRefresh(t)'
        BY <3>2 DEF Returns, InRefresh
      <4> QED
        BY <2>1, <2>2, <4>1 DEF InRefresh
    <3>3. CASE ~Returns(t)
      <4>1. eval'[t].version = eval[t].version
        BY <2>4, <3>3 DEF RefreshStep, Evaluate, AcceptResult, FinishFailure, CallListener,
                          ListenerReturns,
                  LoopEnds, Evaluations
      <4> QED
        BY <2>1, <2>2, <3>1, <4>1 DEF InRefresh
    <3> QED
      BY <3>2, <3>3
  <2> QED
    BY <1>3, <2>3, <2>4
<1>4. ASSUME NEW w \in Threads, UNCHANGED <<eval, world>>, ~InRefresh(w)', \A u \in Threads : u # w => pc'[u] = pc[u]
      PROVE  \A u \in Threads : InRefresh(u)' => InRefresh(u) /\ eval'[u].version = eval[u].version
  BY <1>4 DEF InRefresh
<1>5. ASSUME NEW w \in Watches, WatchStep(w) \/ UpdaterTimer(w)
      PROVE  UNCHANGED <<eval, world>> /\ ~InRefresh(w)' /\ \A u \in Threads : u # w => pc'[u] = pc[u]
  BY <1>5 DEF WatchStep, WatchDrain, WatchRegister, WatchDecide, UpdaterDone, UpdaterTimer,
              UpdaterTrigger, DebounceTrigger, DebounceDone, DebounceTimer, Rerequest, ClearWatch,
              NotInWatch, Goto, GotoRefresh, InRefresh, Threads
<1>6. ASSUME NEW c \in Callers, Resumes(c)
      PROVE  UNCHANGED <<eval, world>> /\ ~InRefresh(c)' /\ \A u \in Threads : u # c => pc'[u] = pc[u]
  BY <1>6 DEF Resumes, InRefresh, Threads
<1> QED
  BY <1>1, <1>2, <1>3, <1>4, <1>5, <1>6 DEF Next, Run, Threads

(* What a step does to the view decides what may be shown after it.         *)
LEMMA OtherSteps ==
    ASSUME ViewTypes, [ViewNext]_allVars
    PROVE  \/ UIEvents \/ DrainPendingUpdate
           \/ \E t \in Threads : Notification(t)
           \/ Elsewhere /\ (UNCHANGED viewVars \/ UISections \/ \E c \in Callers : RefreshAgain(c))
BY SectionsConfigure, RefreshAgainCalls DEF ViewNext, allVars, Elsewhere, ModelStep, ModelWatchStep

LEMMA HandedInCallKept ==
    ASSUME IInv, ViewTypes, HandedInCall, [ViewNext]_allVars
    PROVE  HandedInCall'
<1> USE DEF IInv, screenVars, countVars, pendingVars, refreshVars
<1>1. CASE UNCHANGED handed /\ Elsewhere
  BY <1>1, CallsStay DEF HandedInCall
<1>2. CASE UIEvents \/ DrainPendingUpdate
  <2>1. UNCHANGED handed
    BY <1>2 DEF UIEvents, Start, StopView, ToggleAutoRefresh, ApplySubject, DrainPendingUpdate
  <2> QED
    BY <1>1, <1>2, <2>1, EventsAndDrains DEF Elsewhere
<1>3. ASSUME NEW t \in Threads, Notification(t) PROVE HandedInCall'
  <2>1. CASE /\ UNCHANGED vars
             /\ \/ /\ pc[t] = "callChanged"
                   /\ handed' = [handed EXCEPT ![t].step = "store"]
                \/ /\ pc[t] = "callFailed"
                   /\ handed' = [handed EXCEPT ![t] = [step |-> "store", subject |-> lastRefresh.subject]]
    BY <2>1 DEF vars, threadVars, HandedInCall, Reported, ViewTypes
  <2>2. CASE ListenerReturns(t)
    <3>1. /\ UNCHANGED eval
          /\ handed'[t].step # "store"
          /\ \A u \in Threads : u # t => pc'[u] = pc[u] /\ handed'[u] = handed[u]
      BY <1>3, <2>2 DEF Notification, NotificationChecked, NotificationStored, NotHanded,
                        ListenerReturns, vars, threadVars, TypeOK, ViewTypes
    <3> QED
      BY <3>1 DEF HandedInCall
  <2> QED
    BY <1>3, <2>1, <2>2 DEF Notification, NotificationChecked, NotificationStored
<1>4. CASE UNCHANGED viewVars \/ UISections \/ \E c \in Callers : RefreshAgain(c)
  <2>1. UNCHANGED handed
    BY <1>4 DEF viewVars, UISections, UISetSubject, UIRequest, UIStop, UICancel, UIListen,
                UIUnlisten,
                UIBegin, UIWatch, UISettle, RefreshAgain
  <2> QED
    BY <1>1, <1>2, <1>3, <2>1, OtherSteps
<1> QED
  BY <1>1, <1>2, <1>3, <1>4, OtherSteps

LEMMA PendingErrKept ==
    ASSUME IInv, ViewTypes, HandedInCall, PendingErrOfSubject, [ViewNext]_allVars
    PROVE  PendingErrOfSubject'
<1> USE DEF screenVars, countVars, pendingVars, refreshVars
<1>1. CASE UIEvents \/ DrainPendingUpdate
  BY <1>1 DEF UIEvents, Start, StopView, ToggleAutoRefresh, ApplySubject, DrainPendingUpdate,
              PendingErrOfSubject
<1>2. ASSUME NEW t \in Threads, Notification(t) PROVE PendingErrOfSubject'
  BY <1>2 DEF Notification, NotificationChecked, NotificationStored, HandedInCall,
              PendingErrOfSubject
<1>3. CASE UNCHANGED viewVars \/ UISections \/ \E c \in Callers : RefreshAgain(c)
  BY <1>3 DEF viewVars, UISections, UISetSubject, UIRequest, UIStop, UICancel, UIListen, UIUnlisten,
              UIBegin, UIWatch, UISettle, RefreshAgain, PendingErrOfSubject
<1> QED
  BY <1>1, <1>2, <1>3, OtherSteps

LEMMA TailSettles ==
    ASSUME ViewTypes, NEW name, Section(name)
    PROVE  /\ Settling' => Settling
           /\ name # "settle" => (Settling <=> Settling')
<1>1. /\ ui \in Seq(Sections) /\ ui # <<>> /\ name = ui[1] /\ ui' = Tail(ui)
  BY DEF Section, ViewTypes
<1>2. Len(ui') = Len(ui) - 1 /\ DOMAIN ui' = 1..(Len(ui) - 1) /\ DOMAIN ui = 1..Len(ui)
      /\ \A i \in DOMAIN ui' : ui'[i] = ui[i + 1]
  BY <1>1
<1>3. Settling' => Settling
  BY <1>1, <1>2 DEF Settling
<1>4. ASSUME name # "settle", Settling PROVE Settling'
  <2>1. PICK i \in DOMAIN ui : ui[i] = "settle"
    BY <1>4 DEF Settling
  <2>2. i - 1 \in DOMAIN ui' /\ ui'[i - 1] = "settle"
    BY <1>1, <1>2, <1>4, <2>1
  <2> QED
    BY <2>2 DEF Settling
<1> QED
  BY <1>3, <1>4

(* What each kind of step does to the screen.                               *)
LEMMA ScreenSteps ==
    ASSUME ViewTypes, [ViewNext]_allVars
    PROVE  \/ UNCHANGED <<chosen, shown, lastError>> /\ (Settling' <=> Settling)
           \/ UISettle
           \/ \E s \in Subjects : ApplySubject(s)
           \/ DrainPendingUpdate
<1> USE DEF screenVars
<1>1. CASE UNCHANGED <<ui, screenVars>>
  BY <1>1 DEF Settling
<1>2. CASE Start \/ StopView \/ ToggleAutoRefresh
  <2>1. ui = <<>> /\ UNCHANGED screenVars
    BY <1>2 DEF Start, StopView, ToggleAutoRefresh, UIReady
  <2>2. ui' \in {<<"cancel", "stop", "listen", "begin">>, <<"cancel", "stop", "unlisten">>,
                 <<"watch">>, <<"cancel", "stop">>}
    BY <1>2 DEF Start, StopView, ToggleAutoRefresh
  <2>3. ~Settling /\ ~Settling'
    BY <2>1, <2>2 DEF Settling
  <2> QED
    BY <2>1, <2>3 DEF Settling
<1>3. CASE \/ UISetSubject \/ UIRequest \/ UIStop \/ UICancel \/ UIListen \/ UIUnlisten
           \/ UIBegin \/ UIWatch
  <2>1. UNCHANGED screenVars
    BY <1>3 DEF UISetSubject, UIRequest, UIStop, UICancel, UIListen, UIUnlisten, UIBegin, UIWatch
  <2>2. Settling' <=> Settling
    BY <1>3, TailSettles DEF UISetSubject, UIRequest, UIStop, UICancel, UIListen, UIUnlisten,
                             UIBegin, UIWatch
  <2> QED
    BY <2>1, <2>2 DEF Settling
<1>4. CASE \/ \E c \in Callers : RefreshAgain(c)
           \/ \E t \in Threads : ModelStep(t) \/ Notification(t)
           \/ \E w \in Watches : ModelWatchStep(w)
           \/ UNCHANGED viewVars
           \/ UNCHANGED allVars
  BY <1>1, <1>4 DEF RefreshAgain, ModelStep, Notification, NotificationChecked,
                    NotificationStored, ModelWatchStep,
              viewVars, allVars
<1> QED
  BY <1>2, <1>3, <1>4 DEF ViewNext, UIEvents, UISections

LEMMA ApplySettles ==
    ASSUME NEW s, ApplySubject(s)
    PROVE  Settling'
<1>1. CASE ui' = <<"settle">>
  <2>1. 1 \in DOMAIN ui' /\ ui'[1] = "settle"
    BY <1>1
  <2> QED
    BY <2>1 DEF Settling
<1>2. CASE ui' = <<"setSubject", "request", "settle">>
  <2>1. 3 \in DOMAIN ui' /\ ui'[3] = "settle"
    BY <1>2
  <2> QED
    BY <2>1 DEF Settling
<1> QED
  BY <1>1, <1>2 DEF ApplySubject

LEMMA ScreenKept ==
    ASSUME ViewTypes, PendingErrOfSubject, ScreenOfSubject, [ViewNext]_allVars
    PROVE  ScreenOfSubject'
<1>1. CASE UISettle
  BY <1>1 DEF UISettle, ScreenOfSubject
<1>2. ASSUME NEW s \in Subjects, ApplySubject(s) PROVE ScreenOfSubject'
  BY <1>2, ApplySettles DEF ScreenOfSubject
<1>3. CASE DrainPendingUpdate
  <2>1. ~Settling /\ ~Settling'
    BY <1>3 DEF DrainPendingUpdate, Settling
  <2> QED
    BY <1>3, <2>1 DEF DrainPendingUpdate, ScreenOfSubject, PendingErrOfSubject
<1>4. CASE UNCHANGED <<chosen, shown, lastError>> /\ (Settling' <=> Settling)
  BY <1>4 DEF ScreenOfSubject
<1> QED
  BY <1>1, <1>2, <1>3, <1>4, ScreenSteps

(* Nothing new is stored or shown: the order is kept.                       *)
LEMMA OrderKept ==
    ASSUME TypeOK, SeenInOrder, ViewTypes,
           [Next]_vars \/ \E c \in Callers : Resumes(c),
           pendingResult' \in {pendingResult, NoEval},
           pendingErr' \in {pendingErr, NoEval},
           shown' \in {shown, NoEval}
    PROVE  SeenInOrder'
<1>0. /\ NoEval.version = 0 /\ world \in Nat
      /\ {pendingResult.version, pendingErr.version, shown.version} \subseteq Nat
      /\ \A t \in Threads : eval[t].version \in Nat
  BY DEF NoEval, TypeOK, ViewTypes, Evaluations
<1>1. /\ pendingResult'.version \in {pendingResult.version, 0}
      /\ pendingErr'.version \in {pendingErr.version, 0}
      /\ shown'.version \in {shown.version, 0}
  BY <1>0
<1>2. /\ world' \in Nat /\ world <= world'
      /\ \A t \in Threads : InRefresh(t)' =>
            \/ InRefresh(t) /\ eval'[t].version = eval[t].version
            \/ eval'[t].version = world
  BY ModelSees
<1>3. {pendingResult'.version, pendingErr'.version, shown'.version} \subseteq 0..world'
  BY <1>0, <1>1, <1>2 DEF SeenInOrder
<1>4. ASSUME NEW t \in Threads, InRefresh(t)'
      PROVE  {pendingResult'.version, pendingErr'.version, shown'.version} \subseteq 0..eval'[t].version
  <2>1. CASE eval'[t].version = world
    BY <1>0, <1>1, <2>1 DEF SeenInOrder
  <2>2. CASE InRefresh(t) /\ eval'[t].version = eval[t].version
    BY <1>0, <1>1, <2>2 DEF SeenInOrder
  <2> QED
    BY <1>2, <1>4, <2>1, <2>2
<1>5. /\ pendingResult' # NoEval => shown'.version <= pendingResult'.version
      /\ pendingErr' # NoEval =>
            shown'.version <= pendingErr'.version /\ pendingResult'.version <= pendingErr'.version
  BY <1>0, <1>1 DEF SeenInOrder
<1> QED
  BY <1>3, <1>4, <1>5 DEF SeenInOrder

LEMMA SeenInOrderKept ==
    ASSUME IInv, ViewTypes, HandedInCall, SeenInOrder, [ViewNext]_allVars
    PROVE  SeenInOrder'
<1> USE DEF IInv, screenVars, countVars, pendingVars, refreshVars
<1>0. /\ NoEval.version = 0 /\ world \in Nat
      /\ {pendingResult.version, pendingErr.version, shown.version} \subseteq Nat
      /\ \A t \in Threads : eval[t].version \in Nat
  BY DEF NoEval, TypeOK, ViewTypes, Evaluations
<1>1. CASE DrainPendingUpdate
  <2>1. /\ UNCHANGED vars /\ pendingResult' = NoEval /\ pendingErr' = NoEval
        /\ shown' \in {shown, pendingResult}
    BY <1>1 DEF DrainPendingUpdate
  <2>2. shown'.version \in {shown.version, pendingResult.version}
    BY <2>1
  <2> QED
    BY <1>0, <2>1, <2>2 DEF SeenInOrder, vars, threadVars, InRefresh
<1>2. ASSUME NEW t \in Threads, NotificationStored(t) PROVE SeenInOrder'
  <2>1. UNCHANGED <<eval, world, shown>> /\ InRefresh(t) /\ \A u \in Threads : InRefresh(u)' => InRefresh(u)
    BY <1>2 DEF NotificationStored, ListenerReturns, NotInRefresh, InRefresh, TypeOK
  <2>2. \A u \in Threads : InRefresh(u) => u = t
    BY <2>1 DEF Mutex
  <2>3. eval[t].version <= world
    BY <2>1 DEF Snapshots
  <2>4. CASE pendingResult' = eval[t] /\ pendingErr' = NoEval
    BY <1>0, <2>1, <2>2, <2>3, <2>4 DEF SeenInOrder
  <2>5. CASE UNCHANGED pendingResult /\ pendingErr' = eval[t]
    BY <1>0, <2>1, <2>2, <2>3, <2>5 DEF SeenInOrder
  <2> QED
    BY <1>2, <2>4, <2>5 DEF NotificationStored
<1>3. CASE /\ pendingResult' \in {pendingResult, NoEval}
           /\ pendingErr' \in {pendingErr, NoEval}
           /\ shown' \in {shown, NoEval}
  BY <1>3, OrderKept, ModelOfView
<1>4. CASE UIEvents
  BY <1>3, <1>4 DEF UIEvents, Start, StopView, ToggleAutoRefresh, ApplySubject
<1>5. CASE UISections
  BY <1>3, <1>5 DEF UISections, UISetSubject, UIRequest, UIStop, UICancel, UIListen, UIUnlisten,
                    UIBegin, UIWatch, UISettle
<1>6. CASE UNCHANGED viewVars \/ (\E c \in Callers : RefreshAgain(c)) \/ \E t \in Threads : NotificationChecked(t)
  BY <1>3, <1>6 DEF viewVars, RefreshAgain, NotificationChecked
<1> QED
  BY <1>1, <1>2, <1>4, <1>5, <1>6, OtherSteps DEF Notification

-----------------------------------------------------------------------------
LEMMA ViewInitInv == ViewInit => ViewIInv
<1> SUFFICES ASSUME ViewInit PROVE ViewIInv
  OBVIOUS
<1>1. IInv /\ Handover
  BY InitIInv, ModelAssumption DEF ViewInit, Init, Handover, Registered, Pending, Threads
<1>2. ui = <<"setSubject", "request", "listen">>
  BY DEF ViewInit
<1>3. ui \in Seq(Sections) /\ ~Settling
  BY <1>2 DEF Sections, Settling
<1>4. ViewTypes
  <2>1. {autoRefresh, started, listening, updateQueued, refreshing, refreshQueued} \subseteq BOOLEAN
    BY DEF ViewInit
  <2>2. handed \in [Threads -> [step : {"check", "store"}, subject : Subjects \union {None}]]
    BY DEF ViewInit, NotHanded
  <2>3. {shown, lastError, pendingResult, pendingErr} \subseteq Evaluations /\ chosen \in Subjects
    BY NoEvalType DEF ViewInit
  <2>4. /\ pendingErrSubject \in Subjects \union {None}
        /\ cancelFn \in Watches \union {None}
        /\ {toggles, starts, picks, asked} \subseteq Nat
    BY DEF ViewInit
  <2> QED
    BY <1>3, <2>1, <2>2, <2>3, <2>4 DEF ViewTypes
<1>5. HandedInCall /\ PendingErrOfSubject /\ ScreenOfSubject
  BY DEF ViewInit, HandedInCall, NotHanded, PendingErrOfSubject, ScreenOfSubject
<1>6. SeenInOrder
  <2>1. world = 0 /\ \A t \in Threads : ~InRefresh(t)
    BY DEF ViewInit, Init, InRefresh
  <2> QED
    BY <2>1 DEF ViewInit, SeenInOrder, NoEval
<1> QED
  BY <1>1, <1>4, <1>5, <1>6 DEF ViewIInv, DisplayInv

LEMMA ViewNextInv == ViewIInv /\ [ViewNext]_allVars => ViewIInv'
BY ModelInv, ViewTypesInv, HandedInCallKept, PendingErrKept, ScreenKept, SeenInOrderKept
   DEF ViewIInv, DisplayInv

LEMMA ViewSpecInv == ViewSpec => []ViewIInv
BY ViewInitInv, ViewNextInv, PTL DEF ViewSpec

(* Every variable of the model and of the view keeps its type.             *)
THEOREM ViewTypesOK == ViewSpec => []ViewTypeOK
<1>1. ViewIInv => ViewTypeOK
  BY DEF ViewIInv, IInv, ViewTypes, ViewTypeOK, Sections
<1> QED
  BY <1>1, ViewSpecInv, PTL

(* Under the calls the view makes, from whichever goroutine, the model     *)
(* never holds a result of a subject that was left.                        *)
THEOREM ViewResultIsOfSubject == ViewSpec => []ResultIsOfSubject
<1>1. ViewIInv => ResultIsOfSubject
  BY DEF ViewIInv, IInv
<1> QED
  BY <1>1, ViewSpecInv, PTL

(* What the model promises any caller it promises this one, which starts   *)
(* Refresh over from its own goroutine: a listener finds the failure it is *)
(* told of in LastRefresh, one watch is live at most, and no change made   *)
(* while a watch lives is forgotten.                                       *)
THEOREM ViewKeepsModel ==
    ViewSpec => [](FailureIsLastRefresh /\ OneLiveWatch /\ RequestIsHeld)
<1>1. ViewIInv => FailureIsLastRefresh /\ OneLiveWatch /\ RequestIsHeld
  BY DEF ViewIInv, IInv, Reported, FailureIsLastRefresh, LiveWatch, OneLiveWatch, Handover,
         Pending, Held, RequestIsHeld
<1> QED
  BY <1>1, ViewSpecInv, PTL

(* Between two handlers the screen shows a result and a failure of the     *)
(* chosen subject or none, whatever was in flight when it was chosen.      *)
THEOREM ViewDisplayIsOfSubject == ViewSpec => []DisplayIsOfSubject
<1>1. ViewIInv => DisplayIsOfSubject
  BY DEF ViewIInv, DisplayInv, ScreenOfSubject, Settling, DisplayIsOfSubject
<1> QED
  BY <1>1, ViewSpecInv, PTL

-----------------------------------------------------------------------------
(* The refinement: draining the slots is Show or Fail, picking a subject   *)
(* is Choose, and nothing else is seen.                                    *)
LEMMA DrainShows ==
    ASSUME ViewIInv, DrainPendingUpdate
    PROVE  [Display!Next]_(Display!vars)
<1> USE DEF ViewIInv, DisplayInv
<1>0. /\ NoEval.version = 0
      /\ {pendingResult.version, pendingErr.version, shown.version} \subseteq Nat
  BY DEF NoEval, ViewTypes, Evaluations
<1>1. ~Settling /\ ~Settling' /\ UNCHANGED chosen
  BY DEF DrainPendingUpdate, Settling
<1>2. CASE pendingResult # NoEval /\ pendingResult.subject = chosen
  <2>1. shown' = pendingResult
    BY <1>2 DEF DrainPendingUpdate
  <2>2. shown'.version >= shown.version
    BY <1>0, <1>2, <2>1 DEF SeenInOrder
  <2>3. lastError' # NoEval => lastError'.subject = chosen /\ lastError'.version >= shown'.version
    BY <1>0, <1>2, <2>1 DEF DrainPendingUpdate, SeenInOrder, PendingErrOfSubject
  <2> QED
    BY <1>1, <1>2, <2>1, <2>2, <2>3 DEF Display!Next, Display!Show
<1>3. CASE /\ ~(pendingResult # NoEval /\ pendingResult.subject = chosen)
           /\ pendingErr # NoEval /\ pendingErrSubject = chosen
  <2>1. shown' = shown /\ lastError' = pendingErr
    BY <1>3 DEF DrainPendingUpdate
  <2>2. lastError'.subject = chosen /\ lastError'.version >= shown.version
    BY <1>0, <1>3, <2>1 DEF SeenInOrder, PendingErrOfSubject
  <2> QED
    BY <1>1, <2>1, <2>2 DEF Display!Next, Display!Fail
<1>4. CASE /\ ~(pendingResult # NoEval /\ pendingResult.subject = chosen)
           /\ ~(pendingErr # NoEval /\ pendingErrSubject = chosen)
  BY <1>1, <1>4 DEF DrainPendingUpdate, Display!vars
<1> QED
  BY <1>2, <1>3, <1>4

LEMMA StepsAreSeen == ViewIInv /\ [ViewNext]_allVars => [Display!Next]_(Display!vars)
<1> SUFFICES ASSUME ViewIInv, [ViewNext]_allVars PROVE [Display!Next]_(Display!vars)
  OBVIOUS
<1>1. CASE UNCHANGED <<chosen, shown, lastError>> /\ (Settling' <=> Settling)
  BY <1>1 DEF Display!vars
<1>2. CASE UISettle
  <2>1. Settling /\ shown' = NoEval /\ lastError' = NoEval /\ UNCHANGED chosen
    <3>1. ui \in Seq(Sections) /\ ui # <<>> /\ ui[1] = "settle"
      BY <1>2 DEF UISettle, Section, ViewIInv, ViewTypes
    <3>2. 1 \in DOMAIN ui
      BY <3>1
    <3> QED
      BY <1>2, <3>1, <3>2 DEF UISettle, Settling
  <2> QED
    BY <2>1 DEF Display!vars
<1>3. ASSUME NEW s \in Subjects, ApplySubject(s) PROVE Display!Choose
  <2>1. Settling'
    BY <1>3, ApplySettles
  <2> QED
    BY <1>3, <2>1 DEF ApplySubject, Display!Choose
<1> QED
  BY <1>1, <1>2, <1>3, DrainShows, ScreenSteps DEF Display!Next, ViewIInv

(* Model and view together show what the user was promised: a result and   *)
(* a failure of the chosen subject, neither replaced by an older one.      *)
THEOREM ViewImplementsDisplay == ViewSpec => ImplementsDisplay
<1>1. ViewInit => Display!Init
  <2> SUFFICES ASSUME ViewInit PROVE Display!Init
    OBVIOUS
  <2> QED
    BY DEF ViewInit, Display!Init
<1> QED
  BY <1>1, StepsAreSeen, ViewSpecInv, PTL DEF ViewSpec, ImplementsDisplay, Display!Spec

-----------------------------------------------------------------------------
(* Auto-refresh.                                                           *)

LEMMA HeadAndTail ==
    /\ Head(<<"cancel", "stop", "listen", "begin">>) = "cancel"
    /\ Tail(<<"cancel", "stop", "listen", "begin">>) = <<"stop", "listen", "begin">>
    /\ Head(<<"stop", "listen", "begin">>) = "stop"
    /\ Tail(<<"stop", "listen", "begin">>) = <<"listen", "begin">>
    /\ Head(<<"listen", "begin">>) = "listen"
    /\ Tail(<<"listen", "begin">>) = <<"begin">>
    /\ Head(<<"begin">>) = "begin"
    /\ Tail(<<"begin">>) = <<>>
    /\ Head(<<"setSubject", "request", "listen">>) = "setSubject"
    /\ Tail(<<"setSubject", "request", "listen">>) = <<"request", "listen">>
    /\ Head(<<"request", "listen">>) = "request"
    /\ Tail(<<"request", "listen">>) = <<"listen">>
    /\ Head(<<"listen">>) = "listen"
    /\ Tail(<<"listen">>) = <<>>
    /\ Head(<<"setSubject", "request", "settle">>) = "setSubject"
    /\ Tail(<<"setSubject", "request", "settle">>) = <<"request", "settle">>
    /\ Head(<<"request", "settle">>) = "request"
    /\ Tail(<<"request", "settle">>) = <<"settle">>
    /\ Head(<<"settle">>) = "settle"
    /\ Tail(<<"settle">>) = <<>>
    /\ Head(<<"cancel", "stop">>) = "cancel"
    /\ Tail(<<"cancel", "stop">>) = <<"stop">>
    /\ Head(<<"stop">>) = "stop"
    /\ Tail(<<"stop">>) = <<>>
    /\ Head(<<"cancel", "stop", "unlisten">>) = "cancel"
    /\ Tail(<<"cancel", "stop", "unlisten">>) = <<"stop", "unlisten">>
    /\ Head(<<"stop", "unlisten">>) = "stop"
    /\ Tail(<<"stop", "unlisten">>) = <<"unlisten">>
    /\ Head(<<"unlisten">>) = "unlisten"
    /\ Tail(<<"unlisten">>) = <<>>
    /\ Head(<<"watch">>) = "watch"
    /\ Tail(<<"watch">>) = <<>>
OBVIOUS

(* The next section of each handler, and the state it leaves.              *)
LEMMA HandlerSections ==
    ASSUME ViewTypes, AutoInv, UISections
    PROVE  /\ ui # <<>>
           /\ UNCHANGED <<started, autoRefresh>>
           /\ Handlers'
           /\ UIBegin \/ UIWatch => ui' = <<>>
           /\ Begins => UIBegin \/ UIWatch \/ Begins'
           /\ UICancel \/ UIStop => Begins \/ ~started \/ ~autoRefresh
<1>1. ui # <<>> /\ ui' = Tail(ui)
  BY DEF UISections, UISetSubject, UIRequest, UIStop, UICancel, UIListen, UIUnlisten,
         UIBegin, UIWatch, UISettle, Section
<1>2. UNCHANGED <<started, autoRefresh>>
  BY DEF UISections, UISetSubject, UIRequest, UIStop, UICancel, UIListen, UIUnlisten,
         UIBegin, UIWatch, UISettle, screenVars
<1>3. /\ UIBegin => Head(ui) = "begin"
      /\ UIWatch => Head(ui) = "watch"
      /\ UICancel => Head(ui) = "cancel"
      /\ UIStop => Head(ui) = "stop"
      /\ Head(ui) = "begin" => UIBegin
      /\ Head(ui) = "watch" => UIWatch
  BY DEF UISections, UISetSubject, UIRequest, UIStop, UICancel, UIListen, UIUnlisten,
         UIBegin, UIWatch, UISettle, Section
<1>4. CASE ui \in {<<"setSubject", "request", "settle">>, <<"request", "settle">>, <<"settle">>}
  <2>1. \/ ui' = <<"request", "settle">> /\ Head(ui) = "setSubject"
        \/ ui' = <<"settle">> /\ Head(ui) = "request"
        \/ ui' = <<>> /\ Head(ui) = "settle"
    BY <1>1, <1>4, HeadAndTail, Zenon
  <2>2. ~Begins
    BY <1>4 DEF Begins
  <2>3. Handlers'
    BY <2>1 DEF Handlers
  <2> QED
    BY <1>1, <1>2, <1>3, <2>1, <2>2, <2>3
<1>5. CASE /\ ui \in {<<"setSubject", "request", "listen">>, <<"request", "listen">>, <<"listen">>,
                      <<"cancel", "stop", "unlisten">>, <<"stop", "unlisten">>, <<"unlisten">>}
           /\ ~started
  <2>1. \/ ui' = <<"request", "listen">> /\ Head(ui) = "setSubject"
        \/ ui' = <<"listen">> /\ Head(ui) = "request"
        \/ ui' = <<"stop", "unlisten">> /\ Head(ui) = "cancel"
        \/ ui' = <<"unlisten">> /\ Head(ui) = "stop"
        \/ ui' = <<>> /\ Head(ui) \in {"listen", "unlisten"}
    BY <1>1, <1>5, HeadAndTail, Zenon
  <2>2. ~Begins
    BY <1>5 DEF Begins
  <2>3. Handlers'
    BY <1>2, <1>5, <2>1 DEF Handlers
  <2> QED
    BY <1>1, <1>2, <1>3, <1>5, <2>1, <2>2, <2>3
<1>6. CASE ui \in {<<"cancel", "stop">>, <<"stop">>} /\ ~autoRefresh
  <2>1. \/ ui' = <<"stop">> /\ Head(ui) = "cancel"
        \/ ui' = <<>> /\ Head(ui) = "stop"
    BY <1>1, <1>6, HeadAndTail, Zenon
  <2>2. ~Begins
    BY <1>6 DEF Begins
  <2>3. Handlers'
    BY <1>2, <1>6, <2>1 DEF Handlers
  <2> QED
    BY <1>1, <1>2, <1>3, <1>6, <2>1, <2>2, <2>3
<1>7. CASE Begins
  <2>1. \/ ui' = <<"stop", "listen", "begin">> /\ Head(ui) = "cancel"
        \/ ui' = <<"listen", "begin">> /\ Head(ui) = "stop"
        \/ ui' = <<"begin">> /\ Head(ui) = "listen"
        \/ ui' = <<>> /\ Head(ui) \in {"begin", "watch"}
    BY <1>1, <1>7, HeadAndTail, Zenon DEF Begins
  <2>2. ui' = <<>> \/ Begins'
    BY <2>1 DEF Begins
  <2>3. Handlers'
    BY <2>2 DEF Handlers
  <2> QED
    BY <1>1, <1>2, <1>3, <1>7, <2>1, <2>2, <2>3
<1> QED
  BY <1>1, <1>4, <1>5, <1>6, <1>7 DEF AutoInv, Handlers

(* What runs apart from the UI goroutine.                                   *)
Background ==
    \/ WorldChanges
    \/ \E t \in Threads : RefreshBegin(t) \/ RefreshStep(t)
    \/ \E w \in Watches : WatchStep(w) \/ UpdaterTimer(w)
    \/ \E c \in Callers : CallReturned(c) \/ Resumes(c)
    \/ UNCHANGED vars

(* Refresh moves one thread, and at its end to where it was called.         *)
LEMMA RefreshMoves ==
    ASSUME TypeOK, NEW t \in Threads, RefreshBegin(t) \/ RefreshStep(t)
    PROVE  /\ UNCHANGED cancelled
           /\ pc[t] = "lock" \/ InRefresh(t)
           /\ \A u \in Threads : u # t => pc'[u] = pc[u]
           /\ \/ pc'[t] = back[t]
              \/ pc'[t] \in {"evaluate", "accept", "fail", "changed", "failed", "callChanged",
                             "callFailed"}
BY DEF RefreshBegin, RefreshStep, Evaluate, AcceptResult, FinishFailure, CallListener,
       ListenerReturns, LoopEnds, Returns, Calling, NotInRefresh, watchVars, InRefresh, TypeOK

(* No goroutine but the UI's spawns a watch.                               *)
LEMMA NewWatches ==
    ASSUME TypeOK, Background, NEW w \in Watches, pc'[w] \in {"spawned", "register"}
    PROVE  pc[w] \in {"spawned", "register"}
<1> USE ModelAssumption DEF TypeOK
<1>1. CASE WorldChanges \/ UNCHANGED vars
  BY <1>1 DEF WorldChanges, vars, threadVars
<1>2. CASE \E t \in Threads : RefreshBegin(t) \/ RefreshStep(t)
  BY <1>2, RefreshMoves DEF Threads
<1>3. CASE \E u \in Watches : WatchStep(u) \/ UpdaterTimer(u)
  BY <1>3 DEF WatchStep, WatchDrain, WatchRegister, WatchDecide, UpdaterDone, UpdaterTimer,
              UpdaterTrigger, DebounceTrigger, DebounceDone, DebounceTimer, Rerequest, ClearWatch,
              Goto, GotoRefresh, Threads
<1>4. CASE \E c \in Callers : CallReturned(c) \/ Resumes(c)
  BY <1>4 DEF CallReturned, Resumes, Threads
<1> QED
  BY <1>1, <1>2, <1>3, <1>4 DEF Background

(* A live watch is not replaced by another, and does not leave by itself.  *)
LEMMA LiveStays ==
    ASSUME IInv, Handover, Background, NEW w, Live(w),
           \A u \in Watches : pc[u] \in {"spawned", "register"} => u = w
    PROVE  Live(w)'
<1> USE ModelAssumption DEF IInv, Live
<1>0. /\ w \in Threads /\ w # None
      /\ w \notin Callers
      /\ pc[w] \notin {"spawned", "register"} => watchCancel = w /\ watchID = w
      /\ pc[w] \notin {"spawned", "register"} => back[w] \in {"decide", "loop"}
  BY DEF Threads, LiveWatch, Handover, Registered
<1>1. CASE WorldChanges \/ UNCHANGED vars
  BY <1>1 DEF WorldChanges, vars, threadVars, watchVars
<1>2. ASSUME NEW t \in Threads, RefreshBegin(t) \/ RefreshStep(t) PROVE Live(w)'
  BY <1>0, <1>2, RefreshMoves DEF InRefresh
<1>3. ASSUME NEW u \in Watches, u # w, WatchStep(u) \/ UpdaterTimer(u) PROVE Live(w)'
  <2>1. UNCHANGED cancelled
    BY <1>3 DEF WatchStep, WatchDrain, WatchRegister, WatchDecide, UpdaterDone, UpdaterTimer,
              UpdaterTrigger, DebounceTrigger, DebounceDone, DebounceTimer, Rerequest, ClearWatch,
              watchVars
  <2>2. pc'[w] = pc[w]
    BY <1>0, <1>3 DEF WatchStep, WatchDrain, WatchRegister, WatchDecide, UpdaterDone, UpdaterTimer,
              UpdaterTrigger, DebounceTrigger, DebounceDone, DebounceTimer, Rerequest, ClearWatch,
              Goto, GotoRefresh, TypeOK
  <2> QED
    BY <2>1, <2>2
<1>4. CASE WatchRegister(w)
  <2>1. watchCancel # w
    BY <1>4 DEF WatchRegister, Handover, Registered
  <2> QED
    BY <1>0, <1>4, <2>1 DEF WatchRegister, GotoRefresh, Goto, TypeOK
<1>5. CASE (WatchStep(w) /\ ~WatchRegister(w)) \/ UpdaterTimer(w)
  <2>1. UNCHANGED cancelled
    BY <1>5 DEF WatchStep, WatchDrain, WatchDecide, UpdaterDone, UpdaterTimer,
              UpdaterTrigger, DebounceTrigger, DebounceDone, DebounceTimer, Rerequest, ClearWatch,
              watchVars
  <2>2. pc'[w] \notin {"off", "clear", "rerequest"}
    BY <1>0, <1>5 DEF WatchStep, WatchDrain, WatchDecide, UpdaterDone, UpdaterTimer,
              UpdaterTrigger, DebounceTrigger, DebounceDone, DebounceTimer, Rerequest, ClearWatch,
              IsActiveWatch, Goto, GotoRefresh, TypeOK
  <2> QED
    BY <2>1, <2>2
<1>6. ASSUME NEW c \in Callers, CallReturned(c) \/ Resumes(c) PROVE Live(w)'
  BY <1>0, <1>6 DEF CallReturned, Resumes, watchVars, TypeOK
<1> QED
  BY <1>1, <1>2, <1>3, <1>4, <1>5, <1>6 DEF Background

LEMMA AutoSections ==
    ASSUME ViewIInv, AutoInv, UISections
    PROVE  AutoInv'
<1> USE ModelAssumption DEF ViewIInv, IInv, screenVars, refreshVars, watchVars, dataVars, threadVars
<1>0. /\ ui # <<>> /\ UNCHANGED <<started, autoRefresh>> /\ Handlers'
      /\ \A w \in Watches : pc[w] \notin {"spawned", "register"}
  BY HandlerSections DEF AutoInv
<1>1. CASE (UIBegin \/ UIWatch) /\ StartWatch
  <2>1. PICK w \in Watches : CallWatch(w) /\ cancelFn' = w
    BY <1>1 DEF StartWatch
  <2>2. Live(w)' /\ \A u \in Watches : u # w => pc'[u] = pc[u]
    BY <2>1 DEF CallWatch, Live, TypeOK, Threads
  <2> QED
    BY <1>0, <1>1, <2>1, <2>2, HandlerSections DEF AutoInv
<1>2. ASSUME UNCHANGED <<cancelled, cancelFn>>, \A w \in Watches : pc'[w] = pc[w],
             ~UIWatch, UIBegin => ~autoRefresh
      PROVE  AutoInv'
  <2>1. Live(cancelFn) => Live(cancelFn)'
    BY <1>2 DEF Live
  <2> QED
    BY <1>0, <1>2, <2>1, HandlerSections DEF AutoInv
<1>3. \A c \in Callers : CallRefresh(c) => UNCHANGED cancelled /\ \A w \in Watches : pc'[w] = pc[w]
  BY DEF CallRefresh, Threads, TypeOK
<1>4. CASE UIBegin /\ ~autoRefresh
  BY <1>2, <1>3, <1>4 DEF UIBegin, UIWatch, Section, Refresh, vars
<1>5. CASE UISettle \/ UIListen \/ UIUnlisten \/ UISetSubject \/ UIRequest
  <2>1. ~UIBegin /\ ~UIWatch
    BY <1>5 DEF UISettle, UIListen, UIUnlisten, UISetSubject, UIRequest, UIBegin, UIWatch, Section
  <2>2. UNCHANGED <<cancelled, cancelFn>> /\ \A w \in Watches : pc'[w] = pc[w]
    BY <1>3, <1>5 DEF UISettle, UIListen, UIUnlisten, UISetSubject, UIRequest, Refresh, SetSubject,
            RequestRefresh, AddListener, RemoveListener, vars
  <2> QED
    BY <1>2, <2>1, <2>2
<1>6. CASE UICancel \/ UIStop
  <2>1. ~UIBegin /\ ~UIWatch
    BY <1>6 DEF UICancel, UIStop, UIBegin, UIWatch, Section
  <2>2. pc' = pc
    BY <1>6 DEF UICancel, UIStop, CancelContext, Stop, vars
  <2> QED
    BY <1>0, <1>6, <2>1, <2>2, HandlerSections DEF AutoInv
<1> QED
  BY <1>1, <1>4, <1>5, <1>6 DEF UISections, UIBegin, UIWatch

LEMMA AutoEvents ==
    ASSUME PromptWatch, AutoInv, UIEvents \/ DrainPendingUpdate
    PROVE  AutoInv'
<1> USE DEF screenVars, refreshVars, watchVars, dataVars, threadVars, vars, countVars
<1>1. ui = <<>> /\ ~Begins /\ UNCHANGED <<pc, cancelled, cancelFn>>
  BY DEF UIEvents, Start, StopView, ToggleAutoRefresh, ApplySubject, UIReady, DrainPendingUpdate,
         Begins
<1>2. CASE UIEvents
  <2>1. \A w \in Watches : pc[w] \notin {"spawned", "register"}
    BY <1>2 DEF UIEvents, Start, StopView, ToggleAutoRefresh, ApplySubject, UIReady
  <2>2. \/ ui' = <<"cancel", "stop", "listen", "begin">>
        \/ ui' = <<"cancel", "stop", "unlisten">> /\ ~started'
        \/ ui' = <<"watch">>
        \/ ui' = <<"cancel", "stop">> /\ ~autoRefresh'
        \/ ui' \in {<<"settle">>, <<"setSubject", "request", "settle">>} /\ UNCHANGED <<started, autoRefresh>>
    BY <1>2 DEF UIEvents, Start, StopView, ToggleAutoRefresh, ApplySubject
  <2>3. Handlers'
    BY <2>2 DEF Handlers, Begins
  <2>4. started' /\ autoRefresh' => Begins' \/ UNCHANGED <<started, autoRefresh>>
    BY <2>2 DEF Begins
  <2> QED
    BY <1>1, <2>1, <2>3, <2>4 DEF AutoInv, Live
<1>3. CASE DrainPendingUpdate
  <2>1. UNCHANGED <<ui, started, autoRefresh>>
    BY <1>3 DEF DrainPendingUpdate
  <2> QED
    BY <1>1, <2>1 DEF AutoInv, Handlers, Live
<1> QED
  BY <1>2, <1>3

LEMMA AutoNextInv == PromptWatch /\ ViewIInv /\ AutoInv /\ [ViewNext]_allVars => AutoInv'
<1> SUFFICES ASSUME PromptWatch, ViewIInv, AutoInv, [ViewNext]_allVars PROVE AutoInv'
  OBVIOUS
<1>1. ASSUME Background, UNCHANGED <<ui, started, autoRefresh, cancelFn>>
      PROVE  AutoInv'
  <2>1. Handlers' /\ (Begins <=> Begins')
    BY <1>1 DEF AutoInv, Handlers, Begins
  <2>2. \A w \in Watches : pc'[w] \in {"spawned", "register"} => cancelFn' = w /\ ui' = <<>>
    BY <1>1, NewWatches DEF AutoInv, ViewIInv, IInv
  <2>3. Live(cancelFn) => Live(cancelFn)'
    BY <1>1, LiveStays DEF AutoInv, ViewIInv, Live
  <2> QED
    BY <1>1, <2>1, <2>2, <2>3 DEF AutoInv
<1>2. CASE \/ \E c \in Callers : RefreshAgain(c)
           \/ \E t \in Threads : ModelStep(t) \/ Notification(t)
           \/ \E w \in Watches : ModelWatchStep(w)
           \/ WorldChanges /\ UNCHANGED viewVars
           \/ UNCHANGED allVars
  <2>1. UNCHANGED <<ui, started, autoRefresh, cancelFn>>
    BY <1>2 DEF RefreshAgain, ModelStep, Notification, NotificationChecked, NotificationStored,
                ModelWatchStep, viewVars, allVars
  <2>2. Background
    BY <1>2 DEF Background, RefreshAgain, Resumes, ModelStep, Notification, NotificationChecked,
                NotificationStored, ModelWatchStep, RefreshStep, allVars
  <2> QED
    BY <1>1, <2>1, <2>2
<1> QED
  BY <1>2, AutoSections, AutoEvents DEF ViewNext

(* AutoRefresh says that the graph is periodically reevaluated: provided a *)
(* Watch goroutine is never slower than the next key, however the view is  *)
(* toggled, stopped and started, a watch lives while it is on.             *)
THEOREM ViewAutoRefreshIsAlive == PromptWatch => (ViewSpec => []AutoRefreshIsAlive)
<1> SUFFICES ASSUME PromptWatch PROVE ViewSpec => []AutoRefreshIsAlive
  OBVIOUS
<1>1. ViewInit => AutoInv
  <2> SUFFICES ASSUME ViewInit PROVE AutoInv
    OBVIOUS
  <2>1. ui = <<"setSubject", "request", "listen">> /\ ~started
    BY DEF ViewInit
  <2>2. \A w \in Watches : pc[w] = "off"
    BY DEF ViewInit, Init, Threads
  <2> QED
    BY <2>1, <2>2 DEF AutoInv, Handlers
<1>2. ViewIInv /\ AutoInv /\ [ViewNext]_allVars => AutoInv'
  BY AutoNextInv
<1>3. AutoInv => AutoRefreshIsAlive
  <2>1. ui = <<>> => ~Begins
    BY DEF Begins
  <2> QED
    BY <2>1 DEF AutoInv, AutoRefreshIsAlive, Live
<1> QED
  BY <1>1, <1>2, <1>3, ViewSpecInv, PTL DEF ViewSpec
=============================================================================
