----------------------------- MODULE NetPolGraph -----------------------------
(***************************************************************************)
(* internal/model/netpol_graph.go: the model behind the network policy     *)
(* graph.  Refresh evaluates the current subject against a snapshot of the *)
(* cluster and tells the listeners; Watch runs an updater goroutine that   *)
(* refreshes on a timer and on requests; SetSubject and SetOptions start a *)
(* new generation, and an evaluation of an older one is thrown away.       *)
(*                                                                         *)
(* A thread is a goroutine inside Refresh: one of Callers (somebody's call *)
(* of Refresh) or of Watches (a call of Watch and the updater it becomes). *)
(* A watch stands for its context, its watchID and its cancel function.    *)
(***************************************************************************)
EXTENDS Naturals, FiniteSets

CONSTANTS
    Subjects,           \* what can be evaluated
    Callers, Watches,   \* the goroutines
    Listeners,
    None,               \* nil: no subject, no result, no owner, no watch
    MaxGeneration,      \* bound: changes of subject and options
    MaxWorld,           \* bound: changes of the cluster
    MaxChanges          \* bound: changes of both

Threads == Callers \union Watches

ASSUME ModelAssumption ==
    /\ Callers \cap Watches = {}
    /\ None \notin Threads \union Subjects
    /\ MaxGeneration \in Nat
    /\ MaxWorld \in Nat
    /\ MaxChanges \in Nat

VARIABLES
    \* guarded by mu
    subject, generation, result, lastRefresh, listeners,
    refreshMu,          \* the thread that holds refreshMu
    \* guarded by watchMu
    watchID,            \* the watch that drew the current id; None after Stop
    watchCancel,        \* the watch whose context watchCancel cancels
    cancelled,          \* the watches whose context is cancelled
    trigger,            \* whether the channel of capacity one is full
    requesting,         \* SetSubject or SetOptions has yet to request a refresh
    pc,                 \* pc[t]: where t stands
    back,               \* back[t]: where t goes on when Refresh returns
    eval,               \* eval[t]: the locals of Refresh
    todo,               \* todo[t]: the listeners t has yet to call
    world,              \* the version of the cluster
    completed           \* the newest generation and version evaluated so far

watchVars == <<watchID, watchCancel, cancelled>>
dataVars == <<subject, generation, result, lastRefresh>>
threadVars == <<pc, back, eval, todo>>
vars == <<dataVars, listeners, refreshMu, watchVars, trigger, requesting,
          threadVars, world, completed>>

NoEval == [subject |-> None, generation |-> 0, version |-> 0, outcome |-> "none"]

Max2(a, b) == IF a >= b THEN a ELSE b

(* isCurrent: the evaluation of t is of today's subject and generation.    *)
IsCurrent(t) ==
    eval[t].generation = generation /\ eval[t].subject = subject

IsActiveWatch(w) == watchID = w /\ watchCancel # None

Init ==
    /\ subject = None
    /\ generation = 0
    /\ result = NoEval
    /\ lastRefresh = NoEval
    /\ listeners = {}
    /\ refreshMu = None
    /\ watchID = None
    /\ watchCancel = None
    /\ cancelled = {}
    /\ trigger = FALSE
    /\ requesting = FALSE
    /\ pc = [t \in Threads |-> "off"]
    /\ back = [t \in Threads |-> IF t \in Callers THEN "returned" ELSE "off"]
    /\ eval = [t \in Threads |-> NoEval]
    /\ todo = [t \in Threads |-> {}]
    /\ world = 0
    /\ completed = [generation |-> 0, version |-> 0]

-----------------------------------------------------------------------------
(* The calls of the goroutine that configures the model.                   *)

SetSubject(s) ==
    /\ ~requesting
    /\ generation < MaxGeneration
    /\ generation + world < MaxChanges
    /\ subject # s
    /\ subject' = s
    /\ generation' = generation + 1
    /\ result' = NoEval
    /\ requesting' = TRUE
    /\ UNCHANGED <<lastRefresh, listeners, refreshMu, watchVars, trigger,
                   threadVars, world, completed>>

SetOptions ==
    /\ ~requesting
    /\ generation < MaxGeneration
    /\ generation + world < MaxChanges
    /\ generation' = generation + 1
    /\ requesting' = TRUE
    /\ UNCHANGED <<subject, result, lastRefresh, listeners, refreshMu, watchVars,
                   trigger, threadVars, world, completed>>

(* requestRefresh: the send is dropped when a request is already waiting.  *)
RequestRefresh ==
    /\ requesting
    /\ requesting' = FALSE
    /\ trigger' = TRUE
    /\ UNCHANGED <<dataVars, listeners, refreshMu, watchVars, threadVars, world, completed>>

AddListener(l) ==
    /\ l \notin listeners
    /\ listeners' = listeners \union {l}
    /\ UNCHANGED <<dataVars, refreshMu, watchVars, trigger, requesting, threadVars,
                   world, completed>>

RemoveListener(l) ==
    /\ l \in listeners
    /\ listeners' = listeners \ {l}
    /\ UNCHANGED <<dataVars, refreshMu, watchVars, trigger, requesting, threadVars,
                   world, completed>>

Stop ==
    /\ cancelled' = cancelled \union ({watchCancel} \ {None})
    /\ watchCancel' = None
    /\ watchID' = None
    /\ UNCHANGED <<dataVars, listeners, refreshMu, trigger, requesting, threadVars,
                   world, completed>>

(* Somebody calls Refresh or Watch from a goroutine of its own.            *)
CallRefresh(c) ==
    /\ pc[c] = "off"
    /\ pc' = [pc EXCEPT ![c] = "lock"]
    /\ UNCHANGED <<dataVars, listeners, refreshMu, watchVars, trigger, requesting,
                   back, eval, todo, world, completed>>

CallReturned(c) ==
    /\ pc[c] = "returned"
    /\ pc' = [pc EXCEPT ![c] = "off"]
    /\ UNCHANGED <<dataVars, listeners, refreshMu, watchVars, trigger, requesting,
                   back, eval, todo, world, completed>>

CallWatch(w) ==
    /\ pc[w] = "off"
    /\ pc' = [pc EXCEPT ![w] = "spawned"]
    /\ cancelled' = cancelled \ {w}
    /\ UNCHANGED <<dataVars, listeners, refreshMu, watchID, watchCancel, trigger,
                   requesting, back, eval, todo, world, completed>>

(* The owner of the context given to Watch cancels it.                     *)
CancelContext(w) ==
    /\ pc[w] # "off"
    /\ cancelled' = cancelled \union {w}
    /\ UNCHANGED <<dataVars, listeners, refreshMu, watchID, watchCancel, trigger,
                   requesting, threadVars, world, completed>>

(* The cluster changes behind everybody's back.                            *)
WorldChanges ==
    /\ world < MaxWorld
    /\ generation + world < MaxChanges
    /\ world' = world + 1
    /\ UNCHANGED <<dataVars, listeners, refreshMu, watchVars, trigger, requesting,
                   threadVars, completed>>

-----------------------------------------------------------------------------
(* Refresh, as run by thread t.                                            *)

NotInRefresh == UNCHANGED <<listeners, watchVars, trigger, requesting, back, world>>

Returns(t) ==
    /\ refreshMu' = None
    /\ pc' = [pc EXCEPT ![t] = back[t]]
    /\ eval' = [eval EXCEPT ![t] = NoEval]
    /\ todo' = [todo EXCEPT ![t] = {}]

(* The newest generation and version, after an evaluation of g and v.      *)
Newest(g, v) == [generation |-> Max2(completed.generation, g),
                 version |-> Max2(completed.version, v)]

RefreshUnlocked(t) ==       \* mistake: refreshMu is not taken
    /\ pc[t] = "lock"
    /\ eval' = [eval EXCEPT ![t] =
                  [subject |-> subject, generation |-> generation, version |-> world,
                   outcome |-> IF subject = None THEN "error" ELSE "none"]]
    /\ pc' = [pc EXCEPT ![t] = IF subject = None THEN "fail" ELSE "evaluate"]
    /\ NotInRefresh
    /\ UNCHANGED <<dataVars, refreshMu, todo, completed>>

(* Take refreshMu and read the subject and generation to evaluate; with no *)
(* subject Refresh fails before it looks at the cluster.                   *)
RefreshBegin(t) ==
    /\ pc[t] = "lock"
    /\ refreshMu = None
    /\ refreshMu' = t
    /\ eval' = [eval EXCEPT ![t] =
                  [subject |-> subject, generation |-> generation, version |-> world,
                   outcome |-> IF subject = None THEN "error" ELSE "none"]]
    /\ pc' = [pc EXCEPT ![t] = IF subject = None THEN "fail" ELSE "evaluate"]
    /\ completed' = IF subject = None THEN Newest(generation, world) ELSE completed
    /\ NotInRefresh
    /\ UNCHANGED <<dataVars, todo>>

(* The snapshot is built and evaluated.  A cancelled context ends Refresh  *)
(* silently; an incomplete snapshot makes the result partial.              *)
Evaluate(t) ==
    /\ pc[t] = "evaluate"
    /\ \/ /\ t \in cancelled
          /\ Returns(t)
          /\ UNCHANGED completed
       \/ /\ t \notin cancelled
          /\ \E outcome \in {"complete", "partial", "error"} :
                /\ eval' = [eval EXCEPT ![t].outcome = outcome]
                /\ pc' = [pc EXCEPT ![t] = IF outcome = "error" THEN "fail" ELSE "accept"]
          /\ completed' = Newest(eval[t].generation, eval[t].version)
          /\ UNCHANGED <<refreshMu, todo>>
    /\ NotInRefresh
    /\ UNCHANGED dataVars

AcceptAnything(t) ==        \* mistake: no check of generation and subject
    /\ pc[t] = "accept"
    /\ result' = eval[t]
    /\ lastRefresh' = eval[t]
    /\ todo' = [todo EXCEPT ![t] = listeners]
    /\ pc' = [pc EXCEPT ![t] = "changed"]
    /\ NotInRefresh
    /\ UNCHANGED <<subject, generation, eval, refreshMu, completed>>

AcceptUnlocksFirst(t) ==    \* mistake: refreshMu is released before the calls
    /\ pc[t] = "accept"
    /\ IsCurrent(t)
    /\ result' = eval[t]
    /\ lastRefresh' = eval[t]
    /\ todo' = [todo EXCEPT ![t] = listeners]
    /\ pc' = [pc EXCEPT ![t] = "changed"]
    /\ refreshMu' = None
    /\ NotInRefresh
    /\ UNCHANGED <<subject, generation, eval, completed>>

(* acceptResult: an evaluation that is no longer current is thrown away.   *)
AcceptResult(t) ==
    /\ pc[t] = "accept"
    /\ \/ /\ ~IsCurrent(t)
          /\ Returns(t)
          /\ UNCHANGED dataVars
       \/ /\ IsCurrent(t)
          /\ result' = eval[t]
          /\ lastRefresh' = eval[t]
          /\ todo' = [todo EXCEPT ![t] = listeners]
          /\ pc' = [pc EXCEPT ![t] = "changed"]
          /\ UNCHANGED <<subject, generation, eval, refreshMu>>
    /\ NotInRefresh
    /\ UNCHANGED completed

FinishFailure(t) ==
    /\ pc[t] = "fail"
    /\ \/ /\ ~IsCurrent(t)
          /\ Returns(t)
          /\ UNCHANGED dataVars
       \/ /\ IsCurrent(t)
          /\ lastRefresh' = eval[t]
          /\ todo' = [todo EXCEPT ![t] = listeners]
          /\ pc' = [pc EXCEPT ![t] = "failed"]
          /\ UNCHANGED <<subject, generation, result, eval, refreshMu>>
    /\ NotInRefresh
    /\ UNCHANGED completed

(* Before each call a loop over the listeners asks whether the evaluation  *)
(* is still current.                                                       *)
Calling == [changed |-> "callChanged", failed |-> "callFailed"]

CallListener(t) ==
    /\ pc[t] \in {"changed", "failed"}
    /\ IsCurrent(t)
    /\ \E l \in todo[t] : todo' = [todo EXCEPT ![t] = @ \ {l}]
    /\ pc' = [pc EXCEPT ![t] = Calling[pc[t]]]
    /\ NotInRefresh
    /\ UNCHANGED <<dataVars, refreshMu, eval, completed>>

ListenerReturns(t) ==
    /\ pc[t] \in {"callChanged", "callFailed"}
    /\ pc' = [pc EXCEPT ![t] = IF @ = "callChanged" THEN "changed" ELSE "failed"]
    /\ NotInRefresh
    /\ UNCHANGED <<dataVars, refreshMu, eval, todo, completed>>

(* The loop is over, or no longer current.  A partial result is followed   *)
(* by a failure, to the listeners of that moment.                          *)
LoopEnds(t) ==
    /\ pc[t] \in {"changed", "failed"}
    /\ todo[t] = {} \/ ~IsCurrent(t)
    /\ IF pc[t] = "changed" /\ eval[t].outcome = "partial" /\ IsCurrent(t)
         THEN /\ todo' = [todo EXCEPT ![t] = listeners]
              /\ pc' = [pc EXCEPT ![t] = "failed"]
              /\ UNCHANGED <<eval, refreshMu>>
         ELSE Returns(t)
    /\ NotInRefresh
    /\ UNCHANGED <<dataVars, completed>>

RefreshStep(t) ==
    \/ Evaluate(t)
    \/ AcceptResult(t)
    \/ FinishFailure(t)
    \/ CallListener(t)
    \/ ListenerReturns(t)
    \/ LoopEnds(t)

-----------------------------------------------------------------------------
(* Watch and the updater, as run by watch w.                               *)

NotInWatch == UNCHANGED <<dataVars, listeners, refreshMu, eval, todo, world,
                          completed, requesting>>

Goto(w, next) == pc' = [pc EXCEPT ![w] = next]

(* Refresh is called, to go on at next afterwards.                         *)
GotoRefresh(w, next) ==
    /\ Goto(w, "lock")
    /\ back' = [back EXCEPT ![w] = next]

(* A request left over is dropped: the refresh that follows serves it.     *)
WatchDrain(w) ==
    /\ pc[w] = "spawned"
    /\ trigger' = FALSE
    /\ Goto(w, "register")
    /\ NotInWatch
    /\ UNCHANGED <<back, watchVars>>

RegisterKeepsPrevious(w) == \* mistake: the watch replaced is not cancelled
    /\ pc[w] = "register"
    /\ watchID' = w
    /\ watchCancel' = w
    /\ GotoRefresh(w, "decide")
    /\ NotInWatch
    /\ UNCHANGED <<cancelled, trigger>>

WatchRegister(w) ==
    /\ pc[w] = "register"
    /\ cancelled' = cancelled \union ({watchCancel} \ {None})
    /\ watchID' = w
    /\ watchCancel' = w
    /\ GotoRefresh(w, "decide")
    /\ NotInWatch
    /\ UNCHANGED trigger

WatchDecide(w) ==
    /\ pc[w] = "decide"
    /\ Goto(w, IF w \notin cancelled /\ IsActiveWatch(w) THEN "loop" ELSE "clear")
    /\ NotInWatch
    /\ UNCHANGED <<back, watchVars, trigger>>

(* The select of the updater: its context, its timer or a request.         *)
UpdaterDone(w) ==
    /\ pc[w] = "loop"
    /\ w \in cancelled
    /\ Goto(w, "clear")
    /\ NotInWatch
    /\ UNCHANGED <<back, watchVars, trigger>>

UpdaterTimer(w) ==
    /\ pc[w] = "loop"
    /\ \/ IsActiveWatch(w) /\ GotoRefresh(w, "loop")
       \/ ~IsActiveWatch(w) /\ Goto(w, "clear") /\ UNCHANGED back
    /\ NotInWatch
    /\ UNCHANGED <<watchVars, trigger>>

TriggerSwallowed(w) ==      \* mistake: an outgoing updater keeps the request
    /\ pc[w] = "loop"
    /\ trigger
    /\ trigger' = FALSE
    /\ Goto(w, IF IsActiveWatch(w) THEN "debounce" ELSE "clear")
    /\ NotInWatch
    /\ UNCHANGED <<back, watchVars>>

UpdaterTrigger(w) ==
    /\ pc[w] = "loop"
    /\ trigger
    /\ trigger' = FALSE
    /\ Goto(w, IF IsActiveWatch(w) THEN "debounce" ELSE "rerequest")
    /\ NotInWatch
    /\ UNCHANGED <<back, watchVars>>

(* waitForDebounce: more requests restart the delay.                       *)
DebounceTrigger(w) ==
    /\ pc[w] = "debounce"
    /\ trigger
    /\ trigger' = FALSE
    /\ NotInWatch
    /\ UNCHANGED <<pc, back, watchVars>>

DebounceDone(w) ==
    /\ pc[w] = "debounce"
    /\ w \in cancelled
    /\ Goto(w, IF IsActiveWatch(w) THEN "clear" ELSE "rerequest")
    /\ NotInWatch
    /\ UNCHANGED <<back, watchVars, trigger>>

DebounceResumes(w) ==       \* mistake: Refresh returns into the debounce
    /\ pc[w] = "debounce"
    /\ IsActiveWatch(w)
    /\ GotoRefresh(w, "debounce")
    /\ NotInWatch
    /\ UNCHANGED <<watchVars, trigger>>

DebounceTimer(w) ==
    /\ pc[w] = "debounce"
    /\ \/ IsActiveWatch(w) /\ GotoRefresh(w, "loop")
       \/ ~IsActiveWatch(w) /\ Goto(w, "rerequest") /\ UNCHANGED back
    /\ NotInWatch
    /\ UNCHANGED <<watchVars, trigger>>

(* A watch that is no longer active hands the request it took back.        *)
Rerequest(w) ==
    /\ pc[w] = "rerequest"
    /\ trigger' = TRUE
    /\ Goto(w, "clear")
    /\ NotInWatch
    /\ UNCHANGED <<back, watchVars>>

ClearWatch(w) ==
    /\ pc[w] = "clear"
    /\ watchCancel' = IF watchID = w THEN None ELSE watchCancel
    /\ Goto(w, "off")
    /\ back' = [back EXCEPT ![w] = "off"]
    /\ NotInWatch
    /\ UNCHANGED <<watchID, cancelled, trigger>>

WatchStep(w) ==
    \/ WatchDrain(w)
    \/ WatchRegister(w)
    \/ WatchDecide(w)
    \/ UpdaterDone(w)
    \/ UpdaterTrigger(w)
    \/ DebounceTrigger(w)
    \/ DebounceDone(w)
    \/ DebounceTimer(w)
    \/ Rerequest(w)
    \/ ClearWatch(w)

-----------------------------------------------------------------------------
Configure ==
    \/ \E s \in Subjects : SetSubject(s)
    \/ SetOptions
    \/ RequestRefresh
    \/ \E l \in Listeners : AddListener(l) \/ RemoveListener(l)
    \/ Stop
    \/ \E c \in Callers : CallRefresh(c) \/ CallReturned(c)
    \/ \E w \in Watches : CallWatch(w) \/ CancelContext(w)

Run ==
    \/ \E t \in Threads : RefreshBegin(t) \/ RefreshStep(t)
    \/ \E w \in Watches : WatchStep(w) \/ UpdaterTimer(w)

Next == Configure \/ WorldChanges \/ Run

(* Goroutines are scheduled, an evaluation ends (the lists it waits for    *)
(* have timeouts), and refreshMu is a sync.Mutex, which serves whoever     *)
(* waited for a millisecond first.  A select picks among its ready cases   *)
(* at random, so the updater does not overlook its context for ever.       *)
(* Nothing says that its timer fires: it is given no fairness.             *)
Fairness ==
    /\ WF_vars(RequestRefresh)
    /\ \A t \in Threads : SF_vars(RefreshBegin(t)) /\ WF_vars(RefreshStep(t))
    /\ \A w \in Watches : WF_vars(WatchStep(w)) /\ SF_vars(UpdaterDone(w))

Spec == Init /\ [][Next]_vars /\ Fairness

-----------------------------------------------------------------------------
Evaluations ==
    [subject : Subjects \union {None}, generation : Nat, version : Nat,
     outcome : {"none", "complete", "partial", "error"}]

TypeOK ==
    /\ subject \in Subjects \union {None}
    /\ generation \in Nat
    /\ result \in Evaluations
    /\ lastRefresh \in Evaluations
    /\ listeners \subseteq Listeners
    /\ refreshMu \in Threads \union {None}
    /\ watchID \in Watches \union {None}
    /\ watchCancel \in Watches \union {None}
    /\ cancelled \subseteq Watches
    /\ trigger \in BOOLEAN
    /\ requesting \in BOOLEAN
    /\ pc \in [Threads -> {"off", "lock", "evaluate", "accept", "fail", "changed", "failed",
                           "callChanged", "callFailed", "spawned", "register", "decide",
                           "loop", "debounce", "rerequest", "clear", "returned"}]
    /\ back \in [Threads -> {"off", "decide", "loop", "returned"}]
    /\ eval \in [Threads -> Evaluations]
    /\ todo \in [Threads -> SUBSET Listeners]
    /\ world \in Nat
    /\ completed \in [generation : Nat, version : Nat]

InRefresh(t) ==
    pc[t] \in {"evaluate", "accept", "fail", "changed", "failed", "callChanged", "callFailed"}

(* The result anybody can Peek at is one of the subject configured now,    *)
(* whichever refreshes were in flight when the subject changed.            *)
ResultIsOfSubject ==
    result # NoEval => result.subject = subject /\ result.generation <= generation

(* Results are accepted in the order in which their snapshots were taken:  *)
(* a slow refresh never replaces the result of one that began later.       *)
ResultsInOrder ==
    [][result' # NoEval => result'.version >= result.version]_vars

(* While a failure is being reported, LastRefresh is about the evaluation  *)
(* that failed: listeners (queueUpdate in the view) rely on it to tell     *)
(* which subject the error belongs to.                                     *)
FailureIsLastRefresh ==
    \A t \in Threads : pc[t] = "callFailed" => lastRefresh = eval[t]

(* Two updaters never refresh side by side: of the watches past their      *)
(* registration, only the one watchCancel belongs to has a live context.   *)
OneLiveWatch ==
    \A w \in Watches :
        /\ w \notin cancelled
        /\ pc[w] \notin {"off", "spawned", "register", "clear", "rerequest"}
        => watchCancel = w

(* No change is left behind by the updaters that take over from each       *)
(* other: while an idle watch has not evaluated the newest subject and     *)
(* options, a request is in the channel or about to be, an updater on its  *)
(* way out still holds it and hands it on, or the next watch dropped it to *)
(* refresh itself (Watch, updater, waitForDebounce).                       *)
RequestIsHeld ==
    \A w \in Watches :
        /\ watchCancel = w /\ w \notin cancelled /\ pc[w] = "loop"
        /\ completed.generation < generation
        => requesting \/ trigger \/ \E u \in Watches \ {w} : pc[u] \in {"debounce", "rerequest", "register"}
=============================================================================
