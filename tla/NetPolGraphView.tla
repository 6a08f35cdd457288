--------------------------- MODULE NetPolGraphView ---------------------------
(***************************************************************************)
(* internal/view/netpol_graph.go with its model: the handlers of the UI    *)
(* goroutine, the goroutines they start, and the way of a notification     *)
(* from the model through the pending slots to the screen.                 *)
(*                                                                         *)
(* A handler of the UI goroutine runs as the sequence of its critical      *)
(* sections, kept in ui; other goroutines run between two of them.         *)
(***************************************************************************)
EXTENDS NetPolGraph, Sequences

CONSTANTS
    MaxToggles,     \* bound: how often the user switches auto-refresh
    MaxStarts,      \* bound: how often the view is entered
    MaxPicks,       \* bound: how often a subject is picked
    PromptWatch     \* whether a Watch goroutine runs before the next key press

(* The view is one of the listeners of the model.                          *)
ASSUME ViewAssumption == Listeners # {}

VARIABLES
    \* of the UI goroutine
    ui,             \* the critical sections left of the handler that runs
    chosen,         \* v.subject
    shown,          \* v.result; NoEval while haveResult is false
    lastError,      \* v.lastError
    autoRefresh,
    started,        \* between Start and Stop
    listening,
    toggles, starts, picks,
    \* guarded by v.mx
    cancelFn,       \* v.cancel: the watch whose context it cancels
    pendingResult, pendingErr, pendingErrSubject,
    updateQueued,
    refreshing, refreshQueued,
    handed,         \* handed[t]: the locals of queueUpdate when t runs it
    asked           \* the version of the cluster at the last call of Refresh

pendingVars == <<pendingResult, pendingErr, pendingErrSubject, updateQueued>>
refreshVars == <<refreshing, refreshQueued, asked>>
screenVars == <<chosen, shown, lastError>>
countVars == <<toggles, starts, picks>>
viewVars == <<ui, screenVars, autoRefresh, started, listening, countVars,
              cancelFn, pendingVars, refreshVars, handed>>
allVars == <<vars, viewVars>>

view == CHOOSE l \in Listeners : TRUE

NotHanded == [step |-> "check", subject |-> None]

(* A view that was just pushed: Init is about to run.                      *)
ViewInit ==
    /\ Init
    /\ ui = <<"setSubject", "request", "listen">>
    /\ chosen \in Subjects
    /\ shown = NoEval
    /\ lastError = NoEval
    /\ autoRefresh = FALSE
    /\ started = FALSE
    /\ listening = FALSE
    /\ toggles = 0
    /\ starts = 0
    /\ picks = 0
    /\ cancelFn = None
    /\ pendingResult = NoEval
    /\ pendingErr = NoEval
    /\ pendingErrSubject = None
    /\ updateQueued = FALSE
    /\ refreshing = FALSE
    /\ refreshQueued = FALSE
    /\ handed = [t \in Threads |-> NotHanded]
    /\ asked = 0

-----------------------------------------------------------------------------
(* The keys and the life cycle: each starts a handler.                     *)

(* The UI goroutine is free.  With PromptWatch it is also slow: a Watch    *)
(* goroutine has registered before the next event is handled.              *)
UIReady ==
    /\ ui = <<>>
    /\ PromptWatch => \A w \in Watches : pc[w] \notin {"spawned", "register"}

StartBeforeStop ==          \* mistake: the previous watch is stopped last
    /\ UIReady
    /\ ~started
    /\ starts < MaxStarts
    /\ started' = TRUE
    /\ starts' = starts + 1
    /\ ui' = <<"listen", "begin", "cancel", "stop">>
    /\ UNCHANGED <<vars, screenVars, autoRefresh, listening, toggles, picks, cancelFn,
                   pendingVars, refreshVars, handed>>

Start ==
    /\ UIReady
    /\ ~started
    /\ starts < MaxStarts
    /\ started' = TRUE
    /\ starts' = starts + 1
    /\ ui' = <<"cancel", "stop", "listen", "begin">>
    /\ UNCHANGED <<vars, screenVars, autoRefresh, listening, toggles, picks, cancelFn,
                   pendingVars, refreshVars, handed>>

StopView ==
    /\ UIReady
    /\ started
    /\ started' = FALSE
    /\ ui' = <<"cancel", "stop", "unlisten">>
    /\ UNCHANGED <<vars, screenVars, autoRefresh, listening, countVars, cancelFn,
                   pendingVars, refreshVars, handed>>

ToggleAutoRefresh ==
    /\ UIReady
    /\ started
    /\ toggles < MaxToggles
    /\ toggles' = toggles + 1
    /\ autoRefresh' = ~autoRefresh
    /\ ui' = IF autoRefresh' THEN <<"watch">> ELSE <<"cancel", "stop">>
    /\ UNCHANGED <<vars, screenVars, started, listening, starts, picks, cancelFn, pendingVars,
                   refreshVars, handed>>

ApplySubjectUnset(s) ==     \* mistake: the subject is cleared, to be set later
    /\ UIReady
    /\ started
    /\ picks < MaxPicks
    /\ picks' = picks + 1
    /\ chosen' = None
    /\ ui' = <<"settle">>
    /\ UNCHANGED <<vars, shown, lastError, autoRefresh, started, listening, toggles, starts,
                   cancelFn, pendingVars, refreshVars, handed>>

(* applySubject drops what is pending before it configures the model.      *)
ApplySubject(s) ==
    /\ UIReady
    /\ started
    /\ picks < MaxPicks
    /\ picks' = picks + 1
    /\ pendingResult' = NoEval
    /\ pendingErr' = NoEval
    /\ chosen' = s
    /\ ui' = IF s = subject THEN <<"settle">> ELSE <<"setSubject", "request", "settle">>
    /\ UNCHANGED <<vars, shown, lastError, autoRefresh, started, listening, toggles, starts,
                   cancelFn, pendingErrSubject, updateQueued, refreshVars, handed>>

-----------------------------------------------------------------------------
(* The critical sections of the handlers.                                  *)

Section(name) == ui # <<>> /\ Head(ui) = name /\ ui' = Tail(ui)

UISetSubject ==
    /\ Section("setSubject")
    /\ SetSubject(chosen)
    /\ UNCHANGED <<screenVars, autoRefresh, started, listening, countVars, cancelFn,
                   pendingVars, refreshVars, handed>>

UIRequest ==
    /\ Section("request")
    /\ RequestRefresh
    /\ UNCHANGED <<screenVars, autoRefresh, started, listening, countVars, cancelFn,
                   pendingVars, refreshVars, handed>>

(* stopWatch: cancel the context of the watch, then stop the model.        *)
UICancel ==
    /\ Section("cancel")
    /\ cancelFn' = None
    /\ IF cancelFn # None /\ pc[cancelFn] # "off" THEN CancelContext(cancelFn) ELSE UNCHANGED vars
    /\ UNCHANGED <<screenVars, autoRefresh, started, listening, countVars, pendingVars,
                   refreshVars, handed>>

UIStop ==
    /\ Section("stop")
    /\ Stop
    /\ UNCHANGED <<screenVars, autoRefresh, started, listening, countVars, cancelFn,
                   pendingVars, refreshVars, handed>>

UIListen ==
    /\ Section("listen")
    /\ listening' = TRUE
    /\ IF listening THEN UNCHANGED vars ELSE AddListener(view)
    /\ UNCHANGED <<screenVars, autoRefresh, started, countVars, cancelFn, pendingVars,
                   refreshVars, handed>>

UIUnlisten ==
    /\ Section("unlisten")
    /\ listening' = FALSE
    /\ IF listening THEN RemoveListener(view) ELSE UNCHANGED vars
    /\ UNCHANGED <<screenVars, autoRefresh, started, countVars, cancelFn, pendingVars,
                   refreshVars, handed>>

(* startWatch: a goroutine with a context of its own runs Watch.           *)
StartWatch ==
    /\ \E w \in Watches : CallWatch(w) /\ cancelFn' = w
    /\ UNCHANGED refreshVars

RefreshDropped ==           \* mistake: a call during a refresh is forgotten
    /\ asked' = world
    /\ refreshing' = TRUE
    /\ IF refreshing THEN UNCHANGED vars ELSE \E c \in Callers : CallRefresh(c)
    /\ UNCHANGED <<refreshQueued, cancelFn>>

(* Refresh starts a goroutine, or asks the one that runs for another round.*)
Refresh ==
    /\ asked' = world
    /\ refreshing' = TRUE
    /\ IF refreshing
         THEN refreshQueued' = TRUE /\ UNCHANGED vars
         ELSE (\E c \in Callers : CallRefresh(c)) /\ UNCHANGED refreshQueued
    /\ UNCHANGED cancelFn

(* Start ends by loading the graph, once or in a watch.                    *)
UIBegin ==
    /\ Section("begin")
    /\ IF autoRefresh THEN StartWatch ELSE Refresh
    /\ UNCHANGED <<screenVars, autoRefresh, started, listening, countVars, pendingVars,
                   handed>>

UIWatch ==
    /\ Section("watch")
    /\ StartWatch
    /\ UNCHANGED <<screenVars, autoRefresh, started, listening, countVars, pendingVars,
                   handed>>

SettleQuietly ==            \* mistake: the watch is left to evaluate the subject
    /\ Section("settle")
    /\ shown' = NoEval
    /\ lastError' = NoEval
    /\ UNCHANGED <<vars, refreshVars, cancelFn>>
    /\ UNCHANGED <<chosen, autoRefresh, started, listening, countVars, pendingVars, handed>>

(* applySubject clears the screen; without a watch to consume the request  *)
(* it refreshes itself.                                                    *)
UISettle ==
    /\ Section("settle")
    /\ shown' = NoEval
    /\ lastError' = NoEval
    /\ IF autoRefresh THEN UNCHANGED <<vars, refreshVars, cancelFn>> ELSE Refresh
    /\ UNCHANGED <<chosen, autoRefresh, started, listening, countVars, pendingVars, handed>>

(* The goroutine of Refresh, when the model's Refresh returned.            *)
RefreshAgain(c) ==
    /\ pc[c] = "returned"
    /\ IF refreshQueued
         THEN /\ pc' = [pc EXCEPT ![c] = "lock"]
              /\ refreshQueued' = FALSE
              /\ UNCHANGED refreshing
              /\ UNCHANGED <<dataVars, listeners, refreshMu, watchVars, trigger, requesting,
                             back, eval, todo, world, completed>>
         ELSE CallReturned(c) /\ refreshing' = FALSE /\ UNCHANGED refreshQueued
    /\ UNCHANGED <<ui, screenVars, autoRefresh, started, listening, countVars, cancelFn,
                   pendingVars, asked, handed>>

-----------------------------------------------------------------------------
(* queueUpdate, run by the thread that notifies: first it asks the model   *)
(* whether the result is still wanted, or whose failure it is ...          *)
NotificationChecked(t) ==
    /\ handed[t].step = "check"
    /\ \/ /\ pc[t] = "callChanged"
          /\ IF eval[t].subject = subject
               THEN handed' = [handed EXCEPT ![t].step = "store"] /\ UNCHANGED vars
               ELSE UNCHANGED handed /\ ListenerReturns(t)
       \/ /\ pc[t] = "callFailed"
          /\ handed' = [handed EXCEPT ![t] = [step |-> "store", subject |-> lastRefresh.subject]]
          /\ UNCHANGED vars
    /\ UNCHANGED <<ui, screenVars, autoRefresh, started, listening, countVars, cancelFn,
                   pendingVars, refreshVars>>

StoredInOneSlot(t) ==       \* mistake: a failure takes the place of the result
    /\ handed[t].step = "store"
    /\ handed' = [handed EXCEPT ![t] = NotHanded]
    /\ updateQueued' = TRUE
    /\ \/ /\ pc[t] = "callChanged"
          /\ pendingResult' = eval[t]
          /\ pendingErr' = NoEval
          /\ UNCHANGED pendingErrSubject
       \/ /\ pc[t] = "callFailed"
          /\ pendingResult' = NoEval
          /\ pendingErr' = eval[t]
          /\ pendingErrSubject' = handed[t].subject
    /\ ListenerReturns(t)
    /\ UNCHANGED <<ui, screenVars, autoRefresh, started, listening, countVars, cancelFn,
                   refreshVars>>

StoredOverFailure(t) ==     \* mistake: a result leaves the older failure pending
    /\ handed[t].step = "store"
    /\ handed' = [handed EXCEPT ![t] = NotHanded]
    /\ updateQueued' = TRUE
    /\ \/ /\ pc[t] = "callChanged"
          /\ pendingResult' = eval[t]
          /\ UNCHANGED <<pendingErr, pendingErrSubject>>
       \/ /\ pc[t] = "callFailed"
          /\ pendingErr' = eval[t]
          /\ pendingErrSubject' = handed[t].subject
          /\ UNCHANGED pendingResult
    /\ ListenerReturns(t)
    /\ UNCHANGED <<ui, screenVars, autoRefresh, started, listening, countVars, cancelFn,
                   refreshVars>>

(* ... then it fills the slot, and has the UI drain both if it was not     *)
(* asked to already.  A result supersedes the failure before it.           *)
NotificationStored(t) ==
    /\ handed[t].step = "store"
    /\ handed' = [handed EXCEPT ![t] = NotHanded]
    /\ updateQueued' = TRUE
    /\ \/ /\ pc[t] = "callChanged"
          /\ pendingResult' = eval[t]
          /\ pendingErr' = NoEval
          /\ UNCHANGED pendingErrSubject
       \/ /\ pc[t] = "callFailed"
          /\ pendingErr' = eval[t]
          /\ pendingErrSubject' = handed[t].subject
          /\ UNCHANGED pendingResult
    /\ ListenerReturns(t)
    /\ UNCHANGED <<ui, screenVars, autoRefresh, started, listening, countVars, cancelFn,
                   refreshVars>>

DrainUnchecked ==           \* mistake: the result is not compared with the subject
    /\ ui = <<>>
    /\ updateQueued
    /\ updateQueued' = FALSE
    /\ pendingResult' = NoEval
    /\ pendingErr' = NoEval
    /\ LET fails == pendingErr # NoEval /\ pendingErrSubject = chosen
       IN  /\ shown' = IF pendingResult # NoEval THEN pendingResult ELSE shown
           /\ lastError' = IF fails THEN pendingErr ELSE NoEval
    /\ UNCHANGED <<vars, ui, chosen, autoRefresh, started, listening, countVars, cancelFn,
                   pendingErrSubject, refreshVars, handed>>

(* drainPendingUpdate on the UI goroutine, with applyResult and applyError.*)
DrainPendingUpdate ==
    /\ ui = <<>>
    /\ updateQueued
    /\ updateQueued' = FALSE
    /\ pendingResult' = NoEval
    /\ pendingErr' = NoEval
    /\ LET applies == pendingResult # NoEval /\ pendingResult.subject = chosen
           fails   == pendingErr # NoEval /\ pendingErrSubject = chosen
       IN  /\ shown' = IF applies THEN pendingResult ELSE shown
           /\ lastError' = IF fails THEN pendingErr ELSE IF applies THEN NoEval ELSE lastError
    /\ UNCHANGED <<vars, ui, chosen, autoRefresh, started, listening, countVars, cancelFn,
                   pendingErrSubject, refreshVars, handed>>

-----------------------------------------------------------------------------
UISections ==
    \/ UISetSubject
    \/ UIRequest
    \/ UICancel
    \/ UIStop
    \/ UIListen
    \/ UIUnlisten
    \/ UIBegin
    \/ UIWatch
    \/ UISettle

UIEvents ==
    \/ Start
    \/ StopView
    \/ ToggleAutoRefresh
    \/ \E s \in Subjects : ApplySubject(s)

(* What a thread of the model does, apart from the body of its callbacks.  *)
ModelStep(t) ==
    /\ \/ RefreshBegin(t)
       \/ Evaluate(t)
       \/ AcceptResult(t)
       \/ FinishFailure(t)
       \/ CallListener(t)
       \/ LoopEnds(t)
    /\ UNCHANGED viewVars

ModelWatchStep(w) == (WatchStep(w) \/ UpdaterTimer(w)) /\ UNCHANGED viewVars

Notification(t) == NotificationChecked(t) \/ NotificationStored(t)

ViewNext ==
    \/ UIEvents
    \/ UISections
    \/ DrainPendingUpdate
    \/ \E c \in Callers : RefreshAgain(c)
    \/ \E t \in Threads : ModelStep(t) \/ Notification(t)
    \/ \E w \in Watches : ModelWatchStep(w)
    \/ WorldChanges /\ UNCHANGED viewVars

(* The user need not do anything; every goroutine that can run is          *)
(* scheduled, as in the model.                                             *)
ViewFairness ==
    /\ WF_allVars(UISections)
    /\ WF_allVars(DrainPendingUpdate)
    /\ \A c \in Callers : WF_allVars(RefreshAgain(c))
    /\ \A t \in Threads :
          /\ SF_allVars(RefreshBegin(t) /\ UNCHANGED viewVars)
          /\ WF_allVars(ModelStep(t))
          /\ WF_allVars(Notification(t))
    /\ \A w \in Watches :
          /\ WF_allVars(WatchStep(w) /\ UNCHANGED viewVars)
          /\ SF_allVars(UpdaterDone(w) /\ UNCHANGED viewVars)

ViewSpec == ViewInit /\ [][ViewNext]_allVars /\ ViewFairness

-----------------------------------------------------------------------------
ViewTypeOK ==
    /\ TypeOK
    /\ ui \in Seq({"setSubject", "request", "listen", "unlisten", "cancel", "stop", "begin",
                   "watch", "settle"})
    /\ chosen \in Subjects
    /\ {shown, lastError, pendingResult, pendingErr} \subseteq Evaluations
    /\ pendingErrSubject \in Subjects \union {None}
    /\ {autoRefresh, started, listening, updateQueued, refreshing, refreshQueued} \subseteq BOOLEAN
    /\ cancelFn \in Watches \union {None}
    /\ handed \in [Threads -> [step : {"check", "store"}, subject : Subjects \union {None}]]
    /\ {toggles, starts, picks, asked} \subseteq Nat

(* Between two handlers, the result and the failure on the screen are of   *)
(* the chosen subject, whatever was in flight when it was chosen.          *)
DisplayIsOfSubject ==
    ui = <<>> =>
        /\ shown # NoEval => shown.subject = chosen
        /\ lastError # NoEval => lastError.subject = chosen

(* Whether the failure of a partial evaluation is on the screen without    *)
(* the result of that evaluation.                                          *)
PartialAlone == lastError.outcome = "partial" /\ shown # lastError

(* Without auto-refresh, a partial failure does not stay on the screen     *)
(* without the result it annotates: the two slots and the order they are   *)
(* drained in keep the result, or the next evaluation brings one.          *)
PartialIsAnnotated == []<>(started /\ ~autoRefresh => ~PartialAlone)

(* Every call of Refresh is followed by an evaluation that begins after    *)
(* it, though most calls do not start one themselves.                      *)
RefreshIsServed ==
    \A n \in 1..MaxWorld : asked = n ~> completed.version >= n

(* While auto-refresh is off, a chosen subject does not wait for its       *)
(* evaluation for ever (comment at view/netpol_graph.go:1924).             *)
Waiting == started /\ ~autoRefresh /\ shown = NoEval /\ lastError = NoEval

SubjectIsEvaluated == []<>~Waiting

(* AutoRefresh reports whether the graph is periodically reevaluated       *)
(* (view/netpol_graph.go:510): while it is on, a watch lives.              *)
AutoRefreshIsAlive ==
    ui = <<>> /\ started /\ autoRefresh =>
        \E w \in Watches : pc[w] \notin {"off", "clear", "rerequest"} /\ w \notin cancelled

Settling == \E i \in DOMAIN ui : ui[i] = "settle"

Display == INSTANCE SubjectDisplay WITH
    Nothing <- NoEval,
    display <- IF Settling THEN NoEval ELSE shown,
    failure <- IF Settling THEN NoEval ELSE lastError

(* Model and view together show what the user was promised.                *)
ImplementsDisplay == Display!Spec
=============================================================================
