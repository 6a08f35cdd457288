---------------------------- MODULE ClusterUpdater ----------------------------
(***************************************************************************)
(* internal/view/app.go on top of the client: the goroutine that checks    *)
(* the connection and stops and starts the page on top, the pages, and the *)
(* switch of the context (internal/view/context.go), which halts that      *)
(* goroutine and starts another.                                           *)
(***************************************************************************)
EXTENDS APIClient, Functions, Sequences, SequencesExt

CONSTANTS
    Updaters,       \* runs of clusterUpdater
    UI,             \* the UI goroutine
    Pages,
    MaxConnRetry,
    LongOutage,     \* whether an outage can outlast the back-off
    MaxEvents,      \* bound: keys pressed and clusters that come and go
    MaxHalts        \* bound: of these, context switches and shells

ASSUME UpdaterAssumption ==
    /\ Threads = Updaters \union {UI}
    /\ {UI, None} \intersect Updaters = {}
    /\ LongOutage \in BOOLEAN
    /\ MaxConnRetry \in Nat \ {0}
    /\ {MaxEvents, MaxHalts} \subseteq Nat

VARIABLES
    cancelFn,       \* a.cancelFn: the updater whose context it cancels
    cancelled,      \* updaters whose context is cancelled
    looping,        \* updaters that are past their first refresh
    top,            \* top[u]: c, the page refreshCluster found on top
    conRetry,
    stack,          \* the pages that are open
    running,        \* the pages between Start and Stop
    target,         \* the context the UI goroutine switches to, or None
    stranded,       \* a failed switch left the page on top stopped
    events, halts

updaterVars == <<cancelFn, cancelled, looping, top, conRetry>>
pageVars == <<stack, running>>
switchVars == <<target, stranded>>
countVars == <<events, halts>>
appVars == <<updaterVars, pageVars, switchVars, ended, countVars>>
allVars == <<vars, appVars>>

Top == IF stack = <<>> THEN None ELSE Last(stack)

(* Run: the first page is on the stack and Resume is about to be called.   *)
Init ==
    /\ ClientInit
    /\ at = [t \in Threads |-> IF t = UI THEN "resume" ELSE "idle"]
    /\ cancelFn = None
    /\ cancelled = {}
    /\ looping = {}
    /\ top = [u \in Updaters |-> None]
    /\ conRetry = 0
    /\ \E p \in Pages : stack = <<p>> /\ running = {p}
    /\ target = None
    /\ stranded = FALSE
    /\ ended = "no"
    /\ events = 0
    /\ halts = 0

-----------------------------------------------------------------------------
(* clusterUpdater and refreshCluster.                                      *)

(* A run that is over leaves nothing behind.                               *)
Stays(u) == UNCHANGED <<cancelled, looping>>
Ends(u) == cancelled' = cancelled \ {u} /\ looping' = looping \ {u}

UpdaterStarts(u) ==
    /\ at[u] = "start"
    /\ IF connOK THEN Goto(u, "refresh") /\ Stays(u) ELSE Goto(u, "idle") /\ Ends(u)
    /\ UNCHANGED <<up, clientVars, held, cancelFn, top, conRetry, pageVars, switchVars,
                   ended, countVars>>

RefreshTop(u) ==
    /\ at[u] = "refresh"
    /\ top' = [top EXCEPT ![u] = Top]
    /\ Goto(u, "check")
    /\ UNCHANGED <<up, clientVars, held, cancelFn, cancelled, looping, conRetry, pageVars,
                   switchVars, ended, countVars>>

RefreshCheck(u) ==
    /\ \/ at[u] = "check" /\ CheckBegin(u)
       \/ CheckStep(u)
    /\ UNCHANGED appVars

ConnectionOK(u) ==
    /\ at[u] = "ok"
    /\ Goto(u, IF conRetry > 0 THEN "restart" ELSE "count")
    /\ UNCHANGED <<up, clientVars, held, appVars>>

RestartForgotten(u) ==      \* mistake: the page is not started again
    /\ at[u] = "restart"
    /\ conRetry' = 0
    /\ Goto(u, "count")
    /\ UNCHANGED <<up, clientVars, held, cancelFn, cancelled, looping, top, pageVars,
                   switchVars, ended, countVars>>

Restart(u) ==
    /\ at[u] = "restart"
    /\ conRetry' = 0
    /\ running' = running \union ({top[u]} \ {None})
    /\ Goto(u, "count")
    /\ UNCHANGED <<up, clientVars, held, cancelFn, cancelled, looping, top, stack,
                   switchVars, ended, countVars>>

LostUncounted(u) ==         \* mistake: the page is stopped, the retry not counted
    /\ at[u] = "lost"
    /\ running' = running \ {top[u]}
    /\ Goto(u, "count")
    /\ UNCHANGED <<up, clientVars, held, updaterVars, stack, switchVars, ended, countVars>>

ConnectionLost(u) ==
    /\ at[u] = "lost"
    /\ conRetry' = conRetry + (IF top[u] = None THEN 0 ELSE 1)
    /\ running' = running \ {top[u]}
    /\ Goto(u, "count")
    /\ UNCHANGED <<up, clientVars, held, cancelFn, cancelled, looping, top, stack,
                   switchVars, ended, countVars>>

BailOut == ended' = "bailed out"

(* A first refresh that fails ends the updater, a later one backs off.     *)
CountRetries(u) ==
    /\ at[u] = "count"
    /\ IF conRetry >= MaxConnRetry THEN BailOut ELSE UNCHANGED ended
    /\ \/ conRetry = 0 /\ Goto(u, "ask") /\ Stays(u)
       \/ conRetry > 0 /\ u \in looping /\ Goto(u, "backoff") /\ Stays(u)
       \/ conRetry > 0 /\ u \notin looping /\ Goto(u, "idle") /\ Ends(u)
    /\ top' = [top EXCEPT ![u] = None]
    /\ UNCHANGED <<up, clientVars, held, cancelFn, conRetry, pageVars,
                   switchVars, countVars>>

(* The refresh of the cluster information lists the nodes, if it may.      *)
ClusterInfo(u) == CanIStep(u) /\ UNCHANGED appVars

Refreshed(u) ==
    /\ at[u] = "answered"
    /\ looping' = looping \union {u}
    /\ Goto(u, "wait")
    /\ UNCHANGED <<up, clientVars, held, cancelFn, cancelled, top, conRetry, pageVars,
                   switchVars, ended, countVars>>

(* The handle CanI dialled is nil: its first method call ends the program. *)
NilHandle(u) ==
    /\ ended = "no"
    /\ at[u] = "review"
    /\ held[u] = None
    /\ ended' = "panicked"
    /\ UNCHANGED <<vars, updaterVars, pageVars, switchVars, countVars>>

(* NextBackOff is Stop when two minutes have passed since the last good    *)
(* refresh, and also when the context of the updater is cancelled.         *)
NextBackOff(u) ==
    /\ at[u] = "backoff"
    /\ \/ u \notin cancelled /\ Goto(u, "wait") /\ UNCHANGED ended
       \/ (u \in cancelled \/ LongOutage) /\ BailOut /\ Goto(u, "idle")
    /\ UNCHANGED <<up, clientVars, held, updaterVars, pageVars, switchVars, countVars>>

UpdaterTimer(u) ==
    /\ at[u] = "wait"
    /\ Goto(u, "refresh")
    /\ UNCHANGED <<up, clientVars, held, appVars>>

UpdaterCancelled(u) ==
    /\ at[u] = "wait"
    /\ u \in cancelled
    /\ Goto(u, "idle")
    /\ Ends(u)
    /\ UNCHANGED <<up, clientVars, held, cancelFn, top, conRetry, pageVars, switchVars,
                   ended, countVars>>

UpdaterStep(u) ==
    \/ UpdaterStarts(u) \/ RefreshTop(u) \/ RefreshCheck(u)
    \/ ConnectionOK(u) \/ Restart(u) \/ ConnectionLost(u) \/ CountRetries(u)
    \/ ClusterInfo(u) \/ Refreshed(u) \/ NilHandle(u) \/ NextBackOff(u) \/ UpdaterTimer(u)

-----------------------------------------------------------------------------
(* Halt and Resume.                                                        *)

Halt ==
    /\ cancelled' = cancelled \union {u \in {cancelFn} \ {None} : at[u] # "idle"}
    /\ cancelFn' = None

Resume ==
    /\ ended = "no"
    /\ at[UI] = "resume"
    /\ \E u \in Updaters :
        /\ at[u] = "idle"
        /\ cancelFn' = u
        /\ at' = [at EXCEPT ![UI] = "idle", ![u] = "start"]
    /\ UNCHANGED <<up, clientVars, held, cancelled, looping, top, conRetry, pageVars, switchVars,
                   ended, countVars>>

-----------------------------------------------------------------------------
(* The UI goroutine: pages, a shell, a switch of the context.              *)

(* A key is handled; bound: a run of clusterUpdater is left to resume with.*)
UIReady == at[UI] = "idle"
Event == ended = "no" /\ events < MaxEvents /\ events' = events + 1
UIMayHalt == UIReady /\ halts < MaxHalts /\ \E u \in Updaters : at[u] = "idle"

Push(p) ==
    /\ UIReady
    /\ Event
    /\ p \notin Range(stack) \union running
    /\ running' = (running \ {Top}) \union {p}
    /\ stack' = Append(stack, p)
    /\ stranded' = FALSE
    /\ UNCHANGED <<vars, updaterVars, target, ended, halts>>

Pop ==
    /\ UIReady
    /\ Event
    /\ Len(stack) > 1
    /\ running' = (running \ {Top}) \union {Last(Front(stack))}
    /\ stack' = Front(stack)
    /\ stranded' = FALSE
    /\ UNCHANGED <<vars, updaterVars, target, ended, halts>>

ShellUnhalted ==            \* mistake: the updater is not halted
    /\ UIMayHalt
    /\ Event
    /\ halts' = halts + 1
    /\ Goto(UI, "shell")
    /\ UNCHANGED <<up, clientVars, held, updaterVars, pageVars, switchVars, ended>>

(* run in internal/view/exec.go: the terminal is handed to a shell.        *)
ShellBegins ==
    /\ UIMayHalt
    /\ Event
    /\ halts' = halts + 1
    /\ Halt
    /\ Goto(UI, "shell")
    /\ UNCHANGED <<up, clientVars, held, looping, top, conRetry, pageVars, switchVars, ended>>

ShellEnds ==
    /\ at[UI] = "shell"
    /\ Goto(UI, "resume")
    /\ UNCHANGED <<up, clientVars, held, appVars>>

UseContextUnset(c) ==       \* mistake: the name is filled in later
    /\ UIMayHalt
    /\ Event
    /\ halts' = halts + 1
    /\ running' = running \ {Top}
    /\ target' = None
    /\ Goto(UI, "switch")
    /\ UNCHANGED <<up, clientVars, held, updaterVars, stack, stranded, ended>>

(* useContext stops the page on top first and starts none if it fails.     *)
UseContext(c) ==
    /\ UIMayHalt
    /\ Event
    /\ halts' = halts + 1
    /\ running' = running \ {Top}
    /\ target' = c
    /\ Goto(UI, "switch")
    /\ UNCHANGED <<up, clientVars, held, updaterVars, stack, stranded, ended>>

UseUnknownContext ==
    /\ UIMayHalt
    /\ Event
    /\ halts' = halts + 1
    /\ running' = running \ {Top}
    /\ stranded' = TRUE
    /\ UNCHANGED <<vars, updaterVars, stack, target, ended>>

(* SwitchContext of the client, up to the dialled dynamic handle.          *)
ClientSwitches ==
    /\ \/ at[UI] = "switch" /\ SwitchConfig(UI, target)
       \/ at[UI] = "switched" /\ CheckBegin(UI)
       \/ CheckStep(UI)
       \/ at[UI] \in {"ok", "lost"} /\ Dial(UI, "dClient", "dialled")
       \/ DialSet(UI, "dClient")
       \/ DialGet(UI, "dClient", "dialled")
    /\ UNCHANGED appVars

(* invalidateCache: its error is the error of the whole switch.            *)
ClientSwitched ==
    /\ at[UI] = "dialled"
    /\ IF connOK
       THEN Done(UI, "halt") /\ UNCHANGED <<target, stranded>>
       ELSE Done(UI, "idle") /\ target' = None /\ stranded' = TRUE
    /\ UNCHANGED <<up, clientVars, updaterVars, pageVars, ended, countVars>>

(* switchContext: Halt, activate, go to the view of the new context.  The  *)
(* deferred Resume runs however it returns.                                *)
SwitchHalts ==
    /\ at[UI] = "halt"
    /\ Halt
    /\ Goto(UI, "goto")
    /\ UNCHANGED <<up, clientVars, held, looping, top, conRetry, pageVars, target, stranded,
                   ended, countVars>>

SwitchFails ==
    /\ at[UI] = "goto"
    /\ target' = None
    /\ stranded' = TRUE
    /\ Goto(UI, "resume")
    /\ UNCHANGED <<up, clientVars, held, updaterVars, pageVars, ended, countVars>>

SwitchClears ==
    /\ at[UI] = "goto"
    /\ running' = running \ Range(stack)
    /\ stack' = <<>>
    /\ Goto(UI, "push")
    /\ UNCHANGED <<up, clientVars, held, updaterVars, switchVars, ended, countVars>>

SwitchPushes(p) ==
    /\ at[UI] = "push"
    /\ p \notin running
    /\ running' = running \union {p}
    /\ stack' = <<p>>
    /\ target' = None
    /\ stranded' = FALSE
    /\ Goto(UI, "resume")
    /\ UNCHANGED <<up, clientVars, held, updaterVars, ended, countVars>>

UIStep ==
    \/ Resume \/ ShellEnds \/ ClientSwitches \/ ClientSwitched
    \/ SwitchHalts \/ SwitchFails \/ SwitchClears \/ \E p \in Pages : SwitchPushes(p)

UserActs ==
    \/ \E p \in Pages : Push(p)
    \/ Pop \/ ShellBegins \/ UseUnknownContext
    \/ \E c \in Contexts : UseContext(c)

-----------------------------------------------------------------------------

ClusterFlips(c) ==
    /\ Event
    /\ Flip(c)
    /\ UNCHANGED <<updaterVars, pageVars, switchVars, ended, halts>>

Next ==
    \/ UIStep
    \/ UserActs
    \/ \E c \in Contexts : ClusterFlips(c)
    \/ \E u \in Updaters : UpdaterStep(u) \/ UpdaterCancelled(u)

(* Every goroutine that can run runs, and calls to servers end.  A select  *)
(* with a cancelled context and a timer picks the former some time.        *)
Fairness ==
    /\ WF_allVars(UIStep)
    /\ \A u \in Updaters : /\ WF_allVars(UpdaterStep(u))
                           /\ SF_allVars(UpdaterCancelled(u))

Spec == Init /\ [][Next]_allVars /\ Fairness

-----------------------------------------------------------------------------
(* Properties.                                                             *)

(* Every variable keeps its type.                                          *)
TypeOK ==
    /\ ClientTypeOK
    /\ cancelFn \in Updaters \union {None}
    /\ {cancelled, looping} \subseteq SUBSET Updaters
    /\ top \in [Updaters -> Pages \union {None}]
    /\ conRetry \in Nat
    /\ Range(stack) \union running \subseteq Pages
    /\ target \in Contexts \union {None}
    /\ stranded \in BOOLEAN
    /\ ended \in {"no", "bailed out", "panicked"}

(* Of all the runs of clusterUpdater that Resume started at most one has a *)
(* context that is not cancelled, the one Halt can cancel; whenever the UI *)
(* goroutine takes a key there is one to cancel.                           *)
OneUpdater ==
    /\ \A u \in Updaters : at[u] # "idle" /\ u \notin cancelled => u = cancelFn
    /\ UIReady => cancelFn # None

(* A run of clusterUpdater that is past its first refresh.                 *)
Watched == \E u \in Updaters : at[u] # "idle" /\ u \in looping /\ u \notin cancelled

(* While the connection is watched the flag ends up telling the truth, and *)
(* the handle that needs a connection belongs to the current context.      *)
ConnectionFollows ==
    <>[](ended = "no" /\ Watched =>
            /\ connOK = (context \in up)
            /\ handle["client"] \in {None, context})

(* A cluster that stays away ends the program: nobody watches it for ever. *)
LossEndsProgram == <>[](ended = "no" /\ Watched => context \in up)

(* The page the updater stopped is started again once the cluster is back, *)
(* unless a failed switch of the context stopped it, or a halted run that  *)
(* was still in a check took the retries for its own.                      *)
NoOverlap == \A u \in cancelled : at[u] \in {"idle", "wait"}
PageComesBack ==
    []NoOverlap =>
        <>[](ended = "no" /\ Watched /\ ~stranded /\ context \in up => Top \in running)

(* README.md: maxConnRetry is the number of retries once the connection is *)
(* lost.  The program does not give up before.                             *)
BailsOutAfterRetries ==
    [][ended = "no" /\ ended' = "bailed out" => conRetry >= MaxConnRetry]_allVars
=============================================================================
