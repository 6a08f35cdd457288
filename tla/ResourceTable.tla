---------------------------- MODULE ResourceTable ----------------------------
(***************************************************************************)
(* internal/model/table.go and the life cycle of its only listener,        *)
(* internal/view/browser.go: a table of resources that is listed from the  *)
(* informers, merged into the rows of the model and drawn.                 *)
(*                                                                         *)
(* A thread is the UI goroutine or the updater of one Watch, which stands  *)
(* for its context too.  Every thread that refreshes runs the same steps,  *)
(* one for each section of TableData that is under the lock of the data.   *)
(***************************************************************************)
EXTENDS TableRows

CONSTANTS
    Namespaces, Selectors,
    Everything,         \* the selector of a table that is not filtered
    Scope(_, _),        \* Scope(ns, selector): the ids a listing may hold
    Watches,
    UI, None,
    Clusters,           \* what the cluster may hold at first
    MaxWorld,           \* bound: changes of the cluster
    MaxErrors,          \* bound: listings that fail
    MaxCommands,        \* bound: what the user does
    MaxReloads          \* bound: changes of the file with the view settings

Threads == Watches \union {UI}
Absent == "absent"

ASSUME TableAssumption ==
    /\ UI \notin Watches
    /\ None \notin Threads \union Namespaces
    /\ Everything \in Selectors
    /\ \A n \in Namespaces, s \in Selectors : Scope(n, s) \subseteq Ids
    /\ Clusters \subseteq [Ids -> Values \union {Absent}]
    /\ MaxWorld \in Nat /\ MaxErrors \in Nat
    /\ MaxCommands \in Nat /\ MaxReloads \in Nat

VARIABLES
    \* model.Table and its TableData
    ns, rows, header,   \* namespace, row events, whether the header is set
    selector,           \* labelSelector
    inUpdate,
    listening,          \* whether the browser is a listener
    \* Browser
    cancelFn,           \* the watch whose context cancelFn cancels, or None
    firstView,          \* whether TableNoData has been called since Start
    \* goroutines
    cancelled,          \* the watches whose context is cancelled
    pc, back,           \* where a thread stands; where it goes on after refresh
    job,                \* the locals of reconcile
    draws,              \* the updates queued for the UI goroutine, in any order
    display,            \* what is on the screen
    told,               \* whether a failure was reported since the last Start
    \* the cluster behind the informers
    cluster, synced, changes, errors,
    commands, reloads

dataVars == <<ns, rows, header>>
browserVars == <<listening, cancelFn, firstView, cancelled>>
threadVars == <<pc, back, job>>
screenVars == <<draws, display, told>>
worldVars == <<cluster, synced, changes, errors>>
vars == <<dataVars, selector, inUpdate, browserVars, threadVars, screenVars,
          worldVars, commands, reloads>>

NoJob == [listing |-> <<>>, empty |-> TRUE, ns |-> None, failed |-> FALSE]

(* What is drawn of a table; how a row is marked is no matter here.        *)
Picture(n, table) ==
    [ns |-> n, shown |-> [i \in DOMAIN table.events |->
        [id |-> table.events[i].id, value |-> table.events[i].value]]]
Nothing == Picture(None, Blank)

(* What List returns: the informer of a namespace that has not synced yet  *)
(* knows nothing.                                                          *)
Listing(n, s) ==
    LET known == IF n \in synced THEN {id \in Scope(n, s) : cluster[id] # Absent} ELSE {}
        order == SetToSeq(known)
    IN  [i \in DOMAIN order |-> [id |-> order[i], value |-> cluster[order[i]]]]

Goto(t, label) == pc' = [pc EXCEPT ![t] = label]

Init ==
    /\ ns \in Namespaces
    /\ rows = Blank
    /\ header = FALSE
    /\ selector = Everything
    /\ inUpdate = FALSE
    /\ listening = FALSE
    /\ cancelFn = None
    /\ firstView = FALSE
    /\ cancelled = {}
    /\ pc = [t \in Threads |-> IF t = UI THEN "idle" ELSE "off"]
    /\ back = [t \in Threads |-> IF t = UI THEN "idle" ELSE "ticked"]
    /\ job = [t \in Threads |-> NoJob]
    /\ draws = {}
    /\ display = Nothing
    /\ told = FALSE
    /\ cluster \in Clusters
    /\ synced = {}
    /\ changes = 0
    /\ errors = 0
    /\ commands = 0
    /\ reloads = 0

-----------------------------------------------------------------------------
(* refresh and reconcile, by any thread t.                                 *)

EnterUnguarded(t) ==
    /\ pc[t] = "enter"
    /\ inUpdate' = TRUE
    /\ Goto(t, "list")
    /\ job' = [job EXCEPT ![t] = NoJob]
    /\ UNCHANGED <<dataVars, selector, browserVars, back, screenVars, worldVars, commands, reloads>>

(* The compare-and-swap of inUpdate: who meets another refresh drops his   *)
(* own and reports success.                                                *)
Enter(t) ==
    /\ pc[t] = "enter"
    /\ inUpdate' = TRUE
    /\ Goto(t, IF inUpdate THEN back[t] ELSE "list")
    /\ job' = [job EXCEPT ![t] = NoJob]
    /\ UNCHANGED <<dataVars, selector, browserVars, back, screenVars, worldVars, commands, reloads>>

(* Where reconcile ends: SetViewSetting has nothing to notify or release.  *)
Reconciled(t, label) == Goto(t, IF back[t] = "redraw" THEN "redraw" ELSE label)

List(t) ==
    /\ pc[t] = "list"
    /\ job' = [job EXCEPT ![t].listing = Listing(ns, selector)]
    /\ Goto(t, "empty")
    /\ UNCHANGED <<dataVars, selector, inUpdate, browserVars, back, screenVars, worldVars, commands, reloads>>

ListFails(t) ==
    /\ pc[t] = "list"
    /\ errors < MaxErrors
    /\ errors' = errors + 1
    /\ job' = [job EXCEPT ![t].failed = TRUE]
    /\ Reconciled(t, "release")
    /\ UNCHANGED <<dataVars, selector, inUpdate, browserVars, back, screenVars,
                   cluster, synced, changes, commands, reloads>>

(* Update reads whether the table is empty before it takes the lock.       *)
ReadEmpty(t) ==
    /\ pc[t] = "empty"
    /\ job' = [job EXCEPT ![t].empty = Empty(rows)]
    /\ Goto(t, "update")
    /\ UNCHANGED <<dataVars, selector, inUpdate, browserVars, back, screenVars, worldVars, commands, reloads>>

Update(t) ==
    /\ pc[t] = "update"
    /\ rows' = UpdateRows(rows, job[t].listing, job[t].empty)
    /\ Goto(t, IF job[t].empty THEN "header" ELSE "delete")
    /\ UNCHANGED <<ns, header, selector, inUpdate, browserVars, back, job, screenVars,
                   worldVars, commands, reloads>>

Delete(t) ==
    /\ pc[t] = "delete"
    /\ rows' = DeleteRows(rows, Keys(job[t].listing))
    /\ Goto(t, "header")
    /\ UNCHANGED <<ns, header, selector, inUpdate, browserVars, back, job, screenVars,
                   worldVars, commands, reloads>>

ReadNamespaceNever(t) ==
    /\ pc[t] = "header"
    /\ Goto(t, "setheader")
    /\ UNCHANGED <<dataVars, selector, inUpdate, browserVars, back, job, screenVars, worldVars, commands, reloads>>

(* SetHeader(t.namespace, ...): the argument is read without the lock.     *)
ReadNamespace(t) ==
    /\ pc[t] = "header"
    /\ job' = [job EXCEPT ![t].ns = ns]
    /\ Goto(t, "setheader")
    /\ UNCHANGED <<dataVars, selector, inUpdate, browserVars, back, screenVars, worldVars, commands, reloads>>

SetHeader(t) ==
    /\ pc[t] = "setheader"
    /\ ns' = job[t].ns
    /\ header' = TRUE
    /\ Goto(t, "check")
    /\ UNCHANGED <<rows, selector, inUpdate, browserVars, back, job, screenVars, worldVars, commands, reloads>>

(* No header: it was cleared again, and Render returns an error.           *)
CheckHeader(t) ==
    /\ pc[t] = "check"
    /\ job' = [job EXCEPT ![t] = [NoJob EXCEPT !.failed = ~header]]
    /\ Reconciled(t, IF header THEN "fire" ELSE "release")
    /\ UNCHANGED <<dataVars, selector, inUpdate, browserVars, back, screenVars, worldVars, commands, reloads>>

FireNeverClears(t) ==
    /\ pc[t] = "fire"
    /\ draws' = IF listening /\ cancelFn # None /\ ~Empty(rows)
                THEN draws \union {Picture(ns, rows)} ELSE draws
    /\ Goto(t, "release")
    /\ UNCHANGED <<dataVars, selector, inUpdate, browserVars, back, job, display, told,
                   worldVars, commands, reloads>>

(* Peek, and TableDataChanged or TableNoData of the browser.  The first    *)
(* time there is no data, and while the informer has not synced, the       *)
(* browser draws nothing.  (Nor does it while the connection is lost or    *)
(* the program ends: here neither happens.)                                *)
Fire(t) ==
    LET heard == listening /\ cancelFn # None
        noData == Empty(rows)
        drawn == heard /\ (noData => firstView /\ header /\ ns \in synced)
    IN  /\ pc[t] = "fire"
        /\ draws' = IF drawn THEN draws \union {Picture(ns, rows)} ELSE draws
        /\ firstView' = (firstView \/ (heard /\ noData))
        /\ Goto(t, "release")
        /\ UNCHANGED <<dataVars, selector, inUpdate, listening, cancelFn, cancelled,
                       back, job, display, told, worldVars, commands, reloads>>

Release(t) ==
    /\ pc[t] = "release"
    /\ inUpdate' = FALSE
    /\ Goto(t, back[t])
    /\ UNCHANGED <<dataVars, selector, browserVars, back, job, screenVars, worldVars, commands, reloads>>

-----------------------------------------------------------------------------
(* The updater.  Time is not modelled: its timer may fire at any moment.   *)

Tick(w) ==
    /\ pc[w] = "wait"
    /\ Goto(w, "enter")
    /\ UNCHANGED <<dataVars, selector, inUpdate, browserVars, back, job, screenVars, worldVars, commands, reloads>>

Done(w) ==
    /\ pc[w] = "wait"
    /\ w \in cancelled
    /\ Goto(w, "off")
    /\ UNCHANGED <<dataVars, selector, inUpdate, browserVars, back, job, screenVars, worldVars, commands, reloads>>

Ticked(w) ==
    /\ pc[w] = "ticked"
    /\ Goto(w, IF job[w].failed THEN "retry" ELSE "wait")
    /\ job' = [job EXCEPT ![w] = NoJob]
    /\ UNCHANGED <<dataVars, selector, inUpdate, browserVars, back, screenVars, worldVars, commands, reloads>>

(* backoff.Retry: the refresh is tried again until its context ends or two *)
(* minutes have passed.                                                    *)
Retry(w) ==
    /\ pc[w] = "retry"
    /\ w \notin cancelled
    /\ Goto(w, "enter")
    /\ UNCHANGED <<dataVars, selector, inUpdate, browserVars, back, job, screenVars, worldVars, commands, reloads>>

GiveUpQuietly(w) ==
    /\ pc[w] = "retry"
    /\ Goto(w, "off")
    /\ UNCHANGED <<dataVars, selector, inUpdate, browserVars, back, job, screenVars, worldVars, commands, reloads>>

GiveUp(w) ==
    /\ pc[w] = "retry"
    /\ told' = (told \/ listening)
    /\ Goto(w, "off")
    /\ UNCHANGED <<dataVars, selector, inUpdate, browserVars, back, job, draws, display,
                   worldVars, commands, reloads>>

-----------------------------------------------------------------------------
(* The UI goroutine.                                                       *)

Command ==
    /\ pc[UI] = "idle"
    /\ commands < MaxCommands
    /\ commands' = commands + 1

(* switchNamespaceCmd up to refresh: setNamespace, whose Reset takes the   *)
(* lock twice.                                                             *)
SwitchNamespace(n) ==
    /\ Command
    /\ ns' = n
    /\ Goto(UI, IF ns = n /\ ~Empty(rows) THEN "stop" ELSE "clear")
    /\ back' = [back EXCEPT ![UI] = "watch"]
    /\ UNCHANGED <<rows, header, selector, inUpdate, listening, cancelFn, firstView, cancelled,
                   job, screenVars, worldVars, reloads>>

Clear ==
    /\ pc[UI] = "clear"
    /\ rows' = Blank
    /\ header' = FALSE
    /\ Goto(UI, "stop")
    /\ UNCHANGED <<ns, selector, inUpdate, browserVars, back, job, screenVars, worldVars, commands, reloads>>

(* Start, from the page stack or the refresh command, and Stop.            *)
StartBrowser ==
    /\ Command
    /\ Goto(UI, "stop")
    /\ back' = [back EXCEPT ![UI] = "watch"]
    /\ UNCHANGED <<dataVars, selector, inUpdate, browserVars, job, screenVars, worldVars, reloads>>

LeaveBrowser ==
    /\ Command
    /\ Goto(UI, "stop")
    /\ back' = [back EXCEPT ![UI] = "idle"]
    /\ UNCHANGED <<dataVars, selector, inUpdate, browserVars, job, screenVars, worldVars, reloads>>

StopBrowser ==
    /\ pc[UI] = "stop"
    /\ cancelled' = cancelled \union ({cancelFn} \ {None})
    /\ cancelFn' = None
    /\ listening' = FALSE
    /\ Goto(UI, back[UI])
    /\ UNCHANGED <<dataVars, selector, inUpdate, firstView, back, job, screenVars,
                   worldVars, commands, reloads>>

(* The rest of Start: a context of its own and the first refresh of Watch. *)
WatchBegins(w) ==
    /\ pc[UI] = "watch"
    /\ pc[w] = "off"
    /\ listening' = TRUE
    /\ firstView' = FALSE
    /\ cancelFn' = w
    /\ cancelled' = cancelled \ {w}
    /\ told' = FALSE
    /\ back' = [back EXCEPT ![UI] = "spawn"]
    /\ Goto(UI, "enter")
    /\ UNCHANGED <<dataVars, selector, inUpdate, job, draws, display, worldVars,
                   commands, reloads>>

(* Watch starts the updater unless the first refresh failed.               *)
WatchSpawns ==
    /\ pc[UI] = "spawn"
    /\ told' = (told \/ job[UI].failed)
    /\ pc' = IF job[UI].failed THEN [pc EXCEPT ![UI] = "idle"]
             ELSE [pc EXCEPT ![UI] = "idle", ![cancelFn] = "wait"]
    /\ job' = [job EXCEPT ![UI] = NoJob]
    /\ UNCHANGED <<dataVars, selector, inUpdate, browserVars, back, draws, display,
                   worldVars, commands, reloads>>

(* A filter is entered: BufferCompleted, BufferActive, which refreshes and *)
(* draws whatever the table holds, and the rest of filterCmd: with labels  *)
(* the browser starts anew, else the table is drawn on the spot.           *)
ApplyFilter(s) ==
    /\ Command
    /\ listening
    /\ selector' = s
    /\ back' = [back EXCEPT ![UI] = "peek"]
    /\ Goto(UI, "enter")
    /\ UNCHANGED <<dataVars, inUpdate, browserVars, job, screenVars, worldVars, reloads>>

FilterPeeks ==
    /\ pc[UI] = "peek"
    /\ draws' = draws \union {Picture(ns, rows)}
    /\ IF selector = Everything
       THEN /\ display' = IF header THEN Picture(ns, rows) ELSE display
            /\ Goto(UI, "idle")
            /\ UNCHANGED back
       ELSE /\ back' = [back EXCEPT ![UI] = "watch"]
            /\ Goto(UI, "stop")
            /\ UNCHANGED display
    /\ job' = [job EXCEPT ![UI] = NoJob]
    /\ UNCHANGED <<dataVars, selector, inUpdate, browserVars, told, worldVars, commands, reloads>>

(* The view settings changed: SetViewSetting reconciles at once, whether   *)
(* or not somebody else does, and the table is drawn on the spot.          *)
ReloadViews ==
    /\ pc[UI] = "idle"
    /\ listening
    /\ reloads < MaxReloads
    /\ reloads' = reloads + 1
    /\ job' = [job EXCEPT ![UI] = NoJob]
    /\ back' = [back EXCEPT ![UI] = "redraw"]
    /\ Goto(UI, "list")
    /\ UNCHANGED <<dataVars, selector, inUpdate, browserVars, screenVars, worldVars, commands>>

Redraw ==
    /\ pc[UI] = "redraw"
    /\ display' = IF header THEN Picture(ns, rows) ELSE display
    /\ Goto(UI, "idle")
    /\ UNCHANGED <<dataVars, selector, inUpdate, browserVars, back, job, draws, told,
                   worldVars, commands, reloads>>

(* QueueUpdateDraw runs a goroutine for each update: they come in any order. *)
Draw(picture) ==
    /\ pc[UI] = "idle"
    /\ display' = picture
    /\ draws' = draws \ {picture}
    /\ UNCHANGED <<dataVars, selector, inUpdate, browserVars, threadVars, told, worldVars,
                   commands, reloads>>

-----------------------------------------------------------------------------
(* The cluster and its informers.                                          *)

ClusterChanges(id, value) ==
    /\ changes < MaxWorld
    /\ cluster[id] # value
    /\ changes' = changes + 1
    /\ cluster' = [cluster EXCEPT ![id] = value]
    /\ UNCHANGED <<dataVars, selector, inUpdate, browserVars, threadVars, screenVars,
                   synced, errors, commands, reloads>>

InformerSyncs(n) ==
    /\ n \notin synced
    /\ synced' = synced \union {n}
    /\ UNCHANGED <<dataVars, selector, inUpdate, browserVars, threadVars, screenVars,
                   cluster, changes, errors, commands, reloads>>

-----------------------------------------------------------------------------
RefreshStep(t) ==
    \/ Enter(t) \/ List(t) \/ ListFails(t) \/ ReadEmpty(t) \/ Update(t) \/ Delete(t)
    \/ ReadNamespace(t) \/ SetHeader(t) \/ CheckHeader(t) \/ Fire(t) \/ Release(t)

UpdaterStep(w) == RefreshStep(w) \/ Tick(w) \/ Done(w) \/ Ticked(w) \/ Retry(w) \/ GiveUp(w)

UIStep ==
    \/ RefreshStep(UI) \/ Clear \/ StopBrowser \/ WatchSpawns \/ FilterPeeks \/ Redraw
    \/ \E w \in Watches : WatchBegins(w)

DrawStep == \E picture \in draws : Draw(picture)

Syncs == \E n \in Namespaces : InformerSyncs(n)

UserStep ==
    \/ \E n \in Namespaces : SwitchNamespace(n)
    \/ StartBrowser \/ LeaveBrowser
    \/ \E s \in Selectors : ApplyFilter(s)
    \/ ReloadViews

Next ==
    \/ \E w \in Watches : UpdaterStep(w)
    \/ UIStep \/ DrawStep \/ UserStep \/ Syncs
    \/ \E id \in Ids, value \in Values \union {Absent} : ClusterChanges(id, value)

(* Goroutines are scheduled, timers fire, informers sync.                  *)
Fairness ==
    /\ \A w \in Watches : WF_vars(UpdaterStep(w))
    /\ WF_vars(UIStep) /\ WF_vars(DrawStep) /\ WF_vars(Syncs)

Spec == Init /\ [][Next]_vars /\ Fairness

-----------------------------------------------------------------------------
Labels == {"idle", "off", "enter", "list", "empty", "update", "delete", "header", "setheader",
           "check", "fire", "release", "redraw", "clear", "stop", "watch", "spawn", "peek",
           "wait", "ticked", "retry"}

Continuations == {"idle", "watch", "spawn", "peek", "redraw", "ticked"}

(* Where threads stand: what RefreshIsExclusive rests on.                  *)
Control ==
    /\ pc \in [Threads -> Labels]
    /\ back \in [Threads -> Continuations]
    /\ \A t \in Threads : back[t] = "redraw" => pc[t] \notin {"enter", "fire", "release"}
    /\ \A w \in Watches : back[w] = "ticked"

TypeOK ==
    /\ ns \in Namespaces
    /\ rows.events \in Seq(Event)
    /\ header \in BOOLEAN /\ inUpdate \in BOOLEAN /\ listening \in BOOLEAN
    /\ firstView \in BOOLEAN /\ told \in BOOLEAN
    /\ selector \in Selectors
    /\ cancelFn \in Watches \union {None}
    /\ cancelled \subseteq Watches
    /\ Control
    /\ cluster \in [Ids -> Values \union {Absent}]
    /\ synced \subseteq Namespaces
    /\ \A picture \in draws : picture.ns \in Namespaces
    /\ changes \in 0..MaxWorld /\ errors \in 0..MaxErrors
    /\ commands \in 0..MaxCommands /\ reloads \in 0..MaxReloads

Sections == {"list", "empty", "update", "delete", "header", "setheader", "check", "fire", "release"}

(* While the UI goroutine is in the first refresh of a Watch, the updater  *)
(* to be has not started.                                                  *)
Spawning ==
    /\ pc[UI] = "spawn" => back[UI] = "spawn"
    /\ pc[UI] \in {"clear", "stop"} => back[UI] # "spawn"
    /\ back[UI] = "spawn" /\ pc[UI] \in Sections \union {"enter", "spawn"} =>
         cancelFn \in Watches /\ pc[cancelFn] = "off"

Refreshing(t) ==
    /\ pc[t] \in Sections
    /\ back[t] # "redraw"

(* Of any number of updaters, live or cancelled, and the UI goroutine one  *)
(* at most is inside refresh, and inUpdate says whether there is one.      *)
RefreshIsExclusive ==
    /\ inUpdate <=> \E t \in Threads : Refreshing(t)
    /\ \A t, u \in Threads : Refreshing(t) /\ Refreshing(u) => t = u

(* Every row of the model is found at the position its index gives, and no *)
(* resource has two rows, whatever refreshes, resets and restarts overlap. *)
RowsAreIndexed == IndexAgrees(rows)

(* Between the merge of a listing and its drawing the model holds exactly  *)
(* the rows of that listing, with their latest values, or nothing at all:  *)
(* the merge is not undone by a namespace switched on the way.             *)
RowsAreListed ==
    \A t \in Threads :
        Refreshing(t) /\ pc[t] \in {"header", "setheader", "check"} =>
            \/ Empty(rows)
            \/ Len(rows.events) = Len(job[t].listing) /\
               Range(Picture(ns, rows).shown) = Range(job[t].listing)

Watching == pc[UI] = "idle" /\ cancelFn # None

Current ==
    /\ display.ns = ns
    /\ display.shown = Picture(ns, rows).shown
    /\ Range(display.shown) = Range(Listing(ns, selector))
    /\ Len(display.shown) = Len(Listing(ns, selector))

(* Although refreshes are dropped, pictures overtake each other and an     *)
(* outgoing updater still writes, the screen of a browser that goes on     *)
(* watching ends with what the cluster holds for its namespace and filter, *)
(* or its updater has given up and the user was told of a failure.         *)
DisplayCatchesUp ==
    <>[]Watching => <>[](Watching /\ (Current \/ (pc[cancelFn] = "off" /\ told)))
=============================================================================
