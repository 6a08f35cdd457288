# k9s: verification project

k9s is a terminal user interface for Kubernetes. This fork adds a *network
policy graph*: an evaluator that decides, from a snapshot of the cluster, who
may reach whom, and a view that keeps its result on the screen while the
cluster and the user's choices change.

The project models the parts of k9s whose correctness depends on the order of
events: goroutines that answer late, listeners that are told in pieces,
contexts that are cancelled while somebody still works for them. Rendering,
colours, the wording of messages and Kubernetes itself are left out.

## Contents

1. The system: components, state, operations
2. Modules and what they stand for
3. Runs: what each asks, bounds, fairness
4. Proofs
5. Findings
6. What is only model-checked, what is not modelled
7. Plan

## 1. The system

A terminal application around one UI goroutine (tview). Everything else is
goroutines that read the cluster through informers and hand results to the UI
goroutine with `QueueUpdate`/`QueueUpdateDraw`, which this code base runs in a
goroutine of their own (`internal/ui/app.go:69`), so that even two updates
queued by one goroutine may be applied in either order.

| Component | State | Operations | What is hard | What makes it correct |
|---|---|---|---|---|
| Network policy graph model (`internal/model/netpol_graph.go`) | subject, generation, accepted result, last refresh, listeners (under `mu`); `refreshMu`; current watch and its cancel function (under `watchMu`); trigger channel of capacity one | `SetSubject`, `SetOptions`, `Refresh`, `Watch`, `Stop`, listeners | an evaluation takes seconds and its subject may change meanwhile; two watches overlap; a debounce eats requests | results of the current subject only, in the order of their snapshots; one live watch; every change is evaluated |
| Network policy graph view (`internal/view/netpol_graph.go`) | displayed result and failure, two pending notifications, auto-refresh, `refreshing`/`refreshQueued`, last revision | `Start`, `Stop`, `toggleAutoRefresh`, `applySubject`, `Refresh`, `queueUpdate`, `drainPendingUpdate` | UI goroutine, refresh goroutine and watch goroutine all write the pending slots | the screen is about the chosen subject; what the user asked is evaluated; auto-refresh that is on works |
| Network policy evaluator (`internal/netpol`) | a cache of normalized policies; else snapshot in, reachability out | `EvaluateSubject`: normalization, index of the snapshot, resolution of subjects and workloads, selection of policies, verdicts on pairs and address blocks, port algebra, rules and their evidence | what a policy leaves open (a named port a pod has twice, unknown enrolment in a mesh, an effect that cannot be evaluated, a listing that fails), denials of parts, limits that cut a listing, a cache that outlives a root namespace | what is called certain gets through however the open questions are settled, what gets through is called possible, what was left out is said |
| Worker pool (`internal/pool.go`) | semaphore channel, error channel, two wait groups, list of errors | `Add`, `Drain` | channels closed under their senders; an error that is lost | bounded, returns, reports every error |
| Resource table model (`internal/model/table.go`, `internal/model1`) | rows, header, in-update flag, listeners, instance, label selector | `Watch`, `Refresh`, `reconcile`, `SetNamespace`, `SetViewSetting` | a refresh that meets another is dropped; back-off | rows are those of the current namespace and filter, deltas are against the previous rows |
| Resource browser (`internal/view/browser.go`) | cancel function, updating flag, filter buffer | `Start`, `Stop`, `TableDataChanged`, commands | updates that arrive after `Stop` | a stopped browser shows nothing new; a running one has one watch |
| Page stack (`internal/model/stack.go`, `internal/ui/pages.go`, `internal/view/page_stack.go`) | the components that are open | `Push`, `Pop`, `Clear`, listeners | nested calls of listeners | the top is started, everything below is stopped |
| Log model and log view (`internal/model/log.go`, `internal/view/log.go`, `internal/dao/pod.go`) | buffer of lines, mark of what was sent, filter, listeners, cancel function; per stream a goroutine that reads and one that closes | `Append`, `Notify`, `Clear`, `Filter`, `Refresh`, `Restart`, `updateLogs`; `tailLogs`, `readLogs` | lines shifted out while they are unsent; streams of two loads in one buffer; retries that send the tail again; commands whose halves are not one critical section; clears and lines queued for the UI goroutine in any order | what the mark calls sent is shown or will be, what is in the buffer gets there, streams that are over end and say so |
| Watch factory (`internal/watch`) | informer factories per namespace, stop channel, port forwarders | `Start`, `Terminate`, `ForResource`, `CanForResource`, forwarders | `Terminate` between the lookup and the start | informers belong to the current context |
| API client (`internal/client`) | connection flag, clients, cached authorisations | `CheckConnectivity`, `CanI`, `SwitchContext`, `reset` | check-then-set outside the lock; negative answers cached | nothing of the old context survives a switch |
| Application (`internal/view/app.go`) | connection retries, cluster updater, current context and namespace | `Halt`, `Resume`, `clusterUpdater`, `switchContext` | retries, back-off, bail out | a dead cluster ends the program after the configured retries, a living one never |
| Tree model and pulses (`internal/model/tree.go`, `internal/model/pulse.go`) | tree, in-update flag | `Watch`, `Refresh` | as the table | as the table |
| Details, values and live views (`internal/model/{describe,yaml,values}.go`, `internal/view/live_view.go`) | text, query, in-update flag | `Watch`, `Refresh`, `Filter` | as the table | as the table |
| Command history, command buffer, flash (`internal/model/{history,cmd_buff,flash}.go`) | list and index; text and debounce; message and its timer | `Push`, `Back`, `Forward`; `Add`, `Delete`, `Notify`; `SetMessage` | index past the end; a timer that clears a newer message | what the user sees is the last that was said |
| Command interpreter (`internal/view/{command.go,cmd}`) | history of commands | `run`, `exec`, `defaultCmd` | recursion through a failing default | |
| Data access (`internal/dao`) | none of its own but the recorder and log streams | list, describe, logs, restart, scale, exec | retries of log streams | |
| Rendering (`internal/render`) | none | one row per object | none that order matters for | |
| Configuration (`internal/config`) | the files on disk, merged defaults | `Load`, `Save`, `Refine` | reload while running | |
| Widgets (`internal/ui`), X-ray (`internal/xray`), charts, vulnerability scans | what they draw | | | |

How they interact for the network policy graph: the view calls `SetSubject`,
`Refresh`, `Watch` and `Stop` of the model and registers itself as its listener
while it is on top of the page stack. The model calls the listener from the
goroutine that ran `Refresh`; the listener stores one pending result and one
pending failure and asks the UI goroutine to draw them; when that happens the
view decides whether they are still about what it shows.

The hazards of each part, with the line where they bite and the properties that
watch them, are the list `hazards` of `PROJECT.json`.

## 2. Modules

| Module | Stands for | Variables ↔ code |
|---|---|---|
| `JobBatch` | what a caller of the pool was promised: give jobs, get every error | abstract |
| `WorkerPool` | `internal/pool.go` | `semC`, `errC`, `wg` (a count), `wge` (`collector`), `errs` under `mx`; one process per job, the collector, the caller |
| `NetPolGraph` | `internal/model/netpol_graph.go` | `subject`, `generation`, `result`, `lastRefresh`, `listeners` (under `mu`), `refreshMu`, `watchCancel`, `trigger` (capacity one); `pc` says where each caller of `Refresh` or `Watch` stands |
| `SubjectDisplay` | what the user of the graph was promised: the screen shows evaluations of the chosen subject, failures beside them | abstract |
| `NetPolGraphView` | `internal/view/netpol_graph.go` extended onto `NetPolGraph` | the displayed result and failure, the two pending slots, `autoRefresh`, `refreshing`, `refreshQueued`, `watchCancel` of the view, and the step the UI goroutine is in |
| `TableRows` | `internal/model1/row_event.go`, `delta.go` and the merge of `table_data.go`, as operators on values | `events`, `index` |
| `ResourceTable` | `internal/model/table.go` and the life cycle of `internal/view/browser.go` | `rows`/`header`/`ns` (the fields of `TableData`), `inUpdate`, `listening`, `cancelFn`, `firstView`; per goroutine `pc`, `back` (where it goes on after `refresh`) and `job` (the locals of `reconcile`); `draws` (what `QueueUpdateDraw` was handed) and `display` |
| `APIClient` | `internal/client/client.go` | `context` (what `a.config` points to), `connOK`, `handle` (client and log client; dynamic and metrics client), `at` and `held` (where a goroutine stands in an operation, and the config or handle it holds); `up` is the world |
| `ClusterUpdater` | `internal/view/app.go`, `context.go`, `internal/model/stack.go`, on top of `APIClient` | `cancelFn`, `conRetry`; `cancelled` and `looping` (the contexts and progress of the runs of `clusterUpdater`), `top` (`c` in `refreshCluster`), `stack` and `running` (pages between `Start` and `Stop`), `target` (the context a switch was asked for), `stranded` (history), `ended` (how the program ended; no goroutine takes a step after it) |
| `PortPermissions` | `internal/netpol/ports.go` | none: a list of permissions is a set of ranges, known or possible, with an unresolved name kept |
| `Prefixes` | the address arithmetic of `evaluator.go` | none: IP blocks with exceptions, over families of any width |
| `PolicySelection` | `selection.go`, and the matching of peers | none: which normalized policies and rules apply to a pod and match a pod or a block, and how sure that is |
| `PolicyVerdicts` | the layers and verdicts of `evaluator.go` | none: each side is the meet of network and authorization policies, a pair the meet of its two sides |
| `Reachability` | what policies let through | the reference: port by port and address by address, for each *world* that settles what the cluster leaves open |
| `PolicyEvaluator` | `EvaluateSubject`, `cache.go`, `index.go`, `evidence.go`, `rules` | `policies`, `istio`, `incomplete` (the cluster), `cache` (`c.entries`), `result` (what the last call returned) |
| `LogStreams` | `tailLogs` and `readLogs` of `internal/dao/pod.go` | `producer` (phase, attempts, next line of each goroutine), `channel` and `closed` (`out`), `cancelled` (its context) |
| `LogModel` | `internal/model/log.go` with the keys of `internal/view/log.go`, on top of `LogStreams` | `ring` (`l.lines`), `lastSent`, `filter`, `listening`, `loaded` (what `cancelFn` cancels), `consumer` and `inHand` (where `updateLogs` stands), `steps` (the rest of the command on each goroutine that runs one), `measured`, `query`, `picked` (its locals), `clears` (those queued, numbered by `fired`); `due` and `shown` of a line say in which queued updates it is and whether the view has it; `told`, and `matched`/`astray` of a line, are history |
| `*Proofs` | the theorems of the module they extend; `PolicyArithmeticProofs` those of `PortPermissions` and `Prefixes` | |
| `MC*` | instances for TLC | |

Every critical section of the code is one action. Code between two of them
that reads nothing shared is part of the section before it. An atomic operation
(`CompareAndSwap`, a channel operation, `time.After` firing) is an action of its
own. Where a `select` has several ready cases, each is an action that is enabled.
A handler runs to its end; what the model leaves out of it is data: labels,
columns, titles, text of messages. Definitions placed before another and named
as a mistake (`EnterUnguarded` before `Enter`) are what a plausible slip would
make of it; no specification uses them.

`NetPolGraphView` extends `NetPolGraph`: the actions of the model are
conjoined with what the listener does when it is called, and every action of the
view calls the operation of the model it calls in the code. `ResourceTable`
extends `TableRows`. `ClusterUpdater` extends `APIClient`:
the runs of `clusterUpdater` and the UI goroutine call the operations of the
client, each of which takes the lock of the client anew for every field.

`PolicyEvaluator` extends the four modules of operators below it and is a state
machine around them: the cluster changes (a policy is edited or goes, the root
namespace of the mesh moves, a list fails), and a call evaluates a subject. A
call is one step, because it reads a snapshot; what one call leaves for the next
is the cache. The verdicts are held against `Reachability`, which shares the
matching of `PolicySelection`'s data but none of its algebra: no range, merge or
subtraction, only the question whether this port of this pod is let through.
Policies enter as `Normalize` leaves them, with selectors as the sets of pods
they match.

`LogModel` extends `LogStreams`. `Append`, `Notify` and `EmptyBuffer` hold the
lock and are actions; what is done without it (`Filter`, `Refresh`, the second
half of `Clear`, `Restart`) is a list of steps between which the streams run, on
the UI goroutine or, for a filter that is typed, on the one that waits for the
end of the typing (`internal/model/cmd_buff.go:158`). The view changes only when
the UI goroutine applies an update, between its commands: a clear (`LogCleared`)
or lines (`LogChanged`). Each is queued by a goroutine of its own, so the queued
ones are a pool from which any may be taken next. What orders them is kept: the
clears are numbered, and a line remembers how many had been queued before it. So
the model can tell a line that is wiped by a clear that comes late from one that
is wiped and drawn again. A line carries its fate: `due`, `shown`, or `astray`
because one of four races of the code took it (sent to nobody, sent between the
halves of `Clear`, drawn before a clear queued ahead of it, moved under a filter
that was matching).

## 3. Runs

| Run | Asks | Bounds |
|---|---|---|
| `worker_pool` | bound, closing order, every error reported, termination, refinement of `JobBatch` | four jobs, pool of two: jobs wait for a token, two errors queue for a channel of one |
| `graph` | one live watch; results in the order of their snapshots; failures attributed; no change forgotten | two subjects, two watches, two generations, one change of the cluster: a subject that is left for the other while it is evaluated, and an outgoing updater that receives beside its successor (a subject that is left and taken again is a third generation, and in the theorems only) |
| `view_manual` | display, attribution of failures, requests served, refinement of `SubjectDisplay` | two subjects, one pick, two entries of the view, two generations, one change |
| `view_auto` | auto-refresh lives | two watches and two callers, two toggles, two entries |
| `table_refresh` | index and rows under interleaved Reset, Update and Delete | one watch, two namespaces, two rows, two commands, one change of the cluster, one failing listing |
| `table_catches_up` | one refresh at a time; the screen ends with what the cluster holds, or the user was told that it will not | two watches, the first of which begins first (`WatchesInOrder`), one namespace, one row that an informer brings and a filter hides, one failing listing, one change of the view settings |
| `connection` | one live updater; flag and handle end up right; a lost cluster ends the program; a page that was stopped for a lost cluster is started again | two contexts, two runs of `clusterUpdater`, two pages, two retries; two events (a key, or a cluster that comes or goes), of which one is a shell or a switch: a run that is halted in a check, its successor, and one change of the world between them |
| `policy_evaluator` | verdicts, blocks, rules and listings against `Reachability`; the cache | three ports, two protocols, four pods in two namespaces and one name that is ambiguous for one of them; addresses of two bits; fourteen policies of every kind in eleven combinations, one change of the cluster between two calls, limits of 8 and 100 |
| `log` | what the mark covers is shown or will be; everything gets there; streams end and say so | one line for each stream, a buffer and a channel of one, so that every second line overflows them; two attempts, so that a request is repeated once; three commands with one stream, so that a log is loaded, cleared or filtered twice, or left; with a second stream two commands, one of which loads it beside the first or in its place (`Bounds`) |
| `view_watch_lost`, `connection_bail_out`, `policy_disallowed` | one statement of the documentation each, which the code does not keep (section 5) | as small as the case allows |

Two of each actor are enough for the questions asked: the hazards are between
one goroutine that works on old state and one that makes new state, and the
properties speak about pairs. The bounds that cap counters (`MaxGeneration`,
`MaxWorld`, `MaxErrors`, `MaxCommands`, `MaxEvents`, `MaxHalts`, ...) stand in guards of the actions that
spend them and nowhere else. The theorems of section 4 hold without them.

**Fairness.** The Go scheduler runs every runnable goroutine: weak fairness on
the steps of each goroutine and of the UI goroutine. `sync.Mutex` hands the lock
to a waiter after a millisecond (starvation mode): strong fairness on taking
`refreshMu`. A `select` picks among its ready cases at random: strong fairness
on an updater that sees its context done although its timer or trigger keeps
being ready too, and likewise on a run of `clusterUpdater` whose context is
cancelled while its timer fires again and again. Calls to a server end, with an
answer or a timeout, and so does a shell the user runs. Timers fire (`time.After`); informers sync. No fairness is assumed of users,
of the cluster, or of the outcome of an evaluation or a listing. `PromptWatch`
in `NetPolGraphView` says whether a goroutine that calls `Watch` runs before
the next key is pressed; the code guarantees neither, and both are checked.
In the log, the goroutines of a stream, of the UI and of the typing run
(`Consume`, `Advance`, `RunStep`), the UI goroutine applies what is queued
(`Apply`), and the pause after which a buffer is sent comes when nothing
arrives; a container need not print, a server need not answer, and a user need
not press a key. A container of the model prints `MaxLine` lines, so it does
pause: one that never does is the hazard at `log.go:297`.

In the run of the log `Bounds` begins the streams in one order, and in
`table_catches_up` `WatchesInOrder` the watches: a permutation turns any behaviour into such a
one. With one stream `SentIsKept` was also checked for a buffer of two and two
lines, where a line moves between the match and the drawing; there it is the
theorem of section 4 that settles it.

In the runs of the connection `MCSpec` starts in one of two contexts and on one
of two pages: a permutation of contexts or of pages turns any other start into
this one, and symmetry sets are not sound with liveness. `LongOutage` (an outage
that lasts longer than the two minutes of the back-off) is off there: with it
the program may only end sooner. `CHECK_DEADLOCK FALSE` stands where a program
may be idle for good: nobody presses a key, or it has ended.

## 4. Proofs

Every invariant, action property and refinement that a passing run checks is
also a theorem; what is left to TLC is liveness (section 6). A theorem holds for
any number of jobs, callers, watches, listeners, subjects, resources, policies,
pods, ports and addresses, and for any bound. Two have a hypothesis that their
run has too: `ViewAutoRefreshIsAlive` (a `Watch` goroutine runs before the next
key) and the two theorems on the rows of the table (the view settings stay).

* `WorkerPoolProofs`: `PoolTypeOK`, `PoolBounded`, `PoolClosesSafely`,
  `PoolReportsEveryError`, `PoolImplementsBatch`. The invariant relates the
  tokens in `semC` to the jobs
  that run (`TokensMatch`), the count of the wait group to the jobs that are not
  done (`CountMatches`), where Drain stands to what must be over by then
  (`DrainOrder`), and where each error is on its way (`ErrorsTracked`). None of
  the properties is inductive alone: that no job sends on a closed channel
  follows only because Drain passed `wg.Wait` and the count covers the send. The
  refinement of `JobBatch` needs one more fact, that only a job whose function
  returned has failed (`FailedHasReturned`): then each step gives a job, ends
  one, returns the list, or changes nothing the caller can see.
* `NetPolGraphProofs`: `GraphTypeOK`, `GraphResultIsOfSubject`,
  `GraphFailureIsLastRefresh`, `GraphOneLiveWatch`, `GraphResultsInOrder`,
  `GraphRequestIsHeld`. The
  invariant adds who holds `refreshMu` (`Mutex`), that a snapshot in flight is at
  least as new as the accepted one (`Snapshots`), what a goroutine that notifies
  a failure may assume of `lastRefresh` (`Reported`), that a live context belongs
  to the registered watch (`LiveWatch`) and that generations only grow
  (`Generations`), which is what tells a subject that was left and taken again
  from one that stayed. The last theorem needs an invariant of its own
  (`Handover`): a watch is registered only from a place where its own request is
  still ahead of it, and while a change is not evaluated some request waits in
  the trigger, is about to be sent, or is in the hands of an updater that will
  put it back or evaluate it, wherever the live watch stands (`Pending`).
* `NetPolGraphViewProofs`: `ViewTypesOK`, `ViewResultIsOfSubject`,
  `ViewKeepsModel`, `ViewDisplayIsOfSubject`, `ViewImplementsDisplay`,
  `ViewAutoRefreshIsAlive`. The view is composed with the model, so its invariant
  (`ViewIInv`) contains that of the model and `Handover`, and says where a result
  may be on its way to the screen (`DisplayInv`): what a listener was handed, it
  was handed in a call; a pending failure is of the subject noted beside it; the
  screen is of the chosen subject except while the handler that chose another has
  yet to settle (`ScreenOfSubject`); and of the slots, what is in flight and the
  screen, the later stage never holds the newer look at the cluster
  (`SeenInOrder`), which is what the refinement of `SubjectDisplay` rests on.
  For auto-refresh the invariant (`AutoInv`) lists the handlers by the sections
  they have left (`Handlers`), and says that only the watch started last is yet
  to register, and that it lives or another begins. `view_watch_lost` shows that
  its hypothesis `PromptWatch` is needed.
* `ResourceTableProofs`: `TableRefreshIsExclusive`, `TableTypesOK`,
  `TableRowsAreIndexed`, `TableRowsAreListed`. The invariant of the first adds
  where a thread may stand with which continuation (`Control`), and that the
  updater a
  `Watch` will start does not run yet while the UI goroutine is in its first
  refresh (`Spawning`): otherwise starting it would drop a thread out of the
  critical section. For the rows the loops of `Update` and `Delete` are first
  proved to merge and to prune, by induction over the listing. The invariant
  (`Merge`) then says that what a goroutine brings to either still holds when it
  takes the lock, though it let go of the lock after reading. This needs
  `MaxReloads = 0`, as in `table_refresh`: a change of the view settings
  reconciles without asking `inUpdate`, and together with a refresh it does add
  rows twice (section 5).
* `ClusterUpdaterProofs`: `ConnectionOneUpdater`, `ConnectionTypeOK`. The
  invariant of the first (`Lead`) splits the places of the UI goroutine into
  those where there is a run to halt and those between `Halt` and `Resume`, and
  ties `cancelFn` to that split: only because it is empty when `Resume` runs are
  all earlier runs known to be cancelled. For the types, the stack is a sequence
  of pages and a switch that is about to read its context has one (`Named`).
* `LogModelProofs`: `LogTypes`, `LogSentIsKept`, for any number of streams, any
  capacities and filters, and any order of the queued updates. The type theorem
  needs `AttemptsLeft` (who may retry has an attempt left) and that the test
  which would send an overflowing buffer never holds. `SentIsKept` speaks about
  the time between commands. Inside one a clear may be queued whose lines are
  not handed over yet, so the invariant says: while a command owes lines
  (`Owed`), its steps end in a drawing, and otherwise (`Good`) every line the
  mark covers is kept or astray, whatever falls out of the buffer. A
  line that matched is in the hand of a goroutine about to draw it
  (`MatchedIsShown`), and what is left of a command draws every line or has
  nothing to wipe (`Proper`, `Redraws`).
* `PolicyArithmeticProofs`: what the operators of `PortPermissions` and
  `Prefixes` compute, port by port and address by address. `CanonicalIsExact`
  (merging ranges neither adds nor loses a port), `IntersectionIsExact`,
  `SubtractionIsExact` and `SubtractPermissionsIsExact` (for a list of denials, by
  induction over it) are equivalences for what is certain and what is possible,
  and `ListsStayWellFormed` keeps their hypothesis. `IntersectionOfBlocksIsExact`
  and `ContainmentIsSound` read a prefix as an aligned interval and follow the
  recursion into its halves. Containment is sound and not complete: a part
  outside the block that the candidate excepts as two halves is empty, and the
  code answers all the same that it is not contained.
* `PolicyEvaluatorProofs`: `EvaluatorTypesOK`, `CacheStaysCurrent`,
  `VerdictsAlwaysHold`, `CIDRsAreAlwaysGuaranteed`, `TruncationIsAlwaysTold`,
  `RuleRowsAlwaysHold`. Three facts are invariant: the cluster is made of the
  catalogue (`ClusterOK`); a cached form is a normalization by its own key, of
  each policy one (`CacheInv`), and equal keys are of equal forms, so a snapshot
  is of the cluster; and the answer is that of such a snapshot (`AnswerInv`). The
  rest is about one evaluation. In every world the traffic is bracketed by what
  the evaluator calls certain (`Below`) and possible (`Above`): shown of a port,
  a rule, a layer, a side, and then of two pods and of an address block. A layer
  asks of the other end only how a matcher stands to each rule (`Settled`,
  `MatchesBelow`, `MatchesAbove`), so pods and blocks share that proof. Listings
  follow from what the budget takes (`PairsOf`), rows from the evidence a verdict
  carries (`Cites`, `Shows`). Two things the code relies on came out of these
  proofs and are in the model now: a peer is `unproven` only where the policy
  names blocks and constrains the identity (`policy_istio.go:301`), and a row is
  recognised by the kind of its entry, never by the name of a policy.

Induction is over sets of naturals: one that holds 0 and, with each number, the
next contains them all, because `<` is well-founded on `Nat`. The loops of the
code are recursive functions or folds for that reason.

The assumptions are those the modules name: `PoolAssumption`, `ModelAssumption`
and `ViewAssumption` (the graph has a listener), `RowsAssumption` and
`TableAssumption` (a filter selects among the resources), `ClientAssumption`,
`UpdaterAssumption`, `StreamAssumption`, `LogAssumption`, `PortAssumption`,
`WidthAssumption`, `SelectionAssumption` and `EvaluatorAssumption` (the cluster
is finite and its names are kept apart). TLC evaluates them in the runs of their modules.
`PortSpec` admits only ranges with `lo <= hi`: the API server refuses others, and
the conversion of Cilium rules keeps an end only above the start
(`policy_cilium.go:854`).

## 5. Findings

1. `view_watch_lost`: a `Watch` goroutine scheduled late cancels the watch that
   replaced it, and auto-refresh is dead while shown as on.
2. `connection_bail_out`: a run of `clusterUpdater` that was halted (a shell is
   opened, the context switched) while it checked the connection ends the whole
   program when that check fails, after one failure and with the shell open:
   the back-off is bound to the cancelled context and returns `Stop`.
3. `policy_disallowed`: with authorization that permits no TCP and a named UDP
   port that a pod has twice, the verdict is Disallowed although UDP traffic may
   get through; the comment beside the code says that nothing but TCP is touched.

Others were met and are in `hazards` with the reason why they are no finding:

* the two notifications of a partial refresh are not always the pair a comment
  takes them for (`internal/view/netpol_graph.go:593`; what is displayed is
  right all the same);
* view settings that change while an empty table is filled leave a resource
  twice until later refreshes repair it (`DisplayCatchesUp`);
* a refresh of the table writes back the namespace it read before the user
  switched (`internal/model1/table_data.go:273`);
* `Dial` may return neither a handle nor an error
  (`internal/client/client.go:480`);
* an updater whose first refresh fails is not replaced
  (`internal/view/app.go:370`), and a switch of the context that fails leaves
  the page on top stopped (`internal/view/context.go:147`). `PageComesBack` and
  the other liveness properties of the connection exclude these cases by name
  (`Watched`, `stranded`, `NoOverlap`);
* a subject picked under auto-refresh is evaluated by nobody when auto-refresh is
  switched off before the watch takes the request
  (`internal/view/netpol_graph.go:1926`; `SubjectIsEvaluated` is checked without
  auto-refresh, where every pick calls `Refresh`);
* the test that should send an overflowing log at once can never hold
  (`internal/model/log.go:297`) and every line starts the pause anew (line 301),
  so a stream that never pauses is never shown;
* `Filter` and `Refresh` of the log measure the buffer and then read it: a line
  that arrives in between is put past the end of a slice
  (`internal/model/log.go:206`). The model takes that step (`Overrun`) and stops
  there, as the program does. A typed filter runs on a goroutine of its own
  (`internal/model/cmd_buff.go:158`), so the buffer may be emptied under it too;
* a queued clear of the log may be applied after the lines queued behind it and
  wipe them for good, although the mark covers them; in the same way lines drawn
  under the old filter stay beside those of the new one when their clear came
  first (`internal/view/log.go:144`, `164`, `internal/ui/app.go:79`);
* the reset of the back-off of a log stream cannot be reached
  (`internal/dao/pod.go:460`), so attempts add up over the life of a stream;
* of the evaluator, without a run of their own: a primitive with no allowed pair
  can be Partial (`aggregateState`), where `README-NPG.md:642` asks for at least
  one, and so can a rule (`README-NPG.md:730`); the branch at
  `evaluator.go:605` cannot be taken; and Disallowed of a block says nothing of
  a part of it that a narrower rule allows.

## 6. What is only model-checked, what is not modelled

Only model-checked, on the instances of section 3, is what must happen:
`BatchReturns`, `EverythingIsShown`, `OldStreamsEnd`, `EndIsTold`,
`RefreshIsServed`, `SubjectIsEvaluated`, `PartialIsAnnotated`, `DisplayCatchesUp`,
`ConnectionFollows`, `LossEndsProgram` and `PageComesBack`. Liveness under
fairness is outside what the prover does. So are the three runs of section 5,
which show a counterexample.

Not modelled, besides the components listed so in `PROJECT.json`:

* the contents of evaluations, rows, logs and answers: they are values of small
  sets, and only their identity and age matter;
* in the view of the network policies, its panels, filters and navigation;
* in the evaluator, the translation of each kind of policy into rules (a policy
  enters as `Normalize` leaves it, but for the root namespace), explanations,
  warnings as texts, the order of display, and two calls at once, which share
  nothing but the locked cache;
* in the log, text, colours, marks, saving and the time of a line; the scroll
  mode, which drops lines while it is off (`internal/view/log.go:356`), the
  view's own limit of lines, and `LogCanceled`: no code sends the item that causes it; the request of a stream is one step, and so is the last, incomplete line
  together with the note that follows it;
* in the table, whether the connection is up when it is drawn
  (`internal/view/browser.go:306`), sorting, filtering and custom columns, the table of a single
  instance, and tables rendered by the server;
* in the client, metrics, namespaces, the kubeconfig, and whether an
  authorisation was cached or asked (so a stale one is not visible); the dynamic
  handle is dialled by the UI goroutine only, and the informers that use it are
  left out;
* in the graph, the failures of the factory and of a missing evaluator are
  failures of the evaluation like any other;
* in the application, the start (the first page is on the stack and `Resume` is
  about to be called), the watchers of the configuration, and the configuration
  that a switch saves and loads;
* memory without a lock (`conRetry` is atomic; `a.config` and `a.cache` in the
  client are replaced without one): a torn read is not modelled.

The rest of the repository is widgets, one view for each resource, the
conversion of objects to rows, calls to the API server, files and the wrapping
of external tools. It keeps little state whose correctness depends on order;
its share of the lines is why the modules stand for a small part of them.

## 7. Plan

Done so far: the pool, the graph and its view, the table and its browser, the
client under the application, the evaluator, the log. Next, in this order:

1. `WatchFactory`: `Start`, `Terminate`, `ForResource`, `ensureFactory` and the
   forwarders (`internal/watch/factory.go:61`, `265`, `334`), composed with
   `APIClient`, so that the dynamic handle that outlives a switch becomes
   visible. Its question is whether an informer of the old context can be used,
   or never stops, after a switch.
2. The page stack in full, with the nested calls of its listeners, under
   `ClusterUpdater` in place of the two-line version there.
3. Command buffer, history and flash, as small machines with their timers.

The plan of theorems is done for the modules there are. What would say more:

1. The index of the table with reloads: that it points at a row of its resource
   should survive them; that a resource has one row does not.
2. The safety half of the liveness properties, as invariants a run can check
   first: that a request of the view not yet served is in somebody's hands
   (`Handover` says so of the model), and that a line that was read is in the
   channel, in the buffer, shown or astray, unless it fell out of a full one.
3. The client: what a slot holds was dialled for the current context, or by a
   goroutine that began before the switch (the hazard at `client.go:534`).

An algorithm that needs no concurrency is checked as `PolicyEvaluator` is, by a
state machine around its operators; a new concurrent component gets a run of
its own in place of the smaller ones it subsumes.
