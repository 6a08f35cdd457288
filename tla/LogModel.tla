------------------------------ MODULE LogModel ------------------------------
(***************************************************************************)
(* internal/model/log.go: one goroutine for each stream (updateLogs) puts  *)
(* lines into a buffer and hands what is new to the view; the keys of      *)
(* view/log.go clear, filter, render again and restart.  Append, Notify    *)
(* and Clear hold the lock; what renders again does not, so a command is a *)
(* sequence of steps.  Filter also runs on the goroutine with which        *)
(* CmdBuff waits for the end of the typing, beside the commands of the UI. *)
(*                                                                         *)
(* The view changes when the UI goroutine applies an update: a clear       *)
(* (LogCleared) or some lines (LogChanged).  Each update is queued by a    *)
(* goroutine of its own, so they may be applied in any order.  What orders *)
(* them is kept: the clears are numbered, and a line that is queued        *)
(* remembers the number of clears before it.                               *)
(***************************************************************************)
EXTENDS LogStreams, FiniteSets

CONSTANTS
    Filters,        \* texts of the filter
    NoFilter,
    Selects(_, _),  \* Selects(f, n): filter f matches line n
    MaxCommands     \* commands of the user (bound)

ASSUME LogAssumption == NoFilter \in Filters /\ MaxCommands \in Nat

Hands == {"ui", "typing"}   \* the goroutines that run commands

VARIABLES
    ring,           \* lines: each with its number and its fate
    lastSent,       \* lines of ring that were sent
    filter,
    listening,      \* the view is in listeners
    loaded,         \* streams whose context cancelFn cancels
    consumer,       \* where updateLogs stands: none, select, append, left, done
    inHand,         \* the item it received
    told,           \* streams whose note was put into the buffer
    fired,          \* calls of LogCleared
    clears,         \* those that are queued
    page,           \* the log view is shown
    steps,          \* what is left of the command a hand runs
    measured,       \* the length it read before the lines
    query,          \* the filter it read
    picked,         \* the places that matched
    panicked,       \* a line was put past the end of a slice
    commands

bufferVars == <<ring, lastSent, filter, listening, loaded>>
consumerVars == <<consumer, inHand, told>>
queueVars == <<fired, clears>>
localVars == <<measured, query, picked>>
uiVars == <<page, steps, localVars, panicked, commands>>
vars == <<streamVars, bufferVars, consumerVars, queueVars, uiVars>>

(* due: the line is in updates that were queued after so many clears.      *)
(* shown: the view has it.  matched: the hands that found it and have yet  *)
(* to draw it.  astray: a race took it, namely                             *)
(*   - it was handed over while nobody listened,                           *)
(*   - it was handed over between the two halves of Clear,                 *)
(*   - it was drawn before a clear that had been queued ahead of it,       *)
(*   - it had moved when the places that matched were drawn.               *)
Line == [no : Items, due : SUBSET Nat, shown : BOOLEAN, matched : SUBSET Hands, astray : BOOLEAN]
StepNames == {"load", "listen", "unlisten", "cancel", "empty", "clear", "wipe",
              "measure", "choose", "render", "match", "show"}

Matches(q, line) == q = NoFilter \/ Selects(q, line.no)
Wanted(line) == Matches(filter, line)
Selecting(s) == ~panicked /\ consumer[s] = "select"
Live(s) == consumer[s] \in {"select", "append"}

LogTypeOK ==
    /\ StreamsTypeOK
    /\ ring \in Seq(Line)
    /\ lastSent \in 0 .. Len(ring)
    /\ Len(ring) <= Lines
    /\ filter \in Filters
    /\ {listening, page, panicked} \subseteq BOOLEAN
    /\ loaded \in SUBSET Streams
    /\ consumer \in [Streams -> {"none", "select", "append", "left", "done"}]
    /\ inHand \in [Streams -> Items]
    /\ told \in SUBSET Streams
    /\ fired \in Nat
    /\ clears \in SUBSET (1 .. fired)
    /\ \A i \in DOMAIN ring : ring[i].due \subseteq 0 .. fired
    /\ steps \in [Hands -> Seq(StepNames)]
    /\ measured \in [Hands -> 0 .. Lines]
    /\ query \in [Hands -> Filters]
    /\ picked \in [Hands -> SUBSET (1 .. Lines)]
    /\ commands \in 0 .. MaxCommands

Init ==
    /\ StreamsInit
    /\ ring = <<>>
    /\ lastSent = 0
    /\ filter = NoFilter
    /\ listening = FALSE
    /\ loaded = {}
    /\ consumer = [s \in Streams |-> "none"]
    /\ inHand = [s \in Streams |-> EndNote]
    /\ told = {}
    /\ fired = 0
    /\ clears = {}
    /\ page = FALSE
    /\ steps = [h \in Hands |-> <<>>]
    /\ measured = [h \in Hands |-> 0]
    /\ query = [h \in Hands |-> NoFilter]
    /\ picked = [h \in Hands |-> {}]
    /\ panicked = FALSE
    /\ commands = 0

-----------------------------------------------------------------------------
(* A line that is handed over: LogChanged queues an update with it, if     *)
(* the view is told.                                                       *)
Handed(line) ==
    IF listening THEN [line EXCEPT !.due = @ \union {fired}] ELSE [line EXCEPT !.astray = TRUE]

(* A line that Notify sends, if the filter lets it pass.                   *)
Sent(line) == IF Wanted(line) THEN Handed(line) ELSE line

-----------------------------------------------------------------------------
(* Mistakes the properties must catch.                                     *)
MarkStays == lastSent           \* a full buffer shifts its lines but not the mark

KeepEveryLine(line) == Append(ring, line)

NotifyAllButOne(lines, mark) == \* off by one in the test of Notify
    IF mark + 1 < Len(lines)
    THEN /\ ring' = [i \in DOMAIN lines |-> IF i > mark THEN Sent(lines[i]) ELSE lines[i]]
         /\ lastSent' = Len(lines)
    ELSE ring' = lines /\ lastSent' = mark

ForgetStreams ==                \* cancelFn is set to nil and never called
    /\ loaded' = {}
    /\ UNCHANGED cancelled

-----------------------------------------------------------------------------
(* Append: a full buffer loses its first line, and the mark of what was    *)
(* sent moves with the lines.                                              *)
Stored(line) == IF Len(ring) < Lines THEN Append(ring, line) ELSE Append(Tail(ring), line)
MarkAfter == IF Len(ring) < Lines \/ lastSent = 0 THEN lastSent ELSE lastSent - 1

(* Notify: the lines after the mark.                                       *)
Notify(lines, mark) ==
    /\ ring' = [i \in DOMAIN lines |-> IF i > mark THEN Sent(lines[i]) ELSE lines[i]]
    /\ lastSent' = Len(lines)

-----------------------------------------------------------------------------
(* updateLogs.                                                             *)
Receive(s) ==
    /\ Selecting(s)
    /\ channel[s] # <<>>
    /\ inHand' = [inHand EXCEPT ![s] = Head(channel[s])]
    /\ channel' = [channel EXCEPT ![s] = Tail(@)]
    /\ consumer' = [consumer EXCEPT ![s] = "append"]
    /\ UNCHANGED <<producer, closed, cancelled, bufferVars, told, queueVars, uiVars>>

(* The item goes into the buffer.  A buffer that overflows is sent at      *)
(* once; the test never holds, because the buffer is no longer than Lines. *)
AppendLine(s) ==
    /\ ~panicked
    /\ consumer[s] = "append"
    /\ LET line == [no |-> inHand[s], due |-> {}, shown |-> FALSE, matched |-> {}, astray |-> FALSE] IN
         IF Len(Stored(line)) - MarkAfter > Lines
         THEN Notify(Stored(line), MarkAfter)
         ELSE ring' = Stored(line) /\ lastSent' = MarkAfter
    /\ told' = IF inHand[s] = EndNote THEN told \union {s} ELSE told
    /\ inHand' = [inHand EXCEPT ![s] = EndNote]
    /\ consumer' = [consumer EXCEPT ![s] = "select"]
    /\ UNCHANGED <<streamVars, filter, listening, loaded, queueVars, uiVars>>

(* Nothing came for flushTimeout; each item starts the time anew.          *)
TimeOut(s) ==
    /\ Selecting(s)
    /\ lastSent < Len(ring)
    /\ Notify(ring, lastSent)
    /\ UNCHANGED <<streamVars, filter, listening, loaded, consumerVars, queueVars, uiVars>>

(* The channel is closed and empty.                                        *)
Drained(s) ==
    /\ Selecting(s)
    /\ channel[s] = <<>>
    /\ s \in closed
    /\ Notify(ring, lastSent)
    /\ consumer' = [consumer EXCEPT ![s] = "done"]
    /\ UNCHANGED <<streamVars, filter, listening, loaded, inHand, told, queueVars, uiVars>>

(* ctx.Done: what was not sent stays in the buffer.                        *)
LeaveSelect(s) ==
    /\ Selecting(s)
    /\ s \in cancelled
    /\ consumer' = [consumer EXCEPT ![s] = "left"]
    /\ UNCHANGED <<streamVars, bufferVars, inHand, told, queueVars, uiVars>>

Consume(s) == Receive(s) \/ AppendLine(s) \/ TimeOut(s) \/ Drained(s) \/ LeaveSelect(s)

-----------------------------------------------------------------------------
(* The commands, each the list of its steps on the goroutine that runs it. *)
Begin(h, list) ==
    /\ ~panicked /\ steps[h] = <<>>
    /\ commands < MaxCommands
    /\ commands' = commands + 1
    /\ steps' = [steps EXCEPT ![h] = list]
    /\ UNCHANGED <<streamVars, ring, lastSent, listening, loaded, consumerVars, queueVars, localVars, panicked>>

Start ==                    \* the streams before the listener
    /\ ~page
    /\ page' = TRUE
    /\ Begin("ui", <<"load", "listen">>)
    /\ UNCHANGED filter

Stop ==
    /\ page
    /\ page' = FALSE
    /\ Begin("ui", <<"unlisten", "cancel">>)
    /\ UNCHANGED filter

(* Another range of time, or all containers.  sinceCmd wipes the view once *)
(* more at its beginning, of lines "empty" drops anyway.                   *)
Restart ==
    /\ page
    /\ Begin("ui", <<"cancel", "empty", "clear", "load">>)
    /\ UNCHANGED <<page, filter>>

Clear ==
    /\ page
    /\ Begin("ui", <<"empty", "clear">>)
    /\ UNCHANGED <<page, filter>>

(* By a key, or when the typing has paused: the view is told of the buffer *)
(* while it listens to the log.                                            *)
Filter(h) ==
    /\ IF h = "ui" THEN page ELSE listening
    /\ filter' \in Filters
    /\ Begin(h, <<"wipe", "measure", "choose">>)
    /\ UNCHANGED page

ToggleShowTimestamp ==      \* renders every line, whatever the filter
    /\ page
    /\ Begin("ui", <<"wipe", "measure", "render">>)
    /\ UNCHANGED <<page, filter>>

-----------------------------------------------------------------------------
(* The steps.                                                              *)
Step(h, name) ==
    /\ ~panicked /\ steps[h] # <<>>
    /\ Head(steps[h]) = name
    /\ UNCHANGED <<page, commands>>

Done(h) == steps' = [steps EXCEPT ![h] = Tail(@)]

Return(h) ==                \* the locals of the command are gone
    /\ measured' = [measured EXCEPT ![h] = 0]
    /\ query' = [query EXCEPT ![h] = NoFilter]
    /\ picked' = [picked EXCEPT ![h] = {}]

Cancel ==
    /\ loaded' = {}
    /\ cancelled' = cancelled \union loaded

CancelStep(h) ==
    /\ Step(h, "cancel") /\ Done(h)
    /\ Cancel
    /\ UNCHANGED <<producer, channel, closed, ring, lastSent, filter, listening, consumerVars, queueVars, localVars, panicked>>

(* load: no streams when TailLogs fails, which the listeners are told.     *)
Load(h) ==
    /\ Step(h, "load") /\ Done(h)
    /\ \E started \in SUBSET Unused :
         /\ loaded' = started
         /\ StartTails(started)
         /\ consumer' = [s \in Streams |-> IF s \in started THEN "select" ELSE consumer[s]]
    /\ cancelled' = cancelled \union loaded
    /\ UNCHANGED <<channel, closed, ring, lastSent, filter, listening, inHand, told, queueVars, localVars, panicked>>

Listen(h) ==
    /\ \/ Step(h, "listen") /\ listening' = TRUE
       \/ Step(h, "unlisten") /\ listening' = FALSE
    /\ Done(h)
    /\ UNCHANGED <<streamVars, ring, lastSent, filter, loaded, consumerVars, queueVars, localVars, panicked>>

(* LogCleared queues a clear, if the view is told.                         *)
FireLogCleared ==
    /\ fired' = IF listening THEN fired + 1 ELSE fired
    /\ clears' = IF listening THEN clears \union {fired + 1} ELSE clears

(* The two halves of Clear: the buffer under the lock, the view after it.  *)
EmptyBuffer(h) ==
    /\ Step(h, "empty") /\ Done(h)
    /\ ring' = <<>>
    /\ lastSent' = 0
    /\ UNCHANGED <<streamVars, filter, listening, loaded, consumerVars, queueVars, localVars, panicked>>

ClearView(h) ==
    /\ Step(h, "clear") /\ Done(h)
    /\ FireLogCleared
    /\ ring' = [i \in DOMAIN ring |-> [ring[i] EXCEPT !.astray = @ \/ ring[i].shown \/ ring[i].due # {}]]
    /\ UNCHANGED <<streamVars, lastSent, filter, listening, loaded, consumerVars, localVars, panicked>>

(* The view is to be cleared because its lines are about to be handed over.*)
WipeView(h) ==
    /\ Step(h, "wipe") /\ Done(h)
    /\ FireLogCleared
    /\ UNCHANGED <<streamVars, bufferVars, consumerVars, localVars, panicked>>

(* A slice as long as the buffer is now.                                   *)
Measure(h) ==
    /\ Step(h, "measure") /\ Done(h)
    /\ measured' = [measured EXCEPT ![h] = Len(ring)]
    /\ UNCHANGED <<streamVars, bufferVars, consumerVars, queueVars, query, picked, panicked>>

(* fireLogBuffChanged reads the filter: render all lines, or match them to *)
(* it, for which the buffer is measured anew.                              *)
Choose(h) ==
    /\ Step(h, "choose")
    /\ steps' = [steps EXCEPT ![h] = IF filter = NoFilter THEN <<"render">> ELSE <<"match", "measure", "show">>]
    /\ query' = [query EXCEPT ![h] = filter]
    /\ measured' = [measured EXCEPT ![h] = IF filter = NoFilter THEN @ ELSE Len(ring)]
    /\ UNCHANGED <<streamVars, bufferVars, consumerVars, queueVars, picked, panicked>>

(* A line that was added since the slice was made does not fit.            *)
Overrun(h) == Len(ring) > measured[h]

RenderLines(h) ==
    /\ Step(h, "render") /\ Done(h)
    /\ panicked' = Overrun(h)
    /\ ring' = [i \in DOMAIN ring |-> Handed(ring[i])]
    /\ Return(h)
    /\ UNCHANGED <<streamVars, lastSent, filter, listening, loaded, consumerVars, queueVars>>

MatchLines(h) ==
    /\ Step(h, "match") /\ Done(h)
    /\ panicked' = Overrun(h)
    /\ picked' = [picked EXCEPT ![h] = {i \in DOMAIN ring : Matches(query[h], ring[i])}]
    /\ ring' = [i \in DOMAIN ring |->
                  IF Matches(query[h], ring[i]) THEN [ring[i] EXCEPT !.matched = @ \union {h}] ELSE ring[i]]
    /\ UNCHANGED <<streamVars, lastSent, filter, listening, loaded, consumerVars, queueVars, measured, query>>

(* The lines that stand now where others matched, in the slice that was    *)
(* made after they did.                                                    *)
ShowLines(h) ==
    /\ Step(h, "show") /\ Done(h)
    /\ panicked' = (Overrun(h) \/ ~(picked[h] \subseteq 1 .. measured[h]))
    /\ LET drawn(i) == IF i \in picked[h] THEN Handed(ring[i])
                       ELSE [ring[i] EXCEPT !.astray = @ \/ h \in ring[i].matched]
       IN  ring' = [i \in DOMAIN ring |-> [drawn(i) EXCEPT !.matched = @ \ {h}]]
    /\ Return(h)
    /\ UNCHANGED <<streamVars, lastSent, filter, listening, loaded, consumerVars, queueVars>>

-----------------------------------------------------------------------------
(* The UI goroutine applies the updates that are queued, between its       *)
(* commands and in any order.                                              *)
ApplyClear ==
    /\ ~panicked /\ steps["ui"] = <<>>
    /\ \E c \in clears : clears' = clears \ {c}
    /\ ring' = [i \in DOMAIN ring |-> [ring[i] EXCEPT !.shown = FALSE]]
    /\ UNCHANGED <<streamVars, lastSent, filter, listening, loaded, consumerVars, fired, uiVars>>

(* Lines that were handed over after n clears.  A clear queued ahead of    *)
(* them that is still queued will take them.                               *)
ApplyLines ==
    /\ ~panicked /\ steps["ui"] = <<>>
    /\ \E n \in 0 .. fired :
         \E places \in SUBSET {i \in DOMAIN ring : n \in ring[i].due} :
            /\ places # {}
            /\ ring' = [i \in DOMAIN ring |->
                          IF i \in places
                          THEN [ring[i] EXCEPT !.due = @ \ {n}, !.shown = TRUE, !.astray = @ \/ \E c \in clears : c <= n]
                          ELSE ring[i]]
    /\ UNCHANGED <<streamVars, lastSent, filter, listening, loaded, consumerVars, queueVars, uiVars>>

Apply == ApplyClear \/ ApplyLines

RunStep(h) ==
    \/ CancelStep(h) \/ Load(h) \/ Listen(h) \/ EmptyBuffer(h) \/ ClearView(h) \/ WipeView(h)
    \/ Measure(h) \/ Choose(h) \/ RenderLines(h) \/ MatchLines(h) \/ ShowLines(h)
Press == Start \/ Stop \/ Restart \/ Clear \/ ToggleShowTimestamp \/ \E h \in Hands : Filter(h)
InStreams == ~panicked /\ UNCHANGED <<bufferVars, consumerVars, queueVars, uiVars>>

Next ==
    \/ Press
    \/ Apply
    \/ \E h \in Hands : RunStep(h)
    \/ \E s \in Streams :
         \/ Consume(s)
         \/ Advance(s) /\ InStreams
         \/ Serve(s) /\ InStreams

(* Goroutines that can run do; the user need not press a key, a container  *)
(* need not print and a server need not answer.                            *)
Fairness ==
    /\ WF_vars(Apply)
    /\ \A h \in Hands : WF_vars(RunStep(h))
    /\ \A s \in Streams : WF_vars(Consume(s)) /\ WF_vars(Advance(s) /\ InStreams)

Spec == Init /\ [][Next]_vars /\ Fairness

-----------------------------------------------------------------------------
(* The line is in the view, or will be: it waits in an update, and every   *)
(* clear that is queued was queued before that update.                     *)
Kept(line) ==
    \/ line.shown /\ clears = {}
    \/ \E n \in line.due : \A c \in clears : c <= n

Idle == \A h \in Hands : steps[h] = <<>>

(* Every line before the mark that the filter lets pass is in the view, or *)
(* is queued for it behind every clear, unless one of the races named at   *)
(* Line took it: a shift of a full buffer, a new filter, another rendering *)
(* or a restart loses none, and no update that is still to be applied      *)
(* wipes it for good (Append, Notify, Filter, LogCleared, LogChanged).     *)
SentIsKept ==
    Idle /\ ~panicked =>
        \A i \in 1 .. lastSent : Wanted(ring[i]) => Kept(ring[i]) \/ ring[i].astray

Waiting == \E i \in DOMAIN ring : Wanted(ring[i]) /\ ~ring[i].shown /\ ~ring[i].astray
Followed == listening /\ ~panicked /\ \E s \in loaded : Live(s)

(* "LogChanged notifies the model changed": a line in the buffer comes to  *)
(* be in the view, although nothing but a pause of flushTimeout sends it   *)
(* and clears and lines are applied in any order, unless one of the races  *)
(* named at Line takes it.                                                 *)
EverythingIsShown == []<>~(Waiting /\ Followed)

(* The streams of a load that is over (Restart, Stop, a failed load) end:  *)
(* both goroutines, but for a sender in tailLogs whom no one receives      *)
(* from, which waits for ever.                                             *)
Stranded(s) == producer[s].phase = "ending" /\ consumer[s] = "left" /\ ~HasRoom(s)
Over(s) == consumer[s] \in {"left", "done"} /\ (s \in closed \/ Stranded(s))
OldStreamsEnd ==
    []<>(panicked \/ \A s \in Streams \ (Unused \union loaded) : Over(s))

(* A stream whose container ends, or that is given up after logRetryCount  *)
(* attempts, says so in the buffer, however full its channel was           *)
(* (tailLogs, readLogs), unless it was cancelled.  One whose pod is gone   *)
(* ends without a word.                                                    *)
EndIsTold ==
    []<>(panicked \/ \A s \in Streams \ cancelled :
                        producer[s].phase \in {"ending", "finished"} => s \in told)

=============================================================================
