----------------------------- MODULE LogStreams -----------------------------
(***************************************************************************)
(* internal/dao/pod.go: a stream is one call of tailLogs.  Its goroutine   *)
(* asks for the log of a container, reads it line by line into a channel   *)
(* and starts again after an error; a second goroutine closes the channel  *)
(* when the first has ended.  Nobody but the context stops the first one.  *)
(***************************************************************************)
EXTENDS Naturals, Sequences

CONSTANTS
    Streams,        \* calls of tailLogs
    BufferSize,     \* capacity of the channel (LogBufferSize)
    Lines,          \* TailLines of a request, and the size of the log buffer
    MaxLine,        \* lines a container prints (bound)
    RetryCount      \* logRetryCount

ASSUME StreamAssumption == {BufferSize, Lines, MaxLine, RetryCount} \subseteq Nat \ {0}

EndNote == 0                    \* the item made by ToErrLogItem
Items == 0 .. MaxLine           \* a line by its number, or the note

VARIABLES
    producer,       \* [phase, attempt, next]: the goroutine of tailLogs
    channel,        \* the items in out
    closed,         \* streams whose out is closed
    cancelled       \* streams whose context is cancelled

streamVars == <<producer, channel, closed, cancelled>>

Phases == {"unused", "request", "reading", "waiting", "ending", "gone", "finished"}

StreamsTypeOK ==
    /\ producer \in [Streams -> [phase : Phases, attempt : 0 .. RetryCount, next : 1 .. MaxLine + 1]]
    /\ channel \in [Streams -> Seq(Items)]
    /\ \A s \in Streams : Len(channel[s]) <= BufferSize
    /\ closed \in SUBSET Streams
    /\ cancelled \in SUBSET Streams

StreamsInit ==
    /\ producer = [s \in Streams |-> [phase |-> "unused", attempt |-> 0, next |-> 1]]
    /\ channel = [s \in Streams |-> <<>>]
    /\ closed = {}
    /\ cancelled = {}

Unused == {s \in Streams : producer[s].phase = "unused"}
HasRoom(s) == Len(channel[s]) < BufferSize
HasLine(s) == producer[s].next <= MaxLine
To(s, phase) == producer' = [producer EXCEPT ![s].phase = phase]
Ends(s, phase) == producer' = [producer EXCEPT ![s] = [phase |-> phase, attempt |-> 0, next |-> 1]]
Send(s, item) == channel' = [channel EXCEPT ![s] = Append(@, item)]

-----------------------------------------------------------------------------
(* Mistakes the properties must catch.                                     *)
FinishIfRoom(s) ==          \* the note is sent like a line, dropped if out is full
    /\ producer[s].phase = "ending"
    /\ channel' = IF HasRoom(s) THEN [channel EXCEPT ![s] = Append(@, EndNote)] ELSE channel
    /\ Ends(s, "finished")
    /\ UNCHANGED <<closed, cancelled>>

-----------------------------------------------------------------------------
(* tailLogs, for the streams of a load.                                    *)
StartTails(started) ==
    producer' = [s \in Streams |-> IF s \in started THEN [producer[s] EXCEPT !.phase = "request"]
                                                    ELSE producer[s]]

(* A request that succeeds.  Its options are those of the first one, so    *)
(* the server sends lines again that were read before, at most the tail.   *)
Connect(s) ==
    /\ producer[s].phase = "request"
    /\ s \notin cancelled
    /\ \E again \in 0 .. Lines :
         /\ again < producer[s].next
         /\ producer' = [producer EXCEPT ![s].phase = "reading", ![s].next = @ - again]
    /\ UNCHANGED <<channel, closed, cancelled>>

(* The request, or a read, fails: no more attempts for a pod that ends,    *)
(* else a wait.                                                            *)
Fail(s) ==
    /\ producer[s].phase \in {"request", "reading"}
    /\ To(s, "waiting") \/ Ends(s, "gone")
    /\ UNCHANGED <<channel, closed, cancelled>>

(* The delay is over.  NextBackOff says Stop once the context is           *)
(* cancelled, and after the last attempt there is only the note to send.   *)
Retry(s) ==
    /\ producer[s].phase = "waiting"
    /\ s \notin cancelled
    /\ producer' = [producer EXCEPT ![s].attempt = @ + 1,
                       ![s].phase = IF producer[s].attempt + 1 = RetryCount THEN "ending" ELSE "request"]
    /\ UNCHANGED <<channel, closed, cancelled>>

(* A line is sent if there is room and dropped if there is none; a         *)
(* cancelled context is noticed at the latest when there is none.          *)
ReadLine(s) ==
    /\ producer[s].phase = "reading"
    /\ HasLine(s)
    /\ \/ HasRoom(s) /\ Send(s, producer[s].next)
       \/ ~HasRoom(s) /\ s \notin cancelled /\ UNCHANGED channel
    /\ producer' = [producer EXCEPT ![s].next = @ + 1]
    /\ UNCHANGED <<closed, cancelled>>

(* The container ends.  The rest of a line, if there is one, is sent like  *)
(* the note and before it; the two are one item here.                      *)
ReadEnds(s) ==
    /\ producer[s].phase = "reading"
    /\ To(s, "ending")
    /\ UNCHANGED <<channel, closed, cancelled>>

(* The note is sent without a look at the context: for ever if out is full *)
(* and nobody receives any more.                                           *)
Finish(s) ==
    /\ producer[s].phase = "ending"
    /\ HasRoom(s)
    /\ Send(s, EndNote)
    /\ Ends(s, "finished")
    /\ UNCHANGED <<closed, cancelled>>

(* The context is cancelled: a request or a read fails, a line finds it    *)
(* so, or the wait for the next attempt ends.                              *)
Leave(s) ==
    /\ s \in cancelled
    /\ producer[s].phase \in {"request", "reading", "waiting"}
    /\ Ends(s, "gone")
    /\ UNCHANGED <<channel, closed, cancelled>>

(* wg.Wait is over.                                                        *)
CloseOut(s) ==
    /\ producer[s].phase \in {"gone", "finished"}
    /\ s \notin closed
    /\ closed' = closed \union {s}
    /\ UNCHANGED <<producer, channel, cancelled>>

(* What a stream does by itself, and what depends on the server.           *)
Advance(s) == Finish(s) \/ Leave(s) \/ CloseOut(s)
Serve(s) == Connect(s) \/ Fail(s) \/ Retry(s) \/ ReadLine(s) \/ ReadEnds(s)

=============================================================================
