--------------------------- MODULE LogModelProofs ---------------------------
(***************************************************************************)
(* For any number of streams, any size of the buffer and of the channels,  *)
(* and any filters: the mark of what was sent stays inside the buffer, the *)
(* buffer inside its limit, and between commands what the mark covers is   *)
(* in the view or comes to it behind every clear, in whatever order the    *)
(* updates of the view are applied.                                        *)
(***************************************************************************)
EXTENDS LogModel, TLAPS

(* There is an attempt left as long as the stream may need one.            *)
AttemptsLeft ==
    \A s \in Streams : producer[s].phase \in {"unused", "request", "reading", "waiting"} =>
                          producer[s].attempt < RetryCount

TInv == LogTypeOK /\ AttemptsLeft

(* What is left of a command that draws every line: it has yet to read the *)
(* filter, to render, to match the lines or to draw those that matched.    *)
Choosing == {<<"wipe", "measure", "choose">>, <<"measure", "choose">>, <<"choose">>}
Rendering == {<<"wipe", "measure", "render">>, <<"measure", "render">>, <<"render">>}
Matching == {<<"match", "measure", "show">>}
Showing == {<<"measure", "show">>, <<"show">>}
Drawing == Choosing \union Rendering \union Matching \union Showing
DrawNames == {"wipe", "measure", "choose", "render", "match", "show"}

(* A command draws in one of these ways or not at all; a view is wiped     *)
(* only to be drawn again.                                                 *)
Proper(list) == list \in Drawing \/ \A i \in DOMAIN list : list[i] \notin DrawNames

(* Lines that matched are about to be drawn.                               *)
MatchedIsShown == \A i \in DOMAIN ring : \A h \in ring[i].matched : steps[h] \in Showing

(* A hand has yet to hand over every line the filter lets pass: it has yet *)
(* to read the filter, or to match the lines to the filter there is.       *)
Redraws(list) == list \in Choosing \union Rendering
Owed == \E h \in Hands : Redraws(steps[h]) \/ (steps[h] \in Matching /\ query[h] = filter)

Settled(line) == Wanted(line) => Kept(line) \/ line.astray \/ line.matched # {}
Good == \A i \in 1 .. lastSent : Settled(ring[i])

Commanded == (\A h \in Hands : Proper(steps[h])) /\ MatchedIsShown

IInv == TInv /\ Commanded /\ (panicked \/ Owed \/ Good)

-----------------------------------------------------------------------------
(* Lines and buffers.                                                      *)

(* Marking lines keeps their type and their number.                        *)
LEMMA MarkedType ==
    ASSUME NEW lines \in Seq(Line), NEW f, f = [i \in DOMAIN lines |-> f[i]],
           \A i \in DOMAIN lines : f[i] \in Line
    PROVE  f \in Seq(Line) /\ Len(f) = Len(lines) /\ DOMAIN f = DOMAIN lines
OBVIOUS

(* What becomes of a line when it is handed over.                          *)
LEMMA HandedLine ==
    ASSUME LogTypeOK, NEW line \in Line, line.due \subseteq 0 .. fired
    PROVE  /\ Handed(line) \in Line
           /\ Handed(line).due \subseteq 0 .. fired
           /\ Handed(line).no = line.no
           /\ Handed(line).matched = line.matched
           /\ Kept(Handed(line)) \/ Handed(line).astray
<1>1. fired \in Nat /\ listening \in BOOLEAN /\ clears \in SUBSET (1 .. fired)
  BY DEF LogTypeOK
<1>2. CASE listening
  <2>1. Handed(line) = [line EXCEPT !.due = line.due \union {fired}]
    BY <1>2 DEF Handed
  <2>2. /\ Handed(line) \in Line
        /\ Handed(line).due = line.due \union {fired}
        /\ Handed(line).no = line.no
        /\ Handed(line).matched = line.matched
    BY <1>1, <2>1 DEF Line
  <2>3. \A c \in clears : c <= fired
    BY <1>1
  <2> QED
    BY <1>1, <2>2, <2>3 DEF Kept
<1>3. CASE ~listening
  <2>1. Handed(line) = [line EXCEPT !.astray = TRUE]
    BY <1>3 DEF Handed
  <2> QED
    BY <2>1 DEF Line
<1> QED
  BY <1>1, <1>2, <1>3

LEMMA SentLine ==
    ASSUME LogTypeOK, NEW line \in Line, line.due \subseteq 0 .. fired
    PROVE  /\ Sent(line) \in Line
           /\ Sent(line).due \subseteq 0 .. fired
           /\ Sent(line).matched = line.matched
           /\ Settled(Sent(line))
<1>1. CASE Wanted(line)
  BY <1>1, HandedLine DEF Sent, Settled
<1>2. CASE ~Wanted(line)
  BY <1>2 DEF Sent, Settled
<1> QED
  BY <1>1, <1>2

LEMMA AddedLine ==
    ASSUME NEW lines \in Seq(Line), NEW line \in Line
    PROVE  /\ \A i \in 1 .. Len(lines) : Append(lines, line)[i] = lines[i]
           /\ Append(lines, line)[Len(lines) + 1] = line
OBVIOUS

(* Append: the lines move one place down when the buffer is full.          *)
LEMMA StoredType ==
    ASSUME LogTypeOK, NEW line \in Line, line.due = {}, line.matched = {}
    PROVE  /\ Stored(line) \in Seq(Line)
           /\ Len(Stored(line)) \in 1 .. Lines
           /\ MarkAfter \in 0 .. Len(Stored(line)) - 1
           /\ \A i \in 1 .. Len(Stored(line)) :
                Stored(line)[i] = line \/ \E j \in DOMAIN ring : Stored(line)[i] = ring[j]
           /\ \A i \in 1 .. MarkAfter : \E j \in 1 .. lastSent : Stored(line)[i] = ring[j]
<1>0. /\ Lines \in Nat \ {0} /\ Len(ring) \in Nat /\ Len(ring) <= Lines
      /\ ring \in Seq(Line) /\ lastSent \in 0 .. Len(ring) /\ DOMAIN ring = 1 .. Len(ring)
  BY StreamAssumption DEF LogTypeOK
<1> DEFINE Old(i) == \E j \in DOMAIN ring : Stored(line)[i] = ring[j]
           Sound == /\ \A i \in 1 .. Len(Stored(line)) : Stored(line)[i] = line \/ Old(i)
                    /\ \A i \in 1 .. MarkAfter : \E j \in 1 .. lastSent : Stored(line)[i] = ring[j]
<1>1. CASE Len(ring) < Lines
  <2>1. /\ Stored(line) = Append(ring, line) /\ MarkAfter = lastSent
        /\ Len(Stored(line)) = Len(ring) + 1 /\ Stored(line) \in Seq(Line)
    BY <1>0, <1>1 DEF Stored, MarkAfter
  <2>2. /\ \A i \in 1 .. Len(ring) : Stored(line)[i] = ring[i]
        /\ Stored(line)[Len(ring) + 1] = line
    BY <1>0, <2>1
  <2>3. \A i \in 1 .. Len(Stored(line)) : i \in 1 .. Len(ring) \/ i = Len(ring) + 1
    BY <1>0, <2>1
  <2>4. \A i \in 1 .. MarkAfter : i \in 1 .. Len(ring) /\ i \in 1 .. lastSent
    BY <1>0, <2>1
  <2>5. Sound
    BY <1>0, <2>2, <2>3, <2>4
  <2>6. Len(Stored(line)) \in 1 .. Lines /\ MarkAfter \in 0 .. Len(Stored(line)) - 1
    BY <1>0, <1>1, <2>1
  <2> HIDE DEF Sound
  <2> QED
    BY <2>1, <2>5, <2>6
<1>2. CASE Len(ring) = Lines
  <2>1. ring # <<>> /\ Tail(ring) \in Seq(Line) /\ Len(Tail(ring)) = Lines - 1
        /\ \A i \in 1 .. Lines - 1 : Tail(ring)[i] = ring[i + 1]
    BY <1>0, <1>2
  <2>2. /\ Stored(line) = Append(Tail(ring), line)
        /\ MarkAfter = IF lastSent = 0 THEN 0 ELSE lastSent - 1
        /\ Len(Stored(line)) = Lines /\ Stored(line) \in Seq(Line)
    BY <1>0, <1>2, <2>1 DEF Stored, MarkAfter
  <2>3. /\ \A i \in 1 .. Lines - 1 : Stored(line)[i] = ring[i + 1]
        /\ Stored(line)[Lines] = line
    <3>1. /\ \A i \in 1 .. Len(Tail(ring)) : Append(Tail(ring), line)[i] = Tail(ring)[i]
          /\ Append(Tail(ring), line)[Len(Tail(ring)) + 1] = line
      BY <2>1, AddedLine
    <3>2. Len(Tail(ring)) + 1 = Lines
      <4>1. Lines \in Nat /\ Len(Tail(ring)) = Lines - 1
        BY <1>0, <2>1
      <4> QED
        BY ONLY <4>1
    <3> QED
      BY <2>1, <2>2, <3>1, <3>2
  <2>4. \A i \in 1 .. Len(Stored(line)) : (i \in 1 .. Lines - 1 /\ i + 1 \in DOMAIN ring) \/ i = Lines
    BY <1>0, <1>2, <2>2
  <2>5. \A i \in 1 .. MarkAfter : i \in 1 .. Lines - 1 /\ i + 1 \in 1 .. lastSent
    BY <1>0, <1>2, <2>2
  <2>6. Sound
    BY <1>0, <2>3, <2>4, <2>5
  <2>7. Len(Stored(line)) \in 1 .. Lines /\ MarkAfter \in 0 .. Len(Stored(line)) - 1
    BY <1>0, <1>2, <2>2
  <2> HIDE DEF Sound
  <2>8. Stored(line) \in Seq(Line)
    BY <2>2
  <2> QED
    BY ONLY <2>6, <2>7, <2>8 DEF Sound
<1>3. Lines \in Nat /\ Len(ring) \in Nat /\ Len(ring) <= Lines
  BY <1>0
<1>4. Len(ring) < Lines \/ Len(ring) = Lines
  BY ONLY <1>3
<1> QED
  BY <1>1, <1>2, <1>4

(* Notify: the mark ends behind the last line, and what it covers is       *)
(* settled if that was so of what it covered.                              *)
LEMMA NotifyRing ==
    ASSUME TInv, MatchedIsShown, Notify(ring, lastSent),
           UNCHANGED <<filter, clears, fired, steps>>
    PROVE  /\ ring' \in Seq(Line) /\ Len(ring') = Len(ring)
           /\ lastSent' = Len(ring)
           /\ \A i \in DOMAIN ring' : ring'[i].due \subseteq 0 .. fired'
           /\ MatchedIsShown'
           /\ Good => Good'
<1> USE DEF TInv
<1>0. /\ ring \in Seq(Line) /\ lastSent \in 0 .. Len(ring) /\ DOMAIN ring = 1 .. Len(ring)
      /\ \A i \in DOMAIN ring : ring[i] \in Line /\ ring[i].due \subseteq 0 .. fired
  BY DEF LogTypeOK
<1>1. /\ ring' = [i \in DOMAIN ring |-> IF i > lastSent THEN Sent(ring[i]) ELSE ring[i]]
      /\ lastSent' = Len(ring)
  BY DEF Notify
<1>2. ASSUME NEW i \in DOMAIN ring
      PROVE  /\ ring'[i] \in Line
             /\ ring'[i].due \subseteq 0 .. fired
             /\ ring'[i].matched = ring[i].matched
             /\ i > lastSent => Settled(ring'[i])
             /\ ~(i > lastSent) => ring'[i] = ring[i]
  BY <1>0, <1>1, SentLine
<1>3. ring' \in Seq(Line) /\ Len(ring') = Len(ring) /\ DOMAIN ring' = DOMAIN ring
  BY <1>0, <1>1, <1>2, MarkedType
<1>4. MatchedIsShown'
  BY <1>2, <1>3 DEF MatchedIsShown
<1>5. ASSUME Good, NEW i \in 1 .. lastSent' PROVE Settled(ring'[i])
  <2>1. i \in DOMAIN ring
    BY <1>0, <1>1
  <2>2. i > lastSent \/ i \in 1 .. lastSent
    BY <1>0, <1>1
  <2> QED
    BY <1>2, <1>5, <2>1, <2>2 DEF Good
<1>6. Good => Good'
  BY <1>5 DEF Good, Settled, Wanted, Matches, Kept
<1> QED
  BY <1>1, <1>2, <1>3, <1>4, <1>6

-----------------------------------------------------------------------------
(* The goroutines of tailLogs.                                             *)
LEMMA SendTyped ==
    ASSUME StreamsTypeOK, NEW s \in Streams, NEW item \in Items, HasRoom(s), Send(s, item)
    PROVE  channel' \in [Streams -> Seq(Items)] /\ \A t \in Streams : Len(channel'[t]) <= BufferSize
<1>1. channel \in [Streams -> Seq(Items)] /\ channel[s] \in Seq(Items) /\ BufferSize \in Nat
  BY StreamAssumption DEF StreamsTypeOK
<1>2. Append(channel[s], item) \in Seq(Items) /\ Len(Append(channel[s], item)) <= BufferSize
  BY <1>1 DEF HasRoom
<1>3. channel' = [channel EXCEPT ![s] = Append(channel[s], item)]
  BY DEF Send
<1>4. channel' \in [Streams -> Seq(Items)]
  BY <1>1, <1>2, <1>3
<1>5. ASSUME NEW t \in Streams
      PROVE  Len(channel'[t]) <= BufferSize
  BY <1>1, <1>2, <1>3 DEF StreamsTypeOK
<1> QED
  BY <1>4, <1>5

LEMMA StreamTyped ==
    ASSUME TInv, NEW s \in Streams, Advance(s) \/ Serve(s)
    PROVE  StreamsTypeOK' /\ AttemptsLeft'
<1> USE StreamAssumption DEF TInv, LogTypeOK
<1>0. /\ producer[s] \in [phase : Phases, attempt : 0 .. RetryCount, next : 1 .. MaxLine + 1]
      /\ {BufferSize, Lines, MaxLine, RetryCount} \subseteq Nat \ {0}
      /\ channel[s] \in Seq(Items)
      /\ EndNote \in Items /\ \A n \in 1 .. MaxLine : n \in Items
  BY DEF StreamsTypeOK, EndNote, Items
<1>1. CASE Connect(s)
  <2>1. PICK again \in 0 .. Lines :
          /\ again < producer[s].next
          /\ producer' = [producer EXCEPT ![s].phase = "reading", ![s].next = @ - again]
    BY <1>1 DEF Connect
  <2>2. producer[s].next - again \in 1 .. MaxLine + 1
    BY <1>0, <2>1
  <2> QED
    BY <1>0, <1>1, <2>1, <2>2 DEF Connect, StreamsTypeOK, AttemptsLeft, Phases
<1>2. CASE Fail(s) \/ Leave(s)
  <2>1. ASSUME To(s, "waiting"), producer[s].phase \in {"request", "reading"}
        PROVE  producer' \in [Streams -> [phase : Phases, attempt : 0 .. RetryCount, next : 1 .. MaxLine + 1]] /\ AttemptsLeft'
    BY <1>0, <2>1 DEF To, StreamsTypeOK, AttemptsLeft, Phases
  <2>2. ASSUME Ends(s, "gone")
        PROVE  producer' \in [Streams -> [phase : Phases, attempt : 0 .. RetryCount, next : 1 .. MaxLine + 1]] /\ AttemptsLeft'
    BY <1>0, <2>2 DEF Ends, StreamsTypeOK, AttemptsLeft, Phases
  <2>3. producer' \in [Streams -> [phase : Phases, attempt : 0 .. RetryCount, next : 1 .. MaxLine + 1]] /\ AttemptsLeft'
    BY <1>2, <2>1, <2>2 DEF Fail, Leave
  <2> QED
    BY <1>2, <2>3 DEF Fail, Leave, StreamsTypeOK
<1>3. CASE Retry(s)
  <2>1. producer[s].attempt + 1 \in 0 .. RetryCount
    BY <1>0, <1>3 DEF Retry, AttemptsLeft
  <2> QED
    BY <1>0, <1>3, <2>1 DEF Retry, StreamsTypeOK, AttemptsLeft, Phases
<1>4. CASE ReadLine(s)
  <2>1. producer[s].next \in Items /\ producer[s].next + 1 \in 1 .. MaxLine + 1
    BY <1>0, <1>4 DEF ReadLine, HasLine
  <2>2. producer' \in [Streams -> [phase : Phases, attempt : 0 .. RetryCount, next : 1 .. MaxLine + 1]] /\ AttemptsLeft'
    BY <1>0, <1>4, <2>1 DEF ReadLine, StreamsTypeOK, AttemptsLeft
  <2>3. channel' \in [Streams -> Seq(Items)] /\ \A t \in Streams : Len(channel'[t]) <= BufferSize
    <3>1. CASE HasRoom(s) /\ Send(s, producer[s].next)
      BY <2>1, <3>1, SendTyped
    <3>2. CASE UNCHANGED channel
      BY <3>2 DEF StreamsTypeOK
    <3> QED
      BY <1>4, <3>1, <3>2 DEF ReadLine
  <2> QED
    BY <1>4, <2>2, <2>3 DEF ReadLine, StreamsTypeOK
<1>5. CASE ReadEnds(s)
  BY <1>0, <1>5 DEF ReadEnds, To, StreamsTypeOK, AttemptsLeft, Phases
<1>6. CASE Finish(s)
  <2>1. producer' \in [Streams -> [phase : Phases, attempt : 0 .. RetryCount, next : 1 .. MaxLine + 1]] /\ AttemptsLeft'
    BY <1>0, <1>6 DEF Finish, Ends, StreamsTypeOK, AttemptsLeft, Phases
  <2>2. channel' \in [Streams -> Seq(Items)] /\ \A t \in Streams : Len(channel'[t]) <= BufferSize
    BY <1>0, <1>6, SendTyped DEF Finish
  <2> QED
    BY <1>6, <2>1, <2>2 DEF Finish, StreamsTypeOK
<1>7. CASE CloseOut(s)
  BY <1>7 DEF CloseOut, StreamsTypeOK, AttemptsLeft
<1> QED
  BY <1>1, <1>2, <1>3, <1>4, <1>5, <1>6, <1>7 DEF Advance, Serve

(* The channel hands over its first item, of the type of all.              *)
LEMMA ReceiveTyped ==
    ASSUME TInv, NEW s \in Streams, Receive(s)
    PROVE  channel' \in [Streams -> Seq(Items)] /\ (\A t \in Streams : Len(channel'[t]) <= BufferSize)
           /\ inHand' \in [Streams -> Items]
<1>1. channel[s] \in Seq(Items) /\ channel[s] # <<>> /\ BufferSize \in Nat
  BY StreamAssumption DEF TInv, LogTypeOK, StreamsTypeOK, Receive
<1>2. Head(channel[s]) \in Items /\ Tail(channel[s]) \in Seq(Items) /\ Len(Tail(channel[s])) = Len(channel[s]) - 1
  BY <1>1
<1> QED
  BY <1>1, <1>2 DEF TInv, LogTypeOK, StreamsTypeOK, Receive

(* updateLogs: a line that comes in is past the mark, one that the mark    *)
(* passes is handed over.                                                  *)
LEMMA ConsumeKeeps ==
    ASSUME TInv, Commanded, NEW s \in Streams, Consume(s)
    PROVE  TInv' /\ Commanded' /\ (Good => Good')
<1> USE DEF TInv
<1>0. Lines \in Nat /\ Len(ring) <= Lines
  BY StreamAssumption DEF LogTypeOK
<1>1. CASE Receive(s)
  <2>1. TInv'
    BY <1>1, ReceiveTyped DEF Receive, bufferVars, queueVars, uiVars, localVars, LogTypeOK, StreamsTypeOK, AttemptsLeft
  <2>2. Commanded' /\ (Good => Good')
    BY <1>1 DEF Receive, bufferVars, queueVars, uiVars, Commanded, MatchedIsShown, Good, Settled, Wanted, Matches, Kept
  <2> QED
    BY <2>1, <2>2
<1>2. CASE AppendLine(s)
  <2> DEFINE line == [no |-> inHand[s], due |-> {}, shown |-> FALSE, matched |-> {}, astray |-> FALSE]
  <2>1. line \in Line /\ line.due = {} /\ line.matched = {}
    BY DEF Line, LogTypeOK
  <2>2. /\ Stored(line) \in Seq(Line)
        /\ Len(Stored(line)) \in 1 .. Lines
        /\ MarkAfter \in 0 .. Len(Stored(line)) - 1
        /\ \A i \in 1 .. Len(Stored(line)) :
             Stored(line)[i] = line \/ \E j \in DOMAIN ring : Stored(line)[i] = ring[j]
        /\ \A i \in 1 .. MarkAfter : \E j \in 1 .. lastSent : Stored(line)[i] = ring[j]
    BY <2>1, StoredType
  <2>3. ~(Len(Stored(line)) - MarkAfter > Lines)
    BY <1>0, <2>2
  <2>4. ring' = Stored(line) /\ lastSent' = MarkAfter
    BY <1>2, <2>3 DEF AppendLine
  <2>5. /\ UNCHANGED <<streamVars, filter, listening, loaded, queueVars, uiVars>>
        /\ told' \in SUBSET Streams
        /\ inHand' \in [Streams -> Items]
        /\ consumer' \in [Streams -> {"none", "select", "append", "left", "done"}]
    <3>1. EndNote \in Items
      BY StreamAssumption DEF EndNote, Items
    <3>2. /\ inHand \in [Streams -> Items] /\ told \in SUBSET Streams
          /\ consumer \in [Streams -> {"none", "select", "append", "left", "done"}]
      BY DEF LogTypeOK
    <3> HIDE DEF line
    <3> QED
      BY <1>2, <3>1, <3>2 DEF AppendLine
  <2>6. /\ ring' \in Seq(Line) /\ Len(ring') <= Lines /\ lastSent' \in 0 .. Len(ring')
        /\ DOMAIN ring' = 1 .. Len(ring')
    BY <1>0, <2>2, <2>4
  <2>7. \A i \in DOMAIN ring' : \/ ring'[i].due = {} /\ ring'[i].matched = {}
                                \/ \E j \in DOMAIN ring : ring'[i] = ring[j]
    BY <2>1, <2>2, <2>4, <2>6
  <2>8. \A i \in 1 .. lastSent' : \E j \in 1 .. lastSent : ring'[i] = ring[j]
    BY <2>2, <2>4
  <2> HIDE DEF line
  <2>9. \A i \in DOMAIN ring' : ring'[i].due \subseteq 0 .. fired'
    BY <2>5, <2>7 DEF queueVars, LogTypeOK
  <2>10. TInv'
    BY <2>5, <2>6, <2>9 DEF streamVars, queueVars, uiVars, localVars, LogTypeOK, StreamsTypeOK, AttemptsLeft
  <2>11. Commanded'
    BY <2>5, <2>7 DEF uiVars, Commanded, MatchedIsShown
  <2>12. Good => Good'
    BY <2>5, <2>8 DEF queueVars, Good, Settled, Wanted, Matches, Kept
  <2> QED
    BY <2>10, <2>11, <2>12
<1>3. CASE TimeOut(s) \/ Drained(s)
  <2>1. /\ UNCHANGED <<streamVars, filter, listening, loaded, inHand, told, queueVars, uiVars>>
        /\ Notify(ring, lastSent)
        /\ consumer' \in [Streams -> {"none", "select", "append", "left", "done"}]
    BY <1>3 DEF TimeOut, Drained, consumerVars, LogTypeOK
  <2>2. UNCHANGED <<filter, clears, fired, steps>>
    BY <2>1 DEF queueVars, uiVars
  <2>3. /\ ring' \in Seq(Line) /\ Len(ring') = Len(ring) /\ lastSent' = Len(ring)
        /\ \A i \in DOMAIN ring' : ring'[i].due \subseteq 0 .. fired'
        /\ MatchedIsShown' /\ (Good => Good')
    BY <2>1, <2>2, NotifyRing DEF Commanded
  <2>4. Len(ring') <= Lines /\ lastSent' \in 0 .. Len(ring')
    BY <1>0, <2>3
  <2>5. TInv'
    BY <2>1, <2>3, <2>4 DEF streamVars, queueVars, uiVars, localVars, LogTypeOK, StreamsTypeOK, AttemptsLeft
  <2>6. Commanded'
    BY <2>2, <2>3 DEF Commanded
  <2> QED
    BY <2>3, <2>5, <2>6
<1>4. CASE LeaveSelect(s)
  <2>1. TInv'
    BY <1>4 DEF LeaveSelect, streamVars, bufferVars, queueVars, uiVars, localVars, LogTypeOK, StreamsTypeOK, AttemptsLeft
  <2>2. Commanded' /\ (Good => Good')
    BY <1>4 DEF LeaveSelect, bufferVars, queueVars, uiVars, Commanded, MatchedIsShown, Good, Settled, Wanted, Matches, Kept
  <2> QED
    BY <2>1, <2>2
<1> QED
  BY <1>1, <1>2, <1>3, <1>4 DEF Consume

(* The UI goroutine applies an update.  A line that waits behind every     *)
(* clear still does when a clear is applied; when the line is, it is in    *)
(* the view, or a clear that had been queued ahead of it is to take it.    *)
LEMMA ApplyKeeps ==
    ASSUME TInv, Commanded, Apply
    PROVE  TInv' /\ Commanded' /\ (Good => Good')
<1> USE DEF TInv
<1>0. /\ ring \in Seq(Line) /\ DOMAIN ring = 1 .. Len(ring) /\ lastSent \in 0 .. Len(ring)
      /\ \A i \in DOMAIN ring : ring[i] \in Line /\ ring[i].due \subseteq 0 .. fired
      /\ clears \in SUBSET (1 .. fired)
  BY DEF LogTypeOK
<1>1. /\ UNCHANGED <<streamVars, lastSent, filter, listening, loaded, consumerVars, fired, uiVars>>
      /\ clears' \in SUBSET (1 .. fired')
  BY <1>0 DEF Apply, ApplyClear, ApplyLines, queueVars
<1>2. ASSUME ring' = [i \in DOMAIN ring |-> ring'[i]],
             \A i \in DOMAIN ring : /\ ring'[i] \in Line
                                    /\ ring'[i].due \subseteq ring[i].due
                                    /\ ring'[i].no = ring[i].no
                                    /\ ring'[i].matched = ring[i].matched
                                    /\ Kept(ring[i]) \/ ring[i].astray => Kept(ring[i])' \/ ring'[i].astray
      PROVE  TInv' /\ Commanded' /\ (Good => Good')
  <2>1. ring' \in Seq(Line) /\ Len(ring') = Len(ring) /\ DOMAIN ring' = DOMAIN ring
    BY <1>0, <1>2, MarkedType
  <2>2. \A i \in DOMAIN ring' : ring'[i].due \subseteq 0 .. fired'
    BY <1>0, <1>1, <1>2, <2>1
  <2>3. TInv'
    BY <1>1, <2>1, <2>2 DEF streamVars, consumerVars, uiVars, localVars, LogTypeOK, StreamsTypeOK, AttemptsLeft
  <2>4. Commanded'
    BY <1>1, <1>2, <2>1 DEF uiVars, Commanded, MatchedIsShown
  <2>5. \A i \in 1 .. lastSent : i \in DOMAIN ring
    BY <1>0
  <2>6. Good => Good'
    BY <1>1, <1>2, <2>5 DEF Good, Settled, Wanted, Matches
  <2> QED
    BY <2>3, <2>4, <2>6
<1>3. CASE ApplyClear
  <2>1. /\ ring' = [i \in DOMAIN ring |-> [ring[i] EXCEPT !.shown = FALSE]]
        /\ clears' \subseteq clears /\ clears # {}
    BY <1>3 DEF ApplyClear
  <2>2. ASSUME NEW i \in DOMAIN ring
        PROVE  /\ ring'[i] \in Line /\ ring'[i].due = ring[i].due /\ ring'[i].no = ring[i].no
               /\ ring'[i].matched = ring[i].matched /\ ring'[i].astray = ring[i].astray
    BY <1>0, <2>1 DEF Line
  <2>3. ASSUME NEW i \in DOMAIN ring, Kept(ring[i])
        PROVE  Kept(ring[i])'
    BY <2>1, <2>2, <2>3 DEF Kept
  <2> QED
    BY <1>2, <2>1, <2>2, <2>3
<1>4. CASE ApplyLines
  <2>1. PICK n \in 0 .. fired, places \in SUBSET DOMAIN ring :
          ring' = [i \in DOMAIN ring |->
                     IF i \in places
                     THEN [ring[i] EXCEPT !.due = @ \ {n}, !.shown = TRUE, !.astray = @ \/ \E c \in clears : c <= n]
                     ELSE ring[i]]
    BY <1>4 DEF ApplyLines
  <2>2. clears' = clears
    BY <1>4 DEF ApplyLines, queueVars
  <2>3. ASSUME NEW i \in DOMAIN ring
        PROVE  /\ ring'[i] \in Line /\ ring'[i].due \subseteq ring[i].due /\ ring'[i].no = ring[i].no
               /\ ring'[i].matched = ring[i].matched
               /\ Kept(ring[i]) \/ ring[i].astray => Kept(ring[i])' \/ ring'[i].astray
    <3>1. CASE i \notin places
      BY <1>0, <2>1, <2>2, <3>1 DEF Kept
    <3>2. CASE i \in places
      <4>1. (\E c \in clears : c <= n) \in BOOLEAN
        OBVIOUS
      <4>2. /\ ring'[i] \in Line /\ ring'[i].due = ring[i].due \ {n} /\ ring'[i].no = ring[i].no
            /\ ring'[i].shown /\ ring'[i].matched = ring[i].matched
            /\ ring'[i].astray = (ring[i].astray \/ \E c \in clears : c <= n)
        BY <1>0, <2>1, <3>2, <4>1 DEF Line
      <4>3. ASSUME NEW m \in ring[i].due, \A c \in clears : c <= m
            PROVE  Kept(ring[i])' \/ ring'[i].astray
        <5>1. CASE m # n
          BY <2>2, <4>2, <4>3, <5>1 DEF Kept
        <5>2. CASE m = n
          BY <2>2, <4>2, <4>3, <5>2 DEF Kept
        <5> QED
          BY <5>1, <5>2
      <4> QED
        BY <2>2, <4>2, <4>3 DEF Kept
    <3> QED
      BY <3>1, <3>2
  <2> QED
    BY <1>2, <2>1, <2>3
<1> QED
  BY <1>3, <1>4 DEF Apply

-----------------------------------------------------------------------------
(* The commands.                                                           *)
LEMMA CommandLists ==
    /\ \A list \in {<<"load", "listen">>, <<"unlisten", "cancel">>, <<"empty", "clear">>,
                    <<"cancel", "empty", "clear", "load">>} : list \in Seq(StepNames) /\ Proper(list)
    /\ \A list \in Drawing : list \in Seq(StepNames) /\ Proper(list)
<1> USE DEF StepNames
<1>1. <<"load", "listen">> \in Seq(StepNames) /\ Proper(<<"load", "listen">>)
  BY DEF Proper, DrawNames
<1>2. <<"unlisten", "cancel">> \in Seq(StepNames) /\ Proper(<<"unlisten", "cancel">>)
  BY DEF Proper, DrawNames
<1>3. <<"empty", "clear">> \in Seq(StepNames) /\ Proper(<<"empty", "clear">>)
  BY DEF Proper, DrawNames
<1>4. <<"cancel", "empty", "clear", "load">> \in Seq(StepNames) /\ Proper(<<"cancel", "empty", "clear", "load">>)
  BY DEF Proper, DrawNames
<1>5. \A list \in Choosing \union Rendering : list \in Seq(StepNames)
  <2>1. /\ <<"wipe", "measure", "choose">> \in Seq(StepNames)
        /\ <<"measure", "choose">> \in Seq(StepNames)
        /\ <<"choose">> \in Seq(StepNames)
    OBVIOUS
  <2>2. /\ <<"wipe", "measure", "render">> \in Seq(StepNames)
        /\ <<"measure", "render">> \in Seq(StepNames)
        /\ <<"render">> \in Seq(StepNames)
    OBVIOUS
  <2> HIDE DEF StepNames
  <2> QED
    BY <2>1, <2>2 DEF Choosing, Rendering
<1>6. \A list \in Matching \union Showing : list \in Seq(StepNames)
  <2>1. /\ <<"match", "measure", "show">> \in Seq(StepNames)
        /\ <<"measure", "show">> \in Seq(StepNames)
        /\ <<"show">> \in Seq(StepNames)
    OBVIOUS
  <2> HIDE DEF StepNames
  <2> QED
    BY <2>1 DEF Matching, Showing
<1> HIDE DEF StepNames
<1> QED
  BY <1>1, <1>2, <1>3, <1>4, <1>5, <1>6 DEF Proper, Drawing

(* What is left of each way to draw after its first step.                  *)
LEMMA DrawingTails ==
    /\ \A list \in Drawing : list # <<>> /\ Head(list) \in DrawNames
    /\ \A list \in Choosing : Head(list) \in {"wipe", "measure", "choose"}
                              /\ (Head(list) # "choose" => Tail(list) \in Choosing)
    /\ \A list \in Rendering : /\ Head(list) \in {"wipe", "measure", "render"}
                               /\ Head(list) # "render" => Tail(list) \in Rendering
                               /\ Head(list) = "render" => Tail(list) = <<>>
    /\ \A list \in Matching : Head(list) = "match" /\ Tail(list) \in Showing
    /\ \A list \in Showing : /\ Head(list) \in {"measure", "show"}
                             /\ Head(list) # "show" => Tail(list) \in Showing
                             /\ Head(list) = "show" => Tail(list) = <<>>
BY DEF Drawing, Choosing, Rendering, Matching, Showing, DrawNames

(* A hand that is idle begins a command: no line is matched for it.        *)
LEMMA Begun ==
    ASSUME TInv, Commanded, NEW h \in Hands, NEW list \in Seq(StepNames), Proper(list), Begin(h, list),
           filter' \in Filters, page' \in BOOLEAN
    PROVE  /\ TInv' /\ Commanded' /\ ~panicked
           /\ filter' = filter => (Owed => Owed') /\ (Good => Good')
           /\ Redraws(list) => Owed'
<1> USE DEF TInv
<1>1. /\ ~panicked /\ steps[h] = <<>> /\ commands < MaxCommands /\ commands' = commands + 1
      /\ steps' = [steps EXCEPT ![h] = list]
      /\ UNCHANGED <<streamVars, ring, lastSent, listening, loaded, consumerVars, queueVars, localVars, panicked>>
  BY DEF Begin
<1>2. steps' \in [Hands -> Seq(StepNames)] /\ steps'[h] = list /\ \A g \in Hands \ {h} : steps'[g] = steps[g]
  BY <1>1 DEF LogTypeOK
<1>3. commands' \in 0 .. MaxCommands
  BY <1>1, LogAssumption DEF LogTypeOK
<1>4. TInv'
  BY <1>1, <1>2, <1>3 DEF streamVars, consumerVars, queueVars, localVars, LogTypeOK, StreamsTypeOK, AttemptsLeft
<1>5. steps[h] \notin Drawing
  BY <1>1, DrawingTails
<1>6. \A i \in DOMAIN ring : ring[i].matched \subseteq Hands
  <2>1. \A i \in DOMAIN ring : ring[i] \in Line
    BY DEF LogTypeOK
  <2> QED
    BY <2>1 DEF Line
<1>7. MatchedIsShown'
  BY <1>1, <1>2, <1>5, <1>6 DEF Commanded, MatchedIsShown, Drawing
<1>8. Commanded'
  BY <1>2, <1>7 DEF Commanded
<1>9. ASSUME filter' = filter, Owed
      PROVE  Owed'
  BY <1>1, <1>2, <1>5, <1>9 DEF Owed, localVars, Redraws, Drawing
<1>10. ASSUME filter' = filter, Good
       PROVE  Good'
  BY <1>1, <1>10 DEF queueVars, Good, Settled, Wanted, Matches, Kept
<1>11. ASSUME Redraws(list)
       PROVE  Owed'
  <2>1. steps'[h] \in Choosing \union Rendering
    BY <1>2, <1>11 DEF Redraws
  <2> QED
    BY <2>1 DEF Owed, Redraws
<1> QED
  BY <1>1, <1>4, <1>8, <1>9, <1>10, <1>11

LEMMA PressKeeps ==
    ASSUME TInv, Commanded, Press
    PROVE  TInv' /\ Commanded' /\ ~panicked /\ (Owed \/ Good => Owed' \/ Good')
<1> USE DEF TInv
<1>0. "ui" \in Hands /\ filter \in Filters /\ page \in BOOLEAN
  BY DEF Hands, LogTypeOK
<1>1. CASE Start \/ Stop \/ Restart \/ Clear
  <2>1. PICK list \in {<<"load", "listen">>, <<"unlisten", "cancel">>, <<"empty", "clear">>,
                      <<"cancel", "empty", "clear", "load">>} : Begin("ui", list)
    BY <1>1 DEF Start, Stop, Restart, Clear
  <2>2. list \in Seq(StepNames) /\ Proper(list)
    BY <2>1, CommandLists
  <2>3. filter' = filter /\ page' \in BOOLEAN
    BY <1>0, <1>1 DEF Start, Stop, Restart, Clear
  <2> QED
    BY ONLY TInv, Commanded, <1>0, <2>1, <2>2, <2>3, Begun
<1>2. ASSUME NEW h \in Hands, Filter(h)
      PROVE  TInv' /\ Commanded' /\ ~panicked /\ Owed'
  <2> DEFINE list == <<"wipe", "measure", "choose">>
  <2>1. list \in Seq(StepNames) /\ Proper(list) /\ Redraws(list)
    BY CommandLists DEF Redraws, Choosing, Drawing
  <2>2. Begin(h, list) /\ filter' \in Filters /\ page' \in BOOLEAN
    BY <1>0, <1>2 DEF Filter
  <2> HIDE DEF list
  <2> QED
    BY ONLY TInv, Commanded, <2>1, <2>2, Begun
<1>3. CASE ToggleShowTimestamp
  <2> DEFINE list == <<"wipe", "measure", "render">>
  <2>1. list \in Seq(StepNames) /\ Proper(list)
    BY CommandLists DEF Rendering, Drawing
  <2>2. Begin("ui", list) /\ filter' = filter /\ page' \in BOOLEAN
    BY <1>0, <1>3 DEF ToggleShowTimestamp
  <2> HIDE DEF list
  <2> QED
    BY ONLY TInv, Commanded, <1>0, <2>1, <2>2, Begun
<1> QED
  BY <1>1, <1>2, <1>3 DEF Press

-----------------------------------------------------------------------------
(* The steps of a command.                                                 *)

(* What is left of a command after one of its steps.                       *)
LEMMA StepsLeft ==
    ASSUME TInv, Commanded, NEW h \in Hands, NEW name \in StepNames \ {"choose"}, Step(h, name), Done(h)
    PROVE  /\ steps' \in [Hands -> Seq(StepNames)]
           /\ \A g \in Hands \ {h} : steps'[g] = steps[g]
           /\ Proper(steps'[h])
           /\ Redraws(steps[h]) => Redraws(steps'[h]) \/ name = "render"
           /\ steps[h] \in Matching => name = "match"
           /\ steps[h] \in Showing => steps'[h] \in Showing \/ name = "show"
           /\ name = "wipe" => Redraws(steps[h])
           /\ name = "match" => steps[h] \in Matching /\ steps'[h] \in Showing
           /\ name = "show" => steps[h] \in Showing
<1>1. /\ steps \in [Hands -> Seq(StepNames)] /\ steps[h] \in Seq(StepNames) /\ steps[h] # <<>>
      /\ Head(steps[h]) = name /\ steps' = [steps EXCEPT ![h] = Tail(steps[h])]
  BY DEF TInv, LogTypeOK, Step, Done
<1>2. /\ Tail(steps[h]) \in Seq(StepNames)
      /\ steps' \in [Hands -> Seq(StepNames)]
      /\ steps'[h] = Tail(steps[h])
      /\ \A g \in Hands \ {h} : steps'[g] = steps[g]
  BY <1>1
<1>3. Proper(steps[h])
  BY DEF Commanded
<1>4. CASE steps[h] \in Drawing
  <2>1. steps'[h] \in Drawing \/ steps'[h] = <<>>
    BY <1>1, <1>2, <1>4, DrawingTails DEF Drawing
  <2>2. Proper(<<>>)
    BY DEF Proper
  <2>3. Proper(steps'[h])
    BY <2>1, <2>2 DEF Proper
  <2>4. CASE steps[h] \in Choosing
    BY <1>1, <1>2, <2>3, <2>4, DrawingTails DEF Redraws
  <2>5. CASE steps[h] \in Rendering
    BY <1>1, <1>2, <2>3, <2>5, DrawingTails DEF Redraws
  <2>6. CASE steps[h] \in Matching
    BY <1>1, <1>2, <2>3, <2>6, DrawingTails DEF Redraws
  <2>7. CASE steps[h] \in Showing
    BY <1>1, <1>2, <2>3, <2>7, DrawingTails DEF Redraws
  <2> QED
    BY <1>4, <2>4, <2>5, <2>6, <2>7 DEF Drawing
<1>5. CASE steps[h] \notin Drawing
  <2>1. \A i \in 1 .. Len(steps[h]) : steps[h][i] \notin DrawNames
    BY <1>1, <1>3, <1>5 DEF Proper
  <2>2. name \notin DrawNames
    BY <1>1, <2>1
  <2>3. \A i \in 1 .. Len(Tail(steps[h])) : i + 1 \in 1 .. Len(steps[h]) /\ Tail(steps[h])[i] = steps[h][i + 1]
    BY <1>1
  <2>4. Proper(steps'[h])
    BY <1>2, <2>1, <2>3 DEF Proper
  <2> QED
    BY <1>2, <1>5, <2>2, <2>4 DEF Redraws, Drawing, DrawNames
<1> QED
  BY <1>4, <1>5

(* A step that neither reads the filter nor draws leaves what is owed.     *)
LEMMA OtherStep ==
    ASSUME TInv, Commanded, NEW h \in Hands,
           NEW name \in StepNames \ {"choose", "render", "match", "show"}, Step(h, name), Done(h),
           UNCHANGED <<filter, query>>
    PROVE  /\ steps' \in [Hands -> Seq(StepNames)] /\ (\A g \in Hands : Proper(steps'[g]))
           /\ Owed => Owed'
           /\ name = "wipe" => Owed'
           /\ \A g \in Hands : steps[g] \in Showing => steps'[g] \in Showing
           /\ UNCHANGED <<page, commands>>
<1>1. /\ steps' \in [Hands -> Seq(StepNames)]
      /\ \A g \in Hands \ {h} : steps'[g] = steps[g]
      /\ Proper(steps'[h])
      /\ Redraws(steps[h]) => Redraws(steps'[h])
      /\ steps[h] \notin Matching
      /\ steps[h] \in Showing => steps'[h] \in Showing
      /\ name = "wipe" => Redraws(steps[h])
  BY StepsLeft
<1>2. \A g \in Hands : Proper(steps'[g])
  BY <1>1 DEF Commanded
<1>3. Owed => Owed'
  BY <1>1 DEF Owed, Redraws
<1>4. name = "wipe" => Owed'
  BY <1>1 DEF Owed, Redraws
<1> QED
  BY <1>1, <1>2, <1>3, <1>4 DEF Step

(* LogCleared: the new clear has the next number.                          *)
LEMMA ClearedTyped ==
    ASSUME LogTypeOK, FireLogCleared
    PROVE  /\ fired' \in Nat /\ clears' \in SUBSET (1 .. fired')
           /\ \A S \in SUBSET (0 .. fired) : S \subseteq 0 .. fired'
<1>1. fired \in Nat /\ clears \in SUBSET (1 .. fired)
  BY DEF LogTypeOK
<1>2. fired' \in {fired, fired + 1} /\ clears' \subseteq clears \union {fired'}
      /\ (fired' = fired => clears' = clears)
  BY <1>1 DEF FireLogCleared
<1> QED
  BY <1>1, <1>2

(* What a step establishes: types, and the lines are settled again if they *)
(* were, or are still owed.                                                *)
Keeps == TInv' /\ Commanded' /\ (Owed \/ Good => panicked' \/ Owed' \/ Good')

LEMMA QuietStepKeeps ==
    ASSUME TInv, Commanded, NEW h \in Hands, CancelStep(h) \/ Listen(h) \/ Load(h) \/ Measure(h)
    PROVE  Keeps
<1> USE DEF TInv
<1>1. PICK name \in {"cancel", "listen", "unlisten", "load", "measure"} : Step(h, name) /\ Done(h)
  BY DEF CancelStep, Listen, Load, Measure
<1>2. name \in StepNames \ {"choose", "render", "match", "show"}
  BY DEF StepNames
<1>3. UNCHANGED <<ring, lastSent, filter, query, picked, fired, clears, panicked, channel, closed, inHand, told>>
  BY DEF CancelStep, Listen, Load, Measure, streamVars, bufferVars, consumerVars, queueVars, localVars
<1>4. /\ steps' \in [Hands -> Seq(StepNames)] /\ \A g \in Hands : Proper(steps'[g])
      /\ Owed => Owed'
      /\ \A g \in Hands : steps[g] \in Showing => steps'[g] \in Showing
      /\ UNCHANGED <<page, commands>>
  BY <1>1, <1>2, <1>3, OtherStep
<1>5. /\ StreamsTypeOK' /\ AttemptsLeft' /\ listening' \in BOOLEAN /\ loaded' \in SUBSET Streams
      /\ consumer' \in [Streams -> {"none", "select", "append", "left", "done"}]
      /\ measured' \in [Hands -> 0 .. Lines]
  <2>1. /\ StreamsTypeOK /\ AttemptsLeft /\ listening \in BOOLEAN /\ loaded \in SUBSET Streams
        /\ consumer \in [Streams -> {"none", "select", "append", "left", "done"}]
        /\ measured \in [Hands -> 0 .. Lines]
    BY DEF LogTypeOK
  <2>2. CASE CancelStep(h)
    BY <2>1, <2>2 DEF CancelStep, Cancel, consumerVars, localVars, StreamsTypeOK, AttemptsLeft
  <2>3. CASE Listen(h)
    BY <2>1, <2>3 DEF Listen, consumerVars, localVars, streamVars, StreamsTypeOK, AttemptsLeft
  <2>4. CASE Load(h)
    <3>1. PICK started \in SUBSET Unused :
            /\ loaded' = started
            /\ StartTails(started)
            /\ consumer' = [s \in Streams |-> IF s \in started THEN "select" ELSE consumer[s]]
      BY <2>4 DEF Load
    <3>2. started \subseteq Streams /\ "request" \in Phases
      BY DEF Unused, Phases
    <3>3. producer' \in [Streams -> [phase : Phases, attempt : 0 .. RetryCount, next : 1 .. MaxLine + 1]]
      BY <2>1, <3>1, <3>2 DEF StartTails, StreamsTypeOK
    <3>4. AttemptsLeft'
      BY <2>1, <3>1, <3>2 DEF StartTails, StreamsTypeOK, AttemptsLeft, Unused
    <3>5. cancelled' \in SUBSET Streams
      BY <2>1, <2>4 DEF Load, StreamsTypeOK
    <3>6. StreamsTypeOK'
      BY <2>1, <1>3, <3>3, <3>5 DEF StreamsTypeOK
    <3>7. consumer' \in [Streams -> {"none", "select", "append", "left", "done"}]
      BY <2>1, <3>1
    <3>8. UNCHANGED <<listening, measured>>
      BY <2>4 DEF Load, localVars
    <3> QED
      BY <2>1, <3>1, <3>2, <3>4, <3>6, <3>7, <3>8
  <2>5. CASE Measure(h)
    <3>1. Len(ring) \in 0 .. Lines
      BY StreamAssumption DEF LogTypeOK
    <3> QED
      BY <2>1, <2>5, <3>1 DEF Measure, bufferVars, consumerVars, streamVars, StreamsTypeOK, AttemptsLeft
  <2> QED
    BY <2>2, <2>3, <2>4, <2>5
<1>6. TInv'
  BY <1>3, <1>4, <1>5 DEF LogTypeOK
<1>7. Commanded'
  <2>1. \A i \in DOMAIN ring : ring[i] \in Line
    BY DEF LogTypeOK
  <2>2. \A i \in DOMAIN ring : ring[i].matched \subseteq Hands
    BY <2>1 DEF Line
  <2> QED
    BY <1>3, <1>4, <2>2 DEF Commanded, MatchedIsShown
<1>8. Good => Good'
  BY <1>3 DEF Good, Settled, Wanted, Matches, Kept
<1> QED
  BY <1>4, <1>6, <1>7, <1>8 DEF Keeps

(* The type of the state after a step, from the parts it changes.          *)
LEMMA StepTyped ==
    ASSUME TInv, UNCHANGED <<streamVars, filter, listening, loaded, consumerVars, page, commands>>,
           ring' \in Seq(Line), Len(ring') <= Len(ring), lastSent' \in 0 .. Len(ring'),
           fired' \in Nat, clears' \in SUBSET (1 .. fired'),
           \A i \in DOMAIN ring' : ring'[i].due \subseteq 0 .. fired',
           steps' \in [Hands -> Seq(StepNames)], measured' \in [Hands -> 0 .. Lines],
           query' \in [Hands -> Filters], picked' \in [Hands -> SUBSET (1 .. Lines)], panicked' \in BOOLEAN
    PROVE  TInv'
<1>1. Lines \in Nat /\ Len(ring) \in Nat /\ Len(ring) <= Lines /\ Len(ring') \in Nat
  BY StreamAssumption DEF TInv, LogTypeOK
<1>2. Len(ring') <= Lines
  BY <1>1
<1> QED
  BY <1>2 DEF TInv, LogTypeOK, streamVars, consumerVars, StreamsTypeOK, AttemptsLeft

(* What the lines of a buffer and the locals of a hand are.                *)
LEMMA LinesTyped ==
    ASSUME LogTypeOK
    PROVE  /\ ring \in Seq(Line) /\ DOMAIN ring = 1 .. Len(ring) /\ lastSent \in 0 .. Len(ring)
           /\ Len(ring) \in 0 .. Lines /\ Lines \in Nat
           /\ \A i \in DOMAIN ring : ring[i] \in Line /\ ring[i].due \subseteq 0 .. fired
           /\ \A i \in DOMAIN ring : ring[i].matched \subseteq Hands
           /\ fired \in Nat /\ clears \in SUBSET (1 .. fired)
           /\ measured \in [Hands -> 0 .. Lines]
           /\ query \in [Hands -> Filters] /\ filter \in Filters
           /\ picked \in [Hands -> SUBSET (1 .. Lines)] /\ panicked \in BOOLEAN
           /\ steps \in [Hands -> Seq(StepNames)]
<1>1. /\ ring \in Seq(Line) /\ DOMAIN ring = 1 .. Len(ring) /\ lastSent \in 0 .. Len(ring)
      /\ Len(ring) \in 0 .. Lines /\ Lines \in Nat
      /\ \A i \in DOMAIN ring : ring[i] \in Line /\ ring[i].due \subseteq 0 .. fired
  BY StreamAssumption DEF LogTypeOK
<1>2. \A i \in DOMAIN ring : ring[i].matched \subseteq Hands
  BY <1>1 DEF Line
<1> QED
  BY <1>1, <1>2 DEF LogTypeOK

LEMMA EmptyBufferKeeps ==
    ASSUME TInv, Commanded, NEW h \in Hands, EmptyBuffer(h)
    PROVE  Keeps
<1>1. /\ Step(h, "empty") /\ Done(h) /\ ring' = <<>> /\ lastSent' = 0
      /\ UNCHANGED <<streamVars, filter, listening, loaded, consumerVars, queueVars, localVars, panicked>>
  BY DEF EmptyBuffer
<1>2. "empty" \in StepNames \ {"choose", "render", "match", "show"}
  BY DEF StepNames
<1>3. /\ steps' \in [Hands -> Seq(StepNames)] /\ \A g \in Hands : Proper(steps'[g])
      /\ UNCHANGED <<page, commands>>
  BY <1>1, <1>2, OtherStep DEF localVars
<1>4. ring' \in Seq(Line) /\ Len(ring') = 0 /\ DOMAIN ring' = {} /\ lastSent' \in 0 .. Len(ring')
  BY <1>1
<1>5. TInv'
  BY <1>1, <1>3, <1>4, LinesTyped, StepTyped DEF TInv, queueVars, localVars
<1>6. Commanded' /\ Good'
  BY <1>1, <1>3, <1>4 DEF Commanded, MatchedIsShown, Good
<1> QED
  BY <1>5, <1>6 DEF Keeps

LEMMA ClearViewKeeps ==
    ASSUME TInv, Commanded, NEW h \in Hands, ClearView(h)
    PROVE  Keeps
<1>0. LogTypeOK
  BY DEF TInv
<1>1. /\ Step(h, "clear") /\ Done(h) /\ FireLogCleared
      /\ ring' = [i \in DOMAIN ring |-> [ring[i] EXCEPT !.astray = @ \/ ring[i].shown \/ ring[i].due # {}]]
      /\ UNCHANGED <<streamVars, lastSent, filter, listening, loaded, consumerVars, localVars, panicked>>
  BY DEF ClearView
<1>2. "clear" \in StepNames \ {"choose", "render", "match", "show"}
  BY DEF StepNames
<1>3. /\ steps' \in [Hands -> Seq(StepNames)] /\ \A g \in Hands : Proper(steps'[g])
      /\ Owed => Owed'
      /\ \A g \in Hands : steps[g] \in Showing => steps'[g] \in Showing
      /\ UNCHANGED <<page, commands>>
  BY <1>1, <1>2, OtherStep DEF localVars
<1>4. ASSUME NEW i \in DOMAIN ring
      PROVE  /\ ring'[i] \in Line /\ ring'[i].due = ring[i].due /\ ring'[i].no = ring[i].no
             /\ ring'[i].matched = ring[i].matched
             /\ Kept(ring[i]) \/ ring[i].astray => ring'[i].astray
  <2>1. ring[i] \in Line /\ ring'[i] = [ring[i] EXCEPT !.astray = @ \/ ring[i].shown \/ ring[i].due # {}]
    BY <1>0, <1>1, LinesTyped
  <2>2. (ring[i].astray \/ ring[i].shown \/ ring[i].due # {}) \in BOOLEAN
    BY <2>1 DEF Line
  <2> QED
    BY <2>1, <2>2 DEF Line, Kept
<1>5. ring' \in Seq(Line) /\ Len(ring') = Len(ring) /\ DOMAIN ring' = DOMAIN ring
  <2>1. ring \in Seq(Line)
    BY <1>0, LinesTyped
  <2>2. ring' = [i \in DOMAIN ring |-> ring'[i]]
    BY <1>1
  <2> QED
    BY <1>4, <2>1, <2>2, MarkedType
<1>6. /\ fired' \in Nat /\ clears' \in SUBSET (1 .. fired')
      /\ \A i \in DOMAIN ring' : ring'[i].due \subseteq 0 .. fired'
  BY <1>0, <1>1, <1>4, <1>5, LinesTyped, ClearedTyped
<1>7. TInv'
  <2>1. /\ lastSent' \in 0 .. Len(ring') /\ Len(ring') <= Len(ring)
        /\ measured' \in [Hands -> 0 .. Lines] /\ query' \in [Hands -> Filters]
        /\ picked' \in [Hands -> SUBSET (1 .. Lines)] /\ panicked' \in BOOLEAN
    BY <1>0, <1>1, <1>5, LinesTyped DEF localVars
  <2> QED
    BY <1>1, <1>3, <1>5, <1>6, <2>1, StepTyped
<1>8. Commanded'
  BY <1>0, <1>3, <1>4, <1>5, LinesTyped DEF Commanded, MatchedIsShown
<1>9. Good => Good'
  <2>1. \A i \in 1 .. lastSent : i \in DOMAIN ring
    BY <1>0, LinesTyped
  <2> QED
    BY <1>1, <1>4, <2>1 DEF Good, Settled, Wanted, Matches
<1> QED
  BY <1>3, <1>7, <1>8, <1>9 DEF Keeps

LEMMA WipeViewKeeps ==
    ASSUME TInv, Commanded, NEW h \in Hands, WipeView(h)
    PROVE  Keeps
<1>0. LogTypeOK
  BY DEF TInv
<1>1. /\ Step(h, "wipe") /\ Done(h) /\ FireLogCleared
      /\ UNCHANGED <<streamVars, bufferVars, consumerVars, localVars, panicked>>
  BY DEF WipeView
<1>2. "wipe" \in StepNames \ {"choose", "render", "match", "show"}
  BY DEF StepNames
<1>3. UNCHANGED <<ring, lastSent, filter, listening, loaded, measured, query, picked>>
  BY <1>1 DEF bufferVars, localVars
<1>4. /\ steps' \in [Hands -> Seq(StepNames)] /\ \A g \in Hands : Proper(steps'[g])
      /\ Owed'
      /\ \A g \in Hands : steps[g] \in Showing => steps'[g] \in Showing
      /\ UNCHANGED <<page, commands>>
  BY <1>1, <1>2, <1>3, OtherStep
<1>5. /\ fired' \in Nat /\ clears' \in SUBSET (1 .. fired')
      /\ \A i \in DOMAIN ring : ring[i].due \subseteq 0 .. fired'
  BY <1>0, <1>1, LinesTyped, ClearedTyped
<1>6. TInv'
  BY <1>0, <1>1, <1>3, <1>4, <1>5, LinesTyped, StepTyped
<1>7. Commanded'
  BY <1>0, <1>3, <1>4, LinesTyped DEF Commanded, MatchedIsShown
<1> QED
  BY <1>4, <1>6, <1>7 DEF Keeps

(* The hand has read the filter: it will draw under it.                    *)
LEMMA ChooseKeeps ==
    ASSUME TInv, Commanded, NEW h \in Hands, Choose(h)
    PROVE  Keeps
<1>0. LogTypeOK
  BY DEF TInv
<1> DEFINE list == IF filter = NoFilter THEN <<"render">> ELSE <<"match", "measure", "show">>
<1>1. /\ steps[h] # <<>> /\ Head(steps[h]) = "choose"
      /\ steps' = [steps EXCEPT ![h] = list]
      /\ query' = [query EXCEPT ![h] = filter]
      /\ measured' = [measured EXCEPT ![h] = IF filter = NoFilter THEN @ ELSE Len(ring)]
      /\ UNCHANGED <<streamVars, bufferVars, consumerVars, queueVars, picked, panicked, page, commands>>
  BY DEF Choose, Step
<1>2. list \in Rendering \/ list \in Matching
  BY DEF Rendering, Matching
<1>3. list \in Seq(StepNames) /\ Proper(list)
  BY <1>2, CommandLists DEF Drawing
<1> HIDE DEF list
<1>4. /\ steps' \in [Hands -> Seq(StepNames)] /\ steps'[h] = list /\ \A g \in Hands \ {h} : steps'[g] = steps[g]
      /\ query' \in [Hands -> Filters] /\ query'[h] = filter
      /\ measured' \in [Hands -> 0 .. Lines]
  BY <1>0, <1>1, <1>3, LinesTyped
<1>5. steps[h] \notin Showing
  BY <1>1, DrawingTails
<1>6. UNCHANGED <<ring, lastSent, filter, listening, loaded, fired, clears>>
  BY <1>1 DEF bufferVars, queueVars
<1>7. TInv'
  BY <1>0, <1>1, <1>4, <1>6, LinesTyped, StepTyped
<1>8. Commanded'
  BY <1>0, <1>3, <1>4, <1>5, <1>6, LinesTyped DEF Commanded, MatchedIsShown
<1>9. Owed'
  <2>1. filter' = filter
    BY <1>6
  <2> QED
    BY <1>2, <1>4, <2>1 DEF Owed, Redraws
<1> QED
  BY <1>7, <1>8, <1>9 DEF Keeps

(* The hand is done with its command.                                      *)
LEMMA Returned ==
    ASSUME LogTypeOK, NEW h \in Hands, Return(h)
    PROVE  /\ measured' \in [Hands -> 0 .. Lines]
           /\ query' \in [Hands -> Filters] /\ \A g \in Hands \ {h} : query'[g] = query[g]
           /\ picked' \in [Hands -> SUBSET (1 .. Lines)]
BY LogAssumption, StreamAssumption, LinesTyped DEF Return

LEMMA RenderLinesKeeps ==
    ASSUME TInv, Commanded, NEW h \in Hands, RenderLines(h)
    PROVE  Keeps
<1>0. LogTypeOK
  BY DEF TInv
<1>1. /\ Step(h, "render") /\ Done(h) /\ Return(h) /\ panicked' \in BOOLEAN
      /\ ring' = [i \in DOMAIN ring |-> Handed(ring[i])]
      /\ UNCHANGED <<streamVars, lastSent, filter, listening, loaded, consumerVars, queueVars>>
  BY DEF RenderLines, Overrun
<1>2. /\ steps' \in [Hands -> Seq(StepNames)] /\ \A g \in Hands : Proper(steps'[g])
      /\ \A g \in Hands : steps[g] \in Showing => steps'[g] \in Showing
      /\ UNCHANGED <<page, commands>>
  <2>1. "render" \in StepNames \ {"choose"}
    BY DEF StepNames
  <2> QED
    BY <1>1, <2>1, StepsLeft DEF Commanded, Step
<1>3. ASSUME NEW i \in DOMAIN ring
      PROVE  /\ ring'[i] \in Line /\ ring'[i].due \subseteq 0 .. fired
             /\ ring'[i].matched = ring[i].matched
             /\ Kept(ring'[i]) \/ ring'[i].astray
  <2>1. ring[i] \in Line /\ ring[i].due \subseteq 0 .. fired /\ ring'[i] = Handed(ring[i])
    BY <1>0, <1>1, LinesTyped
  <2> QED
    BY <1>0, <2>1, HandedLine
<1>4. ring' \in Seq(Line) /\ Len(ring') = Len(ring) /\ DOMAIN ring' = DOMAIN ring
  <2>1. ring \in Seq(Line)
    BY <1>0, LinesTyped
  <2>2. ring' = [i \in DOMAIN ring |-> ring'[i]]
    BY <1>1
  <2> QED
    BY <1>3, <2>1, <2>2, MarkedType
<1>5. TInv'
  <2>1. /\ lastSent' \in 0 .. Len(ring') /\ Len(ring') <= Len(ring)
        /\ fired' \in Nat /\ clears' \in SUBSET (1 .. fired')
        /\ \A i \in DOMAIN ring' : ring'[i].due \subseteq 0 .. fired'
    BY <1>0, <1>1, <1>3, <1>4, LinesTyped DEF queueVars
  <2> QED
    BY <1>0, <1>1, <1>2, <1>4, <2>1, Returned, StepTyped
<1>6. Commanded'
  BY <1>0, <1>2, <1>3, <1>4, LinesTyped DEF Commanded, MatchedIsShown
<1>7. Good'
  <2>1. \A i \in 1 .. lastSent : i \in DOMAIN ring
    BY <1>0, LinesTyped
  <2> QED
    BY <1>1, <1>3, <2>1 DEF queueVars, Good, Settled, Kept
<1> QED
  BY <1>5, <1>6, <1>7 DEF Keeps

(* The lines that match the filter there is are about to be drawn; if it   *)
(* is another by now, the hand that set it has yet to read it.             *)
LEMMA MatchLinesKeeps ==
    ASSUME TInv, Commanded, NEW h \in Hands, MatchLines(h)
    PROVE  Keeps
<1>0. LogTypeOK
  BY DEF TInv
<1>1. /\ Step(h, "match") /\ Done(h) /\ panicked' \in BOOLEAN
      /\ picked' = [picked EXCEPT ![h] = {i \in DOMAIN ring : Matches(query[h], ring[i])}]
      /\ ring' = [i \in DOMAIN ring |->
                    IF Matches(query[h], ring[i]) THEN [ring[i] EXCEPT !.matched = @ \union {h}] ELSE ring[i]]
      /\ UNCHANGED <<streamVars, lastSent, filter, listening, loaded, consumerVars, queueVars, measured, query>>
  BY DEF MatchLines, Overrun
<1>2. /\ steps' \in [Hands -> Seq(StepNames)] /\ \A g \in Hands : Proper(steps'[g])
      /\ \A g \in Hands \ {h} : steps'[g] = steps[g]
      /\ steps[h] \in Matching /\ steps'[h] \in Showing
      /\ UNCHANGED <<page, commands>>
  <2>1. "match" \in StepNames \ {"choose"}
    BY DEF StepNames
  <2> QED
    BY <1>1, <2>1, StepsLeft DEF Commanded, Step
<1>3. ASSUME NEW i \in DOMAIN ring
      PROVE  /\ ring'[i] \in Line /\ ring'[i].due = ring[i].due /\ ring'[i].no = ring[i].no
             /\ ring'[i].shown = ring[i].shown /\ ring'[i].astray = ring[i].astray
             /\ ring'[i].matched \subseteq ring[i].matched \union {h}
             /\ ring[i].matched \subseteq ring'[i].matched
             /\ Matches(query[h], ring[i]) => h \in ring'[i].matched
  <2>1. ring[i] \in Line
    BY <1>0, LinesTyped
  <2>2. ring'[i] = IF Matches(query[h], ring[i]) THEN [ring[i] EXCEPT !.matched = @ \union {h}] ELSE ring[i]
    BY <1>1
  <2> QED
    BY <2>1, <2>2 DEF Line
<1>4. ring' \in Seq(Line) /\ Len(ring') = Len(ring) /\ DOMAIN ring' = DOMAIN ring
  <2>1. ring \in Seq(Line)
    BY <1>0, LinesTyped
  <2>2. ring' = [i \in DOMAIN ring |-> ring'[i]]
    BY <1>1
  <2> QED
    BY <1>3, <2>1, <2>2, MarkedType
<1>5. TInv'
  <2>1. {i \in DOMAIN ring : Matches(query[h], ring[i])} \in SUBSET (1 .. Lines)
    BY <1>0, LinesTyped
  <2>2. picked' \in [Hands -> SUBSET (1 .. Lines)]
    BY <1>0, <1>1, <2>1, LinesTyped
  <2>3. /\ lastSent' \in 0 .. Len(ring') /\ Len(ring') <= Len(ring)
        /\ fired' \in Nat /\ clears' \in SUBSET (1 .. fired')
        /\ measured' \in [Hands -> 0 .. Lines] /\ query' \in [Hands -> Filters]
    BY <1>0, <1>1, <1>4, LinesTyped DEF queueVars
  <2>4. \A i \in DOMAIN ring' : ring'[i].due \subseteq 0 .. fired'
    BY <1>0, <1>1, <1>3, <1>4, LinesTyped DEF queueVars
  <2> QED
    BY <1>1, <1>2, <1>4, <2>2, <2>3, <2>4, StepTyped
<1>6. Commanded'
  BY <1>0, <1>2, <1>3, <1>4, LinesTyped DEF Commanded, MatchedIsShown
<1>7. \A i \in 1 .. lastSent : i \in DOMAIN ring
  BY <1>0, LinesTyped
<1>8. CASE query[h] = filter
  <2>1. Good'
    BY <1>1, <1>3, <1>7, <1>8 DEF Good, Settled, Wanted, Matches
  <2> QED
    BY <1>5, <1>6, <2>1 DEF Keeps
<1>9. CASE query[h] # filter
  <2>1. ~Redraws(steps[h])
    BY <1>2, DrawingTails DEF Redraws
  <2>2. Owed => Owed'
    BY <1>1, <1>2, <1>9, <2>1 DEF Owed, Redraws
  <2>3. Good => Good'
    BY <1>1, <1>3, <1>7 DEF queueVars, Good, Settled, Wanted, Matches, Kept
  <2> QED
    BY <1>5, <1>6, <2>2, <2>3 DEF Keeps
<1> QED
  BY <1>8, <1>9

(* What matched is handed over, or had moved.                              *)
LEMMA ShowLinesKeeps ==
    ASSUME TInv, Commanded, NEW h \in Hands, ShowLines(h)
    PROVE  Keeps
<1>0. LogTypeOK
  BY DEF TInv
<1> DEFINE drawn(i) == IF i \in picked[h] THEN Handed(ring[i])
                       ELSE [ring[i] EXCEPT !.astray = @ \/ h \in ring[i].matched]
<1>1. /\ Step(h, "show") /\ Done(h) /\ Return(h) /\ panicked' \in BOOLEAN
      /\ ring' = [i \in DOMAIN ring |-> [drawn(i) EXCEPT !.matched = @ \ {h}]]
      /\ UNCHANGED <<streamVars, lastSent, filter, listening, loaded, consumerVars, queueVars>>
  BY DEF ShowLines, Overrun
<1>2. /\ steps' \in [Hands -> Seq(StepNames)] /\ \A g \in Hands : Proper(steps'[g])
      /\ \A g \in Hands \ {h} : steps'[g] = steps[g]
      /\ steps[h] \in Showing
      /\ UNCHANGED <<page, commands>>
  <2>1. "show" \in StepNames \ {"choose"}
    BY DEF StepNames
  <2> QED
    BY <1>1, <2>1, StepsLeft DEF Commanded, Step
<1>3. ASSUME NEW i \in DOMAIN ring
      PROVE  /\ ring'[i] \in Line /\ ring'[i].due \subseteq 0 .. fired
             /\ ring'[i].matched = ring[i].matched \ {h}
             /\ Settled(ring[i]) => Settled(ring'[i])
  <2>1. ring[i] \in Line /\ ring[i].due \subseteq 0 .. fired
    BY <1>0, LinesTyped
  <2>2. ring'[i] = [drawn(i) EXCEPT !.matched = @ \ {h}]
    BY <1>1
  <2>3. CASE i \in picked[h]
    <3> DEFINE line == Handed(ring[i])
    <3>1. /\ line \in Line /\ line.due \subseteq 0 .. fired /\ line.matched = ring[i].matched
          /\ Kept(line) \/ line.astray
      BY <1>0, <2>1, HandedLine
    <3>2. ring'[i] = [line EXCEPT !.matched = @ \ {h}]
      BY <2>2, <2>3
    <3> HIDE DEF line
    <3>3. /\ ring'[i] \in Line /\ ring'[i].due = line.due /\ ring'[i].shown = line.shown
          /\ ring'[i].astray = line.astray /\ ring'[i].matched = line.matched \ {h}
      BY <3>1, <3>2 DEF Line
    <3> QED
      BY <3>1, <3>3 DEF Settled, Kept
  <2>4. CASE i \notin picked[h]
    <3>1. (ring[i].astray \/ h \in ring[i].matched) \in BOOLEAN
      BY <2>1 DEF Line
    <3>2. drawn(i) = [ring[i] EXCEPT !.astray = @ \/ h \in ring[i].matched]
      BY <2>4
    <3> HIDE DEF drawn
    <3>3. /\ ring'[i] \in Line /\ ring'[i].no = ring[i].no /\ ring'[i].due = ring[i].due
          /\ ring'[i].shown = ring[i].shown /\ ring'[i].matched = ring[i].matched \ {h}
          /\ ring'[i].astray = (ring[i].astray \/ h \in ring[i].matched)
      BY <2>1, <2>2, <3>1, <3>2 DEF Line
    <3> QED
      BY <2>1, <3>3 DEF Settled, Wanted, Matches, Kept
  <2> QED
    BY <2>3, <2>4
<1> HIDE DEF drawn
<1>4. ring' \in Seq(Line) /\ Len(ring') = Len(ring) /\ DOMAIN ring' = DOMAIN ring
  <2>1. ring \in Seq(Line)
    BY <1>0, LinesTyped
  <2>2. ring' = [i \in DOMAIN ring |-> ring'[i]]
    BY <1>1
  <2> QED
    BY <1>3, <2>1, <2>2, MarkedType
<1>5. TInv'
  <2>0. lastSent' = lastSent /\ fired' = fired /\ clears' = clears
    BY <1>1 DEF queueVars
  <2>1. /\ lastSent' \in 0 .. Len(ring') /\ Len(ring') <= Len(ring)
        /\ fired' \in Nat /\ clears' \in SUBSET (1 .. fired')
        /\ \A i \in DOMAIN ring' : ring'[i].due \subseteq 0 .. fired'
    BY <1>0, <1>3, <1>4, <2>0, LinesTyped
  <2> QED
    BY <1>0, <1>1, <1>2, <1>4, <2>1, Returned, StepTyped
<1>6. Commanded'
  <2>1. \A i \in DOMAIN ring : ring[i].matched \subseteq Hands
    BY <1>0, LinesTyped
  <2> QED
    BY <1>2, <1>3, <1>4, <2>1 DEF Commanded, MatchedIsShown
<1>7. Owed => Owed'
  <2>1. ~Redraws(steps[h]) /\ steps[h] \notin Matching
    BY <1>1, <1>2, DrawingTails DEF Redraws, Step
  <2>2. \A g \in Hands \ {h} : query'[g] = query[g]
    BY <1>0, <1>1, Returned
  <2> QED
    BY <1>1, <1>2, <2>1, <2>2 DEF Owed, Redraws
<1>8. Good => Good'
  <2>1. \A i \in 1 .. lastSent : i \in DOMAIN ring
    BY <1>0, LinesTyped
  <2>2. \A i \in 1 .. lastSent : Settled(ring'[i]) => Settled(ring[i])'
    BY <1>1 DEF queueVars, Settled, Wanted, Matches, Kept
  <2> QED
    BY <1>1, <1>3, <2>1, <2>2 DEF Good
<1> QED
  BY <1>5, <1>6, <1>7, <1>8 DEF Keeps

LEMMA RunStepKeeps ==
    ASSUME TInv, Commanded, NEW h \in Hands, RunStep(h)
    PROVE  Keeps
BY QuietStepKeeps, EmptyBufferKeeps, ClearViewKeeps, WipeViewKeeps, ChooseKeeps, RenderLinesKeeps,
   MatchLinesKeeps, ShowLinesKeeps DEF RunStep

-----------------------------------------------------------------------------
LEMMA InitInvariant == Init => IInv
<1> SUFFICES ASSUME Init PROVE IInv
  OBVIOUS
<1> USE StreamAssumption, LogAssumption
<1>1. StreamsTypeOK /\ AttemptsLeft
  BY DEF Init, StreamsInit, StreamsTypeOK, AttemptsLeft, Phases
<1>2. /\ ring \in Seq(Line) /\ lastSent \in 0 .. Len(ring) /\ Len(ring) <= Lines /\ DOMAIN ring = {}
      /\ fired \in Nat /\ clears \in SUBSET (1 .. fired)
  BY DEF Init
<1>3. /\ filter \in Filters /\ {listening, page, panicked} \subseteq BOOLEAN
      /\ loaded \in SUBSET Streams /\ told \in SUBSET Streams
  BY DEF Init
<1>4. /\ consumer \in [Streams -> {"none", "select", "append", "left", "done"}]
      /\ inHand \in [Streams -> Items]
  BY DEF Init, Items, EndNote
<1>5. /\ steps \in [Hands -> Seq(StepNames)] /\ \A h \in Hands : Proper(steps[h])
  BY DEF Init, Proper
<1>6. /\ measured \in [Hands -> 0 .. Lines] /\ query \in [Hands -> Filters]
      /\ picked \in [Hands -> SUBSET (1 .. Lines)] /\ commands \in 0 .. MaxCommands
  BY DEF Init
<1>7. LogTypeOK
  BY <1>1, <1>2, <1>3, <1>4, <1>5, <1>6 DEF LogTypeOK
<1>8. Commanded
  BY <1>2, <1>5 DEF Commanded, MatchedIsShown
<1>9. Good
  BY DEF Init, Good
<1> QED
  BY <1>1, <1>7, <1>8, <1>9 DEF IInv, TInv

LEMMA NextInvariant == IInv /\ [Next]_vars => IInv'
<1> SUFFICES ASSUME IInv, [Next]_vars
             PROVE  IInv'
  OBVIOUS
<1>0. TInv /\ Commanded /\ (panicked \/ Owed \/ Good)
  BY DEF IInv
<1>1. CASE Press
  <2>1. ~panicked
    BY <1>1 DEF Press, Start, Stop, Restart, Clear, Filter, ToggleShowTimestamp, Begin
  <2> QED
    BY <1>0, <1>1, <2>1, PressKeeps DEF IInv
<1>2. CASE Apply
  <2>1. ~panicked /\ UNCHANGED <<filter, uiVars>>
    BY <1>2 DEF Apply, ApplyClear, ApplyLines
  <2>2. Owed => Owed'
    BY <2>1 DEF Owed, uiVars, localVars
  <2> QED
    BY <1>0, <1>2, <2>1, <2>2, ApplyKeeps DEF IInv
<1>3. ASSUME NEW h \in Hands, RunStep(h)
      PROVE  IInv'
  <2>1. ~panicked
    BY <1>3 DEF RunStep, CancelStep, Load, Listen, EmptyBuffer, ClearView, WipeView, Measure, Choose,
                RenderLines, MatchLines, ShowLines, Step
  <2> QED
    BY <1>0, <1>3, <2>1, RunStepKeeps DEF IInv, Keeps
<1>4. ASSUME NEW s \in Streams, Consume(s)
      PROVE  IInv'
  <2>1. ~panicked /\ UNCHANGED <<filter, uiVars>>
    BY <1>4 DEF Consume, Receive, AppendLine, TimeOut, Drained, LeaveSelect, Selecting, bufferVars
  <2>2. Owed => Owed'
    BY <2>1 DEF Owed, uiVars, localVars
  <2> QED
    BY <1>0, <1>4, <2>1, <2>2, ConsumeKeeps DEF IInv
<1>5. ASSUME NEW s \in Streams, Advance(s) \/ Serve(s), InStreams
      PROVE  IInv'
  <2>1. StreamsTypeOK' /\ AttemptsLeft'
    BY <1>0, <1>5, StreamTyped
  <2>2. UNCHANGED <<bufferVars, consumerVars, queueVars, uiVars>>
    BY <1>5 DEF InStreams
  <2>3. TInv'
    BY <1>0, <2>1, <2>2 DEF bufferVars, consumerVars, queueVars, uiVars, localVars, TInv, LogTypeOK
  <2> QED
    BY <1>0, <2>2, <2>3 DEF bufferVars, queueVars, uiVars, localVars, IInv, Commanded, MatchedIsShown,
                            Owed, Good, Settled, Wanted, Matches, Kept
<1>6. CASE UNCHANGED vars
  <2>1. TInv'
    BY <1>0, <1>6 DEF vars, streamVars, bufferVars, consumerVars, queueVars, uiVars, localVars,
                      TInv, LogTypeOK, StreamsTypeOK, AttemptsLeft
  <2> QED
    BY <1>0, <1>6, <2>1 DEF vars, bufferVars, queueVars, uiVars, localVars, IInv, Commanded, MatchedIsShown,
                            Owed, Good, Settled, Wanted, Matches, Kept
<1> QED
  BY <1>1, <1>2, <1>3, <1>4, <1>5, <1>6 DEF Next

(* The buffer never outgrows its limit, and the mark of what was sent      *)
(* never leaves it, though lines fall out of it and every command moves    *)
(* the mark (Append, Notify, Clear).                                       *)
THEOREM LogTypes == Spec => []LogTypeOK
<1>1. IInv => LogTypeOK
  BY DEF IInv, TInv
<1> QED
  BY <1>1, InitInvariant, NextInvariant, PTL DEF Spec

(* Between commands nothing is owed and no line is still to be drawn.      *)
LEMMA IdleIsSettled == IInv => SentIsKept
<1> SUFFICES ASSUME IInv, Idle, ~panicked, NEW i \in 1 .. lastSent, Wanted(ring[i])
             PROVE  Kept(ring[i]) \/ ring[i].astray
  BY DEF SentIsKept
<1>0. LogTypeOK /\ MatchedIsShown /\ (Owed \/ Good)
  BY DEF IInv, TInv, Commanded
<1>1. \A h \in Hands : steps[h] \notin Drawing
  BY DrawingTails DEF Idle
<1>2. ~Owed
  BY <1>1 DEF Owed, Redraws, Drawing
<1>3. ring[i].matched = {}
  <2>1. i \in DOMAIN ring /\ ring[i].matched \subseteq Hands
    BY <1>0, LinesTyped
  <2> QED
    BY <1>0, <1>1, <2>1 DEF MatchedIsShown, Drawing
<1> QED
  BY <1>0, <1>2, <1>3 DEF Good, Settled

(* Whatever the mark of Notify covers and the filter lets pass is in the   *)
(* view or comes to it behind every clear that is queued, in whatever      *)
(* order clears and lines are applied, unless a race of those that Line    *)
(* names took it (Append, Notify, Filter, LogCleared, LogChanged).         *)
THEOREM LogSentIsKept == Spec => []SentIsKept
BY IdleIsSettled, InitInvariant, NextInvariant, PTL DEF Spec

=============================================================================
