------------------------- MODULE ResourceTableProofs -------------------------
(***************************************************************************)
(* Only one goroutine at a time is inside refresh, however many updaters   *)
(* the browser has started and abandoned; every variable keeps its type;   *)
(* and as long as nobody else reconciles, what refresh merges is exactly   *)
(* what it listed, each row where the index says.                          *)
(*                                                                         *)
(* The loops over rows are recursive functions.  What they compute is      *)
(* proved from the fact that a set of naturals has a least member.         *)
(***************************************************************************)
EXTENDS ResourceTable, FiniteSetTheorems, WellFoundedInduction, TLAPS

(* Induction over the natural numbers, for sets of them.                   *)
LEMMA Induction ==
    ASSUME NEW S, 0 \in S, \A n \in Nat : n \in S => n + 1 \in S
    PROVE  Nat \subseteq S
<1> DEFINE T == Nat \ S
<1> SUFFICES ASSUME T # {} PROVE FALSE
    OBVIOUS
<1>1. PICK x \in T : \A y \in T : ~(<<y, x>> \in OpToRel(<, Nat))
  <2>1. IsWellFoundedOn(OpToRel(<, Nat), Nat)
      BY NatLessThanWellFounded
  <2>2. T \subseteq Nat
      OBVIOUS
  <2> HIDE DEF T
  <2> QED
      BY <2>1, <2>2, WFMin
<1>2. \A y \in T : ~(y < x)
    BY <1>1 DEF OpToRel
<1>3. x - 1 \in Nat /\ x - 1 < x
    OBVIOUS
<1>4. (x - 1) + 1 \in S
    BY <1>2, <1>3
<1> QED
    BY <1>3, <1>4

-----------------------------------------------------------------------------
(* No resource is twice among these rows, or row events.                   *)
Distinct(listing) == \A i, j \in DOMAIN listing : listing[i].id = listing[j].id => i = j

(* The loop of DeleteBatch.                                                *)
IsFilter(f, n, events, positions) ==
    f = [i \in 0..n |->
            IF i = 0 THEN <<>>
            ELSE IF i \in positions THEN f[i - 1] ELSE Append(f[i - 1], events[i])]

LEMMA FilterExists ==
    ASSUME NEW events, NEW positions
    PROVE  \A n \in Nat : \E f : IsFilter(f, n, events, positions)
<1> DEFINE S == {n \in Nat : \E f : IsFilter(f, n, events, positions)}
<1>1. 0 \in S
  <2>1. IsFilter([i \in 0..0 |-> <<>>], 0, events, positions)
      BY DEF IsFilter
  <2> QED
      BY <2>1
<1>2. ASSUME NEW n \in Nat, n \in S PROVE n + 1 \in S
  <2>1. PICK f : IsFilter(f, n, events, positions)
      BY <1>2
  <2> DEFINE next == IF n + 1 \in positions THEN f[n] ELSE Append(f[n], events[n + 1])
             g == [i \in 0..(n + 1) |-> IF i = n + 1 THEN next ELSE f[i]]
  <2>2. \A i \in 0..(n + 1) : g[i] = IF i = 0 THEN <<>>
            ELSE IF i \in positions THEN g[i - 1] ELSE Append(g[i - 1], events[i])
    <3> TAKE i \in 0..(n + 1)
    <3>1. CASE i = n + 1
      <4>1. g[i] = next /\ g[i - 1] = f[n] /\ i # 0
          BY <3>1
      <4> QED
          BY <3>1, <4>1
    <3>2. CASE i # n + 1
      <4>1. i \in 0..n /\ g[i] = f[i] /\ (i # 0 => g[i - 1] = f[i - 1])
          BY <3>2
      <4> HIDE DEF g
      <4> QED
          BY <2>1, <4>1 DEF IsFilter
    <3> QED
        BY <3>1, <3>2
  <2>3. IsFilter(g, n + 1, events, positions)
      BY <2>2 DEF IsFilter
  <2> QED
      BY <2>3
<1>3. Nat \subseteq S
  <2> HIDE DEF S
  <2> QED
      BY <1>1, <1>2, Induction
<1> QED
    BY <1>3

LEMMA KeptUnfolds ==
    ASSUME NEW events, Len(events) \in Nat, NEW positions
    PROVE  \E f : IsFilter(f, Len(events), events, positions) /\ Kept(events, positions) = f[Len(events)]
<1> DEFINE f == CHOOSE f : IsFilter(f, Len(events), events, positions)
<1>1. IsFilter(f, Len(events), events, positions)
    BY FilterExists
<1>2. Kept(events, positions) = f[Len(events)]
    BY DEF Kept, IsFilter
<1> QED
    BY <1>1, <1>2

(* What is left are the events at the other positions; each is there once. *)
LEMMA KeptEvents ==
    ASSUME NEW S, NEW events \in Seq(S), NEW positions
    PROVE  /\ Kept(events, positions) \in Seq(S)
           /\ \A k \in DOMAIN Kept(events, positions) :
                \E j \in DOMAIN events \ positions : Kept(events, positions)[k] = events[j]
           /\ \A j \in DOMAIN events \ positions :
                \E k \in DOMAIN Kept(events, positions) : Kept(events, positions)[k] = events[j]
           /\ Distinct(events) => Distinct(Kept(events, positions))
<1> DEFINE size == Len(events)
           unique == Distinct(events)
<1>1. size \in Nat /\ DOMAIN events = 1..size
    OBVIOUS
<1>2. PICK f : IsFilter(f, size, events, positions) /\ Kept(events, positions) = f[size]
    BY <1>1, KeptUnfolds
<1>3. /\ f[0] = <<>>
      /\ \A n \in Nat : n + 1 <= size =>
            f[n + 1] = IF n + 1 \in positions THEN f[n] ELSE Append(f[n], events[n + 1])
  <2>1. \A i \in 0..size : f[i] = IF i = 0 THEN <<>>
            ELSE IF i \in positions THEN f[i - 1] ELSE Append(f[i - 1], events[i])
      BY <1>2 DEF IsFilter
  <2>2. f[0] = <<>>
      BY <1>1, <2>1
  <2>3. ASSUME NEW n \in Nat, n + 1 <= size
        PROVE  f[n + 1] = IF n + 1 \in positions THEN f[n] ELSE Append(f[n], events[n + 1])
    <3>1. n + 1 \in 0..size /\ n + 1 # 0 /\ (n + 1) - 1 = n
        BY <1>1, <2>3
    <3> QED
        BY <2>1, <3>1
  <2> QED
      BY <2>2, <2>3
<1> DEFINE Good(n) ==
             /\ f[n] \in Seq(S)
             /\ \A k \in DOMAIN f[n] : \E j \in 1..n : j \notin positions /\ f[n][k] = events[j]
             /\ \A j \in 1..n : j \notin positions => \E k \in DOMAIN f[n] : f[n][k] = events[j]
             /\ unique => Distinct(f[n])
           T == {n \in Nat : n <= size => Good(n)}
<1>4. 0 \in T
  <2>1. f[0] \in Seq(S) /\ DOMAIN f[0] = {} /\ 1..0 = {}
      BY <1>3
  <2> QED
      BY <2>1 DEF Distinct
<1>5. ASSUME NEW n \in Nat, n \in T PROVE n + 1 \in T
  <2> SUFFICES ASSUME n + 1 <= size PROVE Good(n + 1)
      OBVIOUS
  <2> n + 1 \in 1..size /\ n \in 0..size /\ events[n + 1] \in S
      BY <1>1
  <2>1. Good(n)
      BY <1>1, <1>5
  <2>2. CASE n + 1 \in positions
    <3>1. f[n + 1] = f[n]
        BY <1>3, <2>2
    <3> QED
        BY <2>1, <2>2, <3>1
  <2>3. CASE n + 1 \notin positions
    <3> DEFINE s == f[n]
               t == f[n + 1]
    <3>1. s \in Seq(S) /\ t = Append(s, events[n + 1])
        BY <1>3, <2>1, <2>3
    <3>2. /\ Len(s) \in Nat /\ DOMAIN s = 1..Len(s)
          /\ t \in Seq(S) /\ DOMAIN t = 1..(Len(s) + 1)
          /\ \A k \in 1..Len(s) : t[k] = s[k]
          /\ t[Len(s) + 1] = events[n + 1]
        BY <3>1
    <3>3. ASSUME NEW k \in DOMAIN t PROVE \E j \in 1..(n + 1) : j \notin positions /\ t[k] = events[j]
      <4>1. CASE k = Len(s) + 1
          BY <2>3, <3>2, <4>1
      <4>2. CASE k \in DOMAIN s
        <5>1. PICK j \in 1..n : j \notin positions /\ s[k] = events[j]
            BY <2>1, <4>2
        <5> QED
            BY <3>2, <4>2, <5>1
      <4> QED
          BY <3>2, <4>1, <4>2
    <3>4. ASSUME NEW j \in 1..(n + 1), j \notin positions PROVE \E k \in DOMAIN t : t[k] = events[j]
      <4>1. CASE j = n + 1
          BY <3>2, <4>1
      <4>2. CASE j \in 1..n
        <5>1. PICK k \in DOMAIN s : s[k] = events[j]
            BY <2>1, <3>4, <4>2
        <5> QED
            BY <3>2, <5>1
      <4> QED
          BY <4>1, <4>2
    <3>5. ASSUME unique, NEW i \in DOMAIN t, NEW j \in DOMAIN t, t[i].id = t[j].id PROVE i = j
      <4>1. \A k \in DOMAIN s : s[k].id # events[n + 1].id
        <5> TAKE k \in DOMAIN s
        <5>1. PICK m \in 1..n : s[k] = events[m]
            BY <2>1
        <5>2. m \in DOMAIN events /\ n + 1 \in DOMAIN events /\ m # n + 1
            BY <1>1
        <5> QED
            BY <3>5, <5>1, <5>2 DEF Distinct
      <4>2. \A a, b \in DOMAIN s : s[a].id = s[b].id => a = b
          BY <2>1, <3>5 DEF Distinct
      <4> HIDE DEF s, t
      <4> QED
          BY <3>2, <3>5, <4>1, <4>2
    <3> QED
        BY <3>2, <3>3, <3>4, <3>5 DEF Distinct
  <2> QED
      BY <2>2, <2>3
<1>6. Good(size)
  <2>1. Nat \subseteq T
    <3> HIDE DEF T
    <3> QED
        BY <1>4, <1>5, Induction
  <2>2. size \in T
      BY <1>1, <2>1
  <2> QED
      BY <1>1, <2>2
<1> QED
    BY <1>1, <1>2, <1>6

-----------------------------------------------------------------------------
(* A row of a table by its id and its value.                               *)
Holds(table, row) ==
    \E j \in DOMAIN table.events :
        table.events[j].id = row.id /\ table.events[j].value = row.value

Lists(table, listing) == \A i \in DOMAIN listing : Holds(table, listing[i])

ListsOnly(table, keys) == \A j \in DOMAIN table.events : table.events[j].id \in keys

Indexed(table) == table.events \in Seq(Event) /\ IndexAgrees(table)

LEMMA IndexedIsDistinct ==
    ASSUME NEW table, Indexed(table) PROVE Distinct(table.events)
BY DEF Indexed, IndexAgrees, Distinct

LEMMA BlankIsIndexed == Indexed(Blank) /\ Empty(Blank)
<1>1. Blank.events = <<>> /\ Blank.index = <<>>
    BY DEF Blank
<1>2. DOMAIN Blank.events = {} /\ DOMAIN Blank.index = {} /\ Blank.events \in Seq(Event)
    BY <1>1
<1> QED
    BY <1>1, <1>2 DEF Indexed, IndexAgrees, Empty

LEMMA EmptyHasNoIndex ==
    ASSUME NEW table, Indexed(table), Empty(table)
    PROVE  DOMAIN table.index = {} /\ DOMAIN table.events = {}
BY DEF Indexed, IndexAgrees, Empty

LEMMA ReindexAgrees ==
    ASSUME NEW events \in Seq(Event), Distinct(events), NEW index,
           \A id \in DOMAIN index : \E i \in DOMAIN events : events[i].id = id
    PROVE  IndexAgrees([events |-> events, index |-> Reindex(events, index)])
<1> DEFINE ids == {events[i].id : i \in DOMAIN events}
           LastOf(id) == CHOOSE i \in DOMAIN events :
                           /\ events[i].id = id
                           /\ \A j \in DOMAIN events : events[j].id = id => j <= i
           new == Reindex(events, index)
<1>1. new = [id \in DOMAIN index \union ids |-> IF id \in ids THEN LastOf(id) ELSE index[id]]
    BY DEF Reindex
<1>2. DOMAIN index \union ids = ids
    OBVIOUS
<1>3. ASSUME NEW i \in DOMAIN events PROVE new[events[i].id] = i
  <2>1. DOMAIN events \subseteq Nat
      OBVIOUS
  <2>2. \A j \in DOMAIN events : events[j].id = events[i].id => j <= i
      BY <2>1 DEF Distinct
  <2>3. LastOf(events[i].id) = i
      BY <2>2 DEF Distinct
  <2>4. events[i].id \in ids
      OBVIOUS
  <2> HIDE DEF ids, LastOf
  <2> QED
      BY <1>1, <1>2, <2>3, <2>4
<1>4. DOMAIN new = ids
    BY <1>1, <1>2
<1>5. new = Reindex(events, index)
    OBVIOUS
<1> HIDE DEF new
<1> QED
    BY <1>3, <1>4, <1>5 DEF IndexAgrees

(* Delete leaves the rows whose key is in the listing, and the index true. *)
LEMMA DeleteKeepsListed ==
    ASSUME NEW table, Indexed(table), NEW keys
    PROVE  LET left == DeleteRows(table, keys)
           IN  /\ Indexed(left)
               /\ ListsOnly(left, keys)
               /\ \A row : Holds(table, row) /\ row.id \in keys => Holds(left, row)
<1> DEFINE events == table.events
           Saved(i) == /\ events[i].id \in keys
                       /\ \A j \in 1..(i - 1) : events[j].id # events[i].id
           victims == {events[i].id : i \in {i \in DOMAIN events : ~Saved(i)}}
           found == victims \intersect DOMAIN table.index
           positions == {table.index[id] : id \in found}
           index == Restrict(table.index, DOMAIN table.index \ found)
           kept == Kept(events, positions)
           left == DeleteRows(table, keys)
<1> SUFFICES /\ Indexed(left)
             /\ ListsOnly(left, keys)
             /\ \A row : Holds(table, row) /\ row.id \in keys => Holds(left, row)
    OBVIOUS
<1>1. /\ events \in Seq(Event) /\ DOMAIN events = 1..Len(events) /\ Len(events) \in Nat
      /\ Distinct(events)
      /\ DOMAIN table.index = {events[i].id : i \in DOMAIN events}
      /\ \A i \in DOMAIN events : table.index[events[i].id] = i
    BY IndexedIsDistinct DEF Indexed, IndexAgrees
<1>2. \A i \in DOMAIN events : Saved(i) <=> events[i].id \in keys
    BY <1>1 DEF Distinct
<1>3. \A i \in DOMAIN events : events[i].id \in victims <=> events[i].id \notin keys
    BY <1>1, <1>2 DEF Distinct
<1>4. found = victims
    BY <1>1
<1>5. \A i \in DOMAIN events : i \in positions <=> events[i].id \notin keys
  <2>1. \A i \in DOMAIN events : i \in positions => events[i].id \in victims
      BY <1>1, <1>4 DEF Distinct
  <2>2. \A i \in DOMAIN events : events[i].id \in victims => i \in positions
      BY <1>1, <1>4
  <2> HIDE DEF positions, victims
  <2> QED
      BY <1>3, <2>1, <2>2
<1>6. left = IF found = {} THEN table ELSE [events |-> kept, index |-> Reindex(kept, index)]
    BY DEF DeleteRows, DeleteBatch
<1> HIDE DEF left, found, victims, Saved, index
<1>7. CASE found = {}
  <2>1. left = table /\ \A i \in DOMAIN events : events[i].id \in keys
      BY <1>3, <1>4, <1>6, <1>7
  <2> QED
      BY <2>1 DEF ListsOnly
<1>8. CASE found # {}
  <2>1. left.events = kept /\ left.index = Reindex(kept, index)
      BY <1>6, <1>8
  <2>2. kept \in Seq(Event) /\ Distinct(kept)
    <3> HIDE DEF positions, events
    <3>1. events \in Seq(Event) /\ Distinct(events)
        BY <1>1
    <3> QED
        BY <3>1, KeptEvents
  <2>3. /\ \A k \in DOMAIN kept : \E j \in DOMAIN events \ positions : kept[k] = events[j]
        /\ \A j \in DOMAIN events \ positions : \E k \in DOMAIN kept : kept[k] = events[j]
    <3> HIDE DEF positions, events
    <3>1. events \in Seq(Event)
        BY <1>1
    <3> QED
        BY <3>1, KeptEvents
  <2> HIDE DEF kept, positions, events
  <2>4. ASSUME NEW id \in DOMAIN index PROVE \E k \in DOMAIN kept : kept[k].id = id
    <3>1. id \in DOMAIN table.index \ found
        BY <2>4 DEF index, Restrict
    <3>2. PICK i \in DOMAIN events : events[i].id = id
        BY <1>1, <3>1
    <3>3. i \in DOMAIN events \ positions
        BY <1>3, <1>4, <1>5, <3>1, <3>2
    <3> QED
        BY <2>3, <3>2, <3>3
  <2>5. IndexAgrees(left)
    <3>1. IndexAgrees([events |-> kept, index |-> Reindex(kept, index)])
        BY <2>2, <2>4, ReindexAgrees
    <3> QED
        BY <1>6, <1>8, <3>1 DEF kept
  <2>6. ListsOnly(left, keys)
      BY <1>5, <2>1, <2>3 DEF ListsOnly
  <2>7. ASSUME NEW row, Holds(table, row), row.id \in keys PROVE Holds(left, row)
    <3>1. PICK j \in DOMAIN events : events[j].id = row.id /\ events[j].value = row.value
        BY <2>7 DEF Holds, events
    <3>2. j \in DOMAIN events \ positions
        BY <1>5, <2>7, <3>1
    <3>3. PICK k \in DOMAIN kept : kept[k] = events[j]
        BY <2>3, <3>2
    <3> QED
        BY <2>1, <3>1, <3>3 DEF Holds
  <2> QED
      BY <2>1, <2>2, <2>5, <2>6, <2>7 DEF Indexed
<1> QED
    BY <1>7, <1>8

(* Whatever the index says, Update and Delete leave row events.            *)
LEMMA DeleteLeavesEvents ==
    ASSUME NEW table, table.events \in Seq(Event), NEW keys
    PROVE  DeleteRows(table, keys).events \in Seq(Event)
<1>1. \A positions : Kept(table.events, positions) \in Seq(Event)
    BY KeptEvents
<1> QED
    BY <1>1 DEF DeleteRows, DeleteBatch

-----------------------------------------------------------------------------
(* The loop of Update.                                                     *)
IsMerge(f, n, table, listing, empty) ==
    f = [i \in 0..n |-> IF i = 0 THEN table ELSE MergeRow(f[i - 1], listing[i], empty)]

LEMMA MergeExists ==
    ASSUME NEW table, NEW listing, NEW empty
    PROVE  \A n \in Nat : \E f : IsMerge(f, n, table, listing, empty)
<1> DEFINE S == {n \in Nat : \E f : IsMerge(f, n, table, listing, empty)}
<1>1. 0 \in S
  <2>1. IsMerge([i \in 0..0 |-> table], 0, table, listing, empty)
      BY DEF IsMerge
  <2> QED
      BY <2>1
<1>2. ASSUME NEW n \in Nat, n \in S PROVE n + 1 \in S
  <2>1. PICK f : IsMerge(f, n, table, listing, empty)
      BY <1>2
  <2> DEFINE next == MergeRow(f[n], listing[n + 1], empty)
             g == [i \in 0..(n + 1) |-> IF i = n + 1 THEN next ELSE f[i]]
  <2>2. \A i \in 0..(n + 1) :
            g[i] = IF i = 0 THEN table ELSE MergeRow(g[i - 1], listing[i], empty)
    <3> TAKE i \in 0..(n + 1)
    <3>1. CASE i = n + 1
      <4>1. g[i] = next /\ g[i - 1] = f[n] /\ i # 0
          BY <3>1
      <4> QED
          BY <3>1, <4>1
    <3>2. CASE i # n + 1
      <4>1. i \in 0..n /\ g[i] = f[i] /\ (i # 0 => g[i - 1] = f[i - 1])
          BY <3>2
      <4> HIDE DEF g
      <4> QED
          BY <2>1, <4>1 DEF IsMerge
    <3> QED
        BY <3>1, <3>2
  <2>3. IsMerge(g, n + 1, table, listing, empty)
      BY <2>2 DEF IsMerge
  <2> QED
      BY <2>3
<1>3. Nat \subseteq S
  <2> HIDE DEF S
  <2> QED
      BY <1>1, <1>2, Induction
<1> QED
    BY <1>3

Merges(f, table, listing, empty) ==
    /\ UpdateRows(table, listing, empty) = f[Len(listing)]
    /\ f[0] = table
    /\ \A n \in Nat : n + 1 <= Len(listing) =>
          f[n + 1] = MergeRow(f[n], listing[n + 1], empty)

LEMMA UpdateUnfolds ==
    ASSUME NEW table, NEW listing \in Seq(Row), NEW empty
    PROVE  \E f : Merges(f, table, listing, empty)
<1> DEFINE size == Len(listing)
           f == CHOOSE f : IsMerge(f, size, table, listing, empty)
<1>1. IsMerge(f, size, table, listing, empty)
    BY MergeExists
<1>2. UpdateRows(table, listing, empty) = f[size]
    BY DEF UpdateRows, IsMerge
<1> HIDE DEF f
<1>3. \A i \in 0..size : f[i] = IF i = 0 THEN table ELSE MergeRow(f[i - 1], listing[i], empty)
    BY <1>1 DEF IsMerge
<1>4. f[0] = table
    BY <1>3
<1>5. ASSUME NEW n \in Nat, n + 1 <= size PROVE f[n + 1] = MergeRow(f[n], listing[n + 1], empty)
  <2>1. n + 1 \in 0..size /\ n + 1 # 0 /\ (n + 1) - 1 = n
      BY <1>5
  <2> QED
      BY <1>3, <2>1
<1> QED
    BY <1>2, <1>4, <1>5 DEF Merges

LEMMA MergeLeavesEvents ==
    ASSUME NEW table, table.events \in Seq(Event), NEW row \in Row, NEW empty
    PROVE  MergeRow(table, row, empty).events \in Seq(Event)
<1>1. \A kind \in Kinds : EventOf(kind, row) \in Event
    BY DEF EventOf, Event, Row
<1> QED
    BY <1>1 DEF MergeRow, ReAdd, ReSet, Kinds

LEMMA UpdateLeavesEvents ==
    ASSUME NEW table, table.events \in Seq(Event), NEW listing \in Seq(Row), NEW empty
    PROVE  UpdateRows(table, listing, empty).events \in Seq(Event)
<1> DEFINE size == Len(listing)
<1>1. size \in Nat
    OBVIOUS
<1>2. PICK f : /\ UpdateRows(table, listing, empty) = f[size]
               /\ f[0] = table
               /\ \A n \in Nat : n + 1 <= size => f[n + 1] = MergeRow(f[n], listing[n + 1], empty)
  <2>1. PICK f : Merges(f, table, listing, empty)
      BY UpdateUnfolds
  <2> QED
      BY <2>1 DEF Merges
<1> DEFINE T == {n \in Nat : n <= size => f[n].events \in Seq(Event)}
<1>3. 0 \in T
    BY <1>2
<1>4. ASSUME NEW n \in Nat, n \in T PROVE n + 1 \in T
  <2> SUFFICES ASSUME n + 1 <= size PROVE f[n + 1].events \in Seq(Event)
      OBVIOUS
  <2>1. f[n].events \in Seq(Event) /\ listing[n + 1] \in Row
      BY <1>1, <1>4
  <2> QED
      BY <1>2, <2>1, MergeLeavesEvents
<1>5. Nat \subseteq T
  <2> HIDE DEF T
  <2> QED
      BY <1>3, <1>4, Induction
<1>6. size \in T
    BY <1>1, <1>5
<1> QED
    BY <1>1, <1>2, <1>6

IdsOf(table) == {table.events[j].id : j \in DOMAIN table.events}

(* One row of the listing, if the index is to be believed or is not asked  *)
(* about a row it knows.                                                   *)
LEMMA MergeRowIsIndexed ==
    ASSUME NEW table, Indexed(table), NEW row \in Row, NEW empty \in BOOLEAN,
           empty => row.id \notin IdsOf(table)
    PROVE  LET merged == MergeRow(table, row, empty)
           IN  /\ Indexed(merged)
               /\ Holds(merged, row)
               /\ \A r : Holds(table, r) /\ r.id # row.id => Holds(merged, r)
               /\ IdsOf(merged) = IdsOf(table) \union {row.id}
<1> DEFINE events == table.events
           merged == MergeRow(table, row, empty)
           size == Len(events)
<1> SUFFICES /\ Indexed(merged)
             /\ Holds(merged, row)
             /\ \A r : Holds(table, r) /\ r.id # row.id => Holds(merged, r)
             /\ IdsOf(merged) = IdsOf(table) \union {row.id}
    OBVIOUS
<1>1. /\ events \in Seq(Event) /\ DOMAIN events = 1..size /\ size \in Nat
      /\ DOMAIN table.index = IdsOf(table)
      /\ \A i \in DOMAIN events : table.index[events[i].id] = i
    BY DEF Indexed, IndexAgrees, IdsOf
<1>2. \A kind \in Kinds : /\ EventOf(kind, row) \in Event
                          /\ EventOf(kind, row).id = row.id
                          /\ EventOf(kind, row).value = row.value
    BY DEF EventOf, Event, Row
<1>3. CASE row.id \notin IdsOf(table)
  <2> DEFINE event == EventOf("add", row)
             index == [id \in DOMAIN table.index \union {event.id} |->
                         IF id = event.id THEN size + 1 ELSE table.index[id]]
             next == Append(events, event)
  <2>1. merged.events = next /\ merged.index = index
      BY <1>1, <1>3 DEF MergeRow, ReAdd
  <2>2. event \in Event /\ event.id = row.id /\ event.value = row.value
      BY <1>2 DEF Kinds
  <2> HIDE DEF event, merged
  <2>3. /\ next \in Seq(Event) /\ DOMAIN next = 1..(size + 1)
        /\ next[size + 1] = event /\ \A i \in 1..size : next[i] = events[i]
      BY <1>1, <2>2
  <2> HIDE DEF next
  <2>4. IdsOf(merged) = IdsOf(table) \union {row.id}
    <3>1. \A id : id \in IdsOf(merged) <=> \E j \in 1..(size + 1) : next[j].id = id
        BY <2>1, <2>3 DEF IdsOf
    <3>2. \A id : id \in IdsOf(table) <=> \E j \in 1..size : events[j].id = id
        BY <1>1 DEF IdsOf
    <3>3. \A j : j \in 1..(size + 1) <=> j \in 1..size \/ j = size + 1
        BY <1>1
    <3>4. \A id : id \in IdsOf(merged) <=> id \in IdsOf(table) \/ id = row.id
        BY <2>2, <2>3, <3>1, <3>2, <3>3
    <3> QED
        BY <3>4
  <2>5. IndexAgrees(merged)
    <3>1. DOMAIN merged.index = IdsOf(merged)
        BY <1>1, <2>1, <2>2, <2>4
    <3>2. ASSUME NEW i \in 1..(size + 1) PROVE index[next[i].id] = i
      <4>1. CASE i = size + 1
          BY <2>2, <2>3, <4>1
      <4>2. CASE i \in 1..size
        <5>1. next[i].id = events[i].id /\ events[i].id \in IdsOf(table) /\ events[i].id # event.id
            BY <1>1, <1>3, <2>2, <2>3, <4>2 DEF IdsOf
        <5> QED
            BY <1>1, <4>2, <5>1
      <4> QED
          BY <1>1, <4>1, <4>2
    <3> HIDE DEF index
    <3> QED
        BY <2>1, <2>3, <3>1, <3>2 DEF IndexAgrees, IdsOf
  <2>6. Holds(merged, row)
    <3>1. size + 1 \in 1..(size + 1)
        BY <1>1
    <3> QED
        BY <2>1, <2>2, <2>3, <3>1 DEF Holds
  <2>7. ASSUME NEW r, Holds(table, r) PROVE Holds(merged, r)
    <3>1. PICK j \in 1..size : events[j].id = r.id /\ events[j].value = r.value
        BY <1>1, <2>7 DEF Holds
    <3>2. j \in 1..(size + 1) /\ next[j] = events[j]
        BY <1>1, <2>3
    <3> QED
        BY <2>1, <2>3, <3>1, <3>2 DEF Holds
  <2> QED
      BY <2>1, <2>3, <2>4, <2>5, <2>6, <2>7 DEF Indexed
<1>4. CASE row.id \in IdsOf(table)
  <2>1. PICK i \in 1..size : events[i].id = row.id
      BY <1>1, <1>4 DEF IdsOf
  <2>2. ~empty /\ row.id \in DOMAIN table.index /\ table.index[row.id] = i
      BY <1>1, <1>4, <2>1
  <2> DEFINE kind == IF Delta(events[i].value, row.value) THEN "update" ELSE "unchanged"
             event == EventOf(kind, row)
             next == [events EXCEPT ![i] = event]
             index == [id \in DOMAIN table.index \union {event.id} |->
                         IF id = event.id THEN i ELSE table.index[id]]
  <2>3. merged.events = next /\ merged.index = index
      BY <1>1, <2>2 DEF MergeRow, ReSet
  <2>4. event \in Event /\ event.id = row.id /\ event.value = row.value
    <3>1. kind \in Kinds
        BY DEF Kinds
    <3> HIDE DEF kind
    <3> QED
        BY <1>2, <3>1
  <2> HIDE DEF event, merged
  <2>5. /\ next \in Seq(Event) /\ DOMAIN next = 1..size
        /\ next[i] = event /\ \A j \in 1..size : j # i => next[j] = events[j]
        /\ \A j \in 1..size : next[j].id = events[j].id
      BY <1>1, <2>1, <2>4
  <2> HIDE DEF next
  <2>6. IdsOf(merged) = IdsOf(table) \union {row.id}
      BY <1>1, <1>4, <2>3, <2>5 DEF IdsOf
  <2>7. IndexAgrees(merged)
    <3>1. DOMAIN merged.index = IdsOf(merged)
        BY <1>1, <2>3, <2>4, <2>6
    <3>2. ASSUME NEW j \in 1..size PROVE index[next[j].id] = j
      <4>1. next[j].id = events[j].id /\ events[j].id \in DOMAIN table.index
          BY <1>1, <2>5 DEF IdsOf
      <4>2. table.index[events[j].id] = j /\ table.index[event.id] = i
          BY <1>1, <2>2, <2>4
      <4>3. index[events[j].id] = IF events[j].id = event.id THEN i ELSE table.index[events[j].id]
          BY <4>1
      <4> HIDE DEF index
      <4> QED
          BY <4>1, <4>2, <4>3
    <3> HIDE DEF index
    <3> QED
        BY <2>3, <2>5, <3>1, <3>2 DEF IndexAgrees, IdsOf
  <2>8. Holds(merged, row)
      BY <2>1, <2>3, <2>4, <2>5 DEF Holds
  <2>9. ASSUME NEW r, Holds(table, r), r.id # row.id PROVE Holds(merged, r)
    <3>1. PICK j \in 1..size : events[j].id = r.id /\ events[j].value = r.value
        BY <1>1, <2>9 DEF Holds
    <3>2. next[j] = events[j]
        BY <2>1, <2>5, <2>9, <3>1
    <3> QED
        BY <2>3, <2>5, <3>1, <3>2 DEF Holds
  <2> QED
      BY <2>3, <2>5, <2>6, <2>7, <2>8, <2>9 DEF Indexed
<1> QED
    BY <1>3, <1>4

(* Update merges every row, and into an empty table nothing else.          *)
LEMMA UpdateListsAll ==
    ASSUME NEW table, Indexed(table), NEW listing \in Seq(Row), Distinct(listing),
           NEW empty \in BOOLEAN, empty => Empty(table)
    PROVE  /\ Indexed(UpdateRows(table, listing, empty))
           /\ Lists(UpdateRows(table, listing, empty), listing)
           /\ empty => ListsOnly(UpdateRows(table, listing, empty), Keys(listing))
<1> DEFINE size == Len(listing)
           u == UpdateRows(table, listing, empty)
<1>1. size \in Nat /\ DOMAIN listing = 1..size
    OBVIOUS
<1>2. PICK f : /\ u = f[size]
               /\ f[0] = table
               /\ \A n \in Nat : n + 1 <= size => f[n + 1] = MergeRow(f[n], listing[n + 1], empty)
  <2>1. PICK f : Merges(f, table, listing, empty)
      BY UpdateUnfolds
  <2> QED
      BY <2>1 DEF Merges
<1> DEFINE Good(n) == /\ Indexed(f[n])
                      /\ \A i \in 1..n : Holds(f[n], listing[i])
                      /\ empty => \A id \in IdsOf(f[n]) : \E i \in 1..n : listing[i].id = id
           T == {n \in Nat : n <= size => Good(n)}
<1>3. 0 \in T
  <2>1. empty => IdsOf(table) = {}
      BY EmptyHasNoIndex DEF IdsOf
  <2> QED
      BY <1>2, <2>1
<1>4. ASSUME NEW n \in Nat, n \in T PROVE n + 1 \in T
  <2> SUFFICES ASSUME n + 1 <= size PROVE Good(n + 1)
      OBVIOUS
  <2> DEFINE row == listing[n + 1]
  <2>1. Good(n) /\ n + 1 \in 1..size /\ \A i \in 1..n : i \in 1..size /\ i # n + 1
      BY <1>1, <1>4
  <2>2. row \in Row /\ \A i \in 1..n : listing[i].id # row.id
      BY <1>1, <2>1 DEF Distinct
  <2>3. empty => row.id \notin IdsOf(f[n])
      BY <2>1, <2>2
  <2>4. f[n + 1] = MergeRow(f[n], row, empty)
      BY <1>2
  <2>5. /\ Indexed(f[n + 1])
        /\ Holds(f[n + 1], row)
        /\ \A r : Holds(f[n], r) /\ r.id # row.id => Holds(f[n + 1], r)
        /\ IdsOf(f[n + 1]) = IdsOf(f[n]) \union {row.id}
      BY <2>1, <2>2, <2>3, <2>4, MergeRowIsIndexed
  <2>6. ASSUME NEW i \in 1..(n + 1) PROVE Holds(f[n + 1], listing[i])
    <3>1. CASE i = n + 1
        BY <2>5, <3>1
    <3>2. CASE i \in 1..n
        BY <2>1, <2>2, <2>5, <3>2
    <3> QED
        BY <3>1, <3>2
  <2>7. ASSUME empty, NEW id \in IdsOf(f[n + 1]) PROVE \E i \in 1..(n + 1) : listing[i].id = id
    <3>1. CASE id = row.id
        BY <3>1
    <3>2. CASE id \in IdsOf(f[n])
      <4>1. PICK i \in 1..n : listing[i].id = id
          BY <2>1, <2>7, <3>2
      <4> QED
          BY <4>1
    <3> QED
        BY <2>5, <2>7, <3>1, <3>2
  <2> QED
      BY <2>5, <2>6, <2>7
<1>5. Good(size)
  <2>1. Nat \subseteq T
    <3> HIDE DEF T
    <3> QED
        BY <1>3, <1>4, Induction
  <2>2. size \in T
      BY <1>1, <2>1
  <2> QED
      BY <1>1, <2>2
<1>6. Indexed(u) /\ Lists(u, listing)
    BY <1>1, <1>2, <1>5 DEF Lists
<1>7. empty => ListsOnly(u, Keys(listing))
    BY <1>1, <1>2, <1>5 DEF ListsOnly, Keys, IdsOf
<1> QED
    BY <1>6, <1>7

-----------------------------------------------------------------------------
(* Who lists the same ids once each has as many rows.                      *)
LEMMA SameIdsSameLength ==
    ASSUME NEW S, NEW T, NEW s \in Seq(S), NEW t \in Seq(T), Distinct(s), Distinct(t),
           {s[i].id : i \in DOMAIN s} = {t[i].id : i \in DOMAIN t}
    PROVE  Len(s) = Len(t)
<1> DEFINE ids == {s[i].id : i \in DOMAIN s}
           f == [i \in 1..Len(s) |-> s[i].id]
           g == [i \in 1..Len(t) |-> t[i].id]
<1>1. /\ Len(s) \in Nat /\ DOMAIN s = 1..Len(s)
      /\ Len(t) \in Nat /\ DOMAIN t = 1..Len(t)
    OBVIOUS
<1>2. f \in Bijection(1..Len(s), ids)
  <2>1. f \in [1..Len(s) -> ids]
      BY <1>1
  <2>2. \A a, b \in 1..Len(s) : f[a] = f[b] => a = b
      BY <1>1 DEF Distinct
  <2>3. \A id \in ids : \E a \in 1..Len(s) : f[a] = id
      BY <1>1
  <2> HIDE DEF f, ids
  <2> QED
      BY <2>1, <2>2, <2>3 DEF Bijection, Injection, Surjection, IsInjective
<1>3. g \in Bijection(1..Len(t), ids)
  <2>1. g \in [1..Len(t) -> ids]
      BY <1>1
  <2>2. \A a, b \in 1..Len(t) : g[a] = g[b] => a = b
      BY <1>1 DEF Distinct
  <2>3. \A id \in ids : \E a \in 1..Len(t) : g[a] = id
      BY <1>1
  <2> HIDE DEF g, ids
  <2> QED
      BY <2>1, <2>2, <2>3 DEF Bijection, Injection, Surjection, IsInjective
<1> HIDE DEF f, g, ids
<1>4. Cardinality(ids) = Len(s) /\ Cardinality(ids) = Len(t)
    BY <1>1, <1>2, <1>3, FS_CountingElements DEF ExistsBijection
<1> QED
    BY <1>4

LEMMA ExactIsListed ==
    ASSUME NEW table, Indexed(table), NEW listing \in Seq(Row), Distinct(listing),
           Lists(table, listing), ListsOnly(table, Keys(listing)), NEW n
    PROVE  /\ Len(table.events) = Len(listing)
           /\ Range(Picture(n, table).shown) = Range(listing)
<1> DEFINE events == table.events
           shown == Picture(n, table).shown
<1>1. events \in Seq(Event) /\ Distinct(events)
    BY IndexedIsDistinct DEF Indexed
<1>2. \A i \in DOMAIN listing : \E j \in DOMAIN events :
          events[j].id = listing[i].id /\ events[j].value = listing[i].value
    BY DEF Lists, Holds
<1>3. \A j \in DOMAIN events : \E i \in DOMAIN listing : events[j].id = listing[i].id
    BY DEF ListsOnly, Keys
<1>4. {events[i].id : i \in DOMAIN events} = {listing[i].id : i \in DOMAIN listing}
    BY <1>2, <1>3
<1>5. Len(events) = Len(listing)
    BY <1>1, <1>4, SameIdsSameLength
<1>6. shown = [j \in DOMAIN events |-> [id |-> events[j].id, value |-> events[j].value]]
    BY DEF Picture
<1>7. \A i \in DOMAIN listing : listing[i] = [id |-> listing[i].id, value |-> listing[i].value]
  <2> TAKE i \in DOMAIN listing
  <2>1. listing[i] \in Row
      OBVIOUS
  <2> QED
      BY <2>1 DEF Row
<1>8. \A j \in DOMAIN events : \E i \in DOMAIN listing :
          events[j].id = listing[i].id /\ events[j].value = listing[i].value
  <2> TAKE j \in DOMAIN events
  <2>1. PICK i \in DOMAIN listing : events[j].id = listing[i].id
      BY <1>3
  <2>2. PICK k \in DOMAIN events : events[k].id = listing[i].id /\ events[k].value = listing[i].value
      BY <1>2
  <2>3. k = j
      BY <1>1, <2>1, <2>2 DEF Distinct
  <2> QED
      BY <2>1, <2>2, <2>3
<1>9. \A r : r \in Range(shown) <=> r \in Range(listing)
  <2> TAKE r
  <2>1. ASSUME r \in Range(shown) PROVE r \in Range(listing)
    <3>1. PICK j \in DOMAIN events : r = [id |-> events[j].id, value |-> events[j].value]
        BY <1>6, <2>1 DEF Range
    <3>2. PICK i \in DOMAIN listing : events[j].id = listing[i].id /\ events[j].value = listing[i].value
        BY <1>8
    <3>3. r = listing[i]
        BY <1>7, <3>1, <3>2
    <3> QED
        BY <3>3 DEF Range
  <2>2. ASSUME r \in Range(listing) PROVE r \in Range(shown)
    <3>1. PICK i \in DOMAIN listing : r = listing[i]
        BY <2>2 DEF Range
    <3>2. PICK j \in DOMAIN events : events[j].id = listing[i].id /\ events[j].value = listing[i].value
        BY <1>2
    <3>3. r = shown[j] /\ j \in DOMAIN shown
        BY <1>6, <1>7, <3>1, <3>2
    <3> QED
        BY <3>3 DEF Range
  <2> QED
      BY <2>1, <2>2
<1> QED
    BY <1>5, <1>9

(* What the informers return.                                              *)
LEMMA ListingIsDistinct ==
    ASSUME NEW n \in Namespaces, NEW s \in Selectors, cluster \in [Ids -> Values \union {Absent}]
    PROVE  Listing(n, s) \in Seq(Row) /\ Distinct(Listing(n, s))
<1> DEFINE known == IF n \in synced THEN {id \in Scope(n, s) : cluster[id] # Absent} ELSE {}
           order == SetToSeq(known)
<1>1. Listing(n, s) = [i \in DOMAIN order |-> [id |-> order[i], value |-> cluster[order[i]]]]
    BY DEF Listing
<1>2. known \in SUBSET Ids
    BY TableAssumption
<1>3. \A id \in known : cluster[id] \in Values
    BY <1>2
<1>4. IsFiniteSet(known)
    BY <1>2, RowsAssumption, FS_Subset
<1> HIDE DEF known
<1>5. Cardinality(known) \in Nat /\ ExistsBijection(1..Cardinality(known), known)
    BY <1>4, FS_CardinalityType
<1>6. \E f \in [1..Cardinality(known) -> known] : IsInjective(f)
    BY <1>5 DEF ExistsBijection, Bijection, Injection
<1>7. order \in [1..Cardinality(known) -> known] /\ IsInjective(order)
    BY <1>6 DEF SetToSeq
<1> HIDE DEF order
<1>8. DOMAIN order = 1..Cardinality(known)
    BY <1>7
<1>9. \A i \in 1..Cardinality(known) : [id |-> order[i], value |-> cluster[order[i]]] \in Row
    BY <1>2, <1>3, <1>7 DEF Row
<1>10. Listing(n, s) \in Seq(Row)
    BY <1>1, <1>5, <1>8, <1>9
<1>11. Distinct(Listing(n, s))
    BY <1>1, <1>7, <1>8 DEF Distinct, IsInjective
<1> QED
    BY <1>10, <1>11

-----------------------------------------------------------------------------
(* inUpdate is the lock of refresh as long as every thread goes through    *)
(* Enter and Release: Control says who stands where.  WatchSpawns moves a  *)
(* second thread, which Spawning says was not running.                     *)
Exclusion == Control /\ RefreshIsExclusive

IInv == Exclusion /\ Spawning

LEMMA InitExclusion == Init => Exclusion
<1> SUFFICES ASSUME Init PROVE Exclusion
    OBVIOUS
<1> USE DEF Init
<1>1. Control
    BY TableAssumption DEF Control, Labels, Continuations, Threads
<1>2. RefreshIsExclusive
    BY DEF RefreshIsExclusive, Refreshing, Sections
<1> QED
    BY <1>1, <1>2 DEF Exclusion

(* A step of one thread outside refresh that stays outside it.             *)
LEMMA Outside ==
    ASSUME Exclusion, NEW t \in Threads, NEW label \in Labels, NEW next \in Continuations,
           ~Refreshing(t),
           pc' = [pc EXCEPT ![t] = label],
           back' = [back EXCEPT ![t] = next],
           t \in Watches => next = "ticked",
           label \in {"idle", "off", "enter", "redraw", "clear", "stop", "watch", "spawn", "peek",
                     "wait", "ticked", "retry"}
             \/ (next = "redraw" /\ label \in {"list", "empty", "update", "delete", "header",
                                              "setheader", "check"}),
           next = "redraw" => label # "enter",
           inUpdate' <=> inUpdate
    PROVE  Exclusion'
<1> USE DEF Exclusion
<1>1. Control'
    BY DEF Control
<1>2. \A u \in Threads : Refreshing(u)' <=> Refreshing(u)
  <2> TAKE u \in Threads
  <2>1. CASE u = t
      BY <2>1 DEF Control, Refreshing, Sections
  <2>2. CASE u # t
      BY <2>2 DEF Control, Refreshing, Sections
  <2> QED
      BY <2>1, <2>2
<1>3. RefreshIsExclusive'
    BY <1>2 DEF RefreshIsExclusive
<1> QED
    BY <1>1, <1>3

(* A step of a thread from one section of refresh to the next.             *)
LEMMA Inside ==
    ASSUME Exclusion, NEW t \in Threads, NEW label \in Labels,
           Refreshing(t),
           pc' = [pc EXCEPT ![t] = label],
           UNCHANGED <<back, inUpdate>>,
           label \in Sections
    PROVE  Exclusion'
<1> USE DEF Exclusion
<1>1. Control'
    BY DEF Control, Refreshing, Sections
<1>2. \A u \in Threads : Refreshing(u)' <=> Refreshing(u)
    BY DEF Control, Refreshing, Sections
<1>3. RefreshIsExclusive'
    BY <1>2 DEF RefreshIsExclusive
<1> QED
    BY <1>1, <1>3

LEMMA EnterExclusion ==
    ASSUME Exclusion, NEW t \in Threads, Enter(t) PROVE Exclusion'
<1> USE DEF Exclusion, Enter, Goto, Sections
<1>1. CASE inUpdate
  <2>1. back[t] \in Continuations /\ back[t] # "redraw"
      BY DEF Control
  <2>2. back' = [back EXCEPT ![t] = back[t]]
      BY DEF Control
  <2>3. ~Refreshing(t)
      BY DEF Refreshing
  <2>4. t \in Watches => back[t] = "ticked"
      BY DEF Control
  <2>5. pc' = [pc EXCEPT ![t] = back[t]]
      BY <1>1
  <2> QED
      BY <1>1, <2>1, <2>2, <2>3, <2>4, <2>5, Outside DEF Continuations, Labels
<1>2. CASE ~inUpdate
  <2>1. Control'
      BY <1>2 DEF Control, Labels
  <2>2. \A u \in Threads : Refreshing(u)' <=> u = t
    <3>1. \A u \in Threads : ~Refreshing(u)
        BY <1>2 DEF RefreshIsExclusive
    <3> QED
        BY <1>2, <3>1 DEF Control, Refreshing, Sections
  <2>3. inUpdate'
      OBVIOUS
  <2> QED
      BY <2>1, <2>2, <2>3 DEF RefreshIsExclusive
<1> QED
    BY <1>1, <1>2 DEF RefreshIsExclusive

LEMMA ReleaseExclusion ==
    ASSUME Exclusion, NEW t \in Threads, Release(t) PROVE Exclusion'
<1> USE DEF Exclusion, Release, Goto, Sections
<1>1. Refreshing(t)
    BY DEF Control, Refreshing, Sections
<1>2. Control'
    BY DEF Control, Labels, Continuations
<1>3. \A u \in Threads : ~Refreshing(u)'
    BY <1>1 DEF Control, Refreshing, Sections, RefreshIsExclusive, Continuations
<1> QED
    BY <1>2, <1>3 DEF RefreshIsExclusive
(* The steps inside refresh, of the threads that went through Enter and of *)
(* the reconcile of SetViewSetting, which did not.                         *)
LEMMA MovesOn ==
    ASSUME Exclusion, NEW t \in Threads, NEW label \in Labels,
           pc[t] \in {"list", "empty", "update", "delete", "header", "setheader", "check", "fire"},
           Goto(t, label),
           UNCHANGED <<back, inUpdate>>,
           label \in Sections,
           back[t] = "redraw" => label \notin {"fire", "release"}
    PROVE  Exclusion'
<1> USE DEF Goto, Sections
<1>1. CASE Refreshing(t)
    BY <1>1, Inside
<1>2. CASE ~Refreshing(t)
  <2>1. back[t] = "redraw"
      BY <1>2 DEF Refreshing
  <2>2. back' = [back EXCEPT ![t] = back[t]]
      BY DEF Exclusion, Control
  <2>3. t \in Watches => back[t] = "ticked"
      BY DEF Exclusion, Control
  <2> QED
      BY <1>2, <2>1, <2>2, <2>3, Outside DEF Continuations
<1> QED
    BY <1>1, <1>2

LEMMA RefreshStepExclusion ==
    ASSUME Exclusion, NEW t \in Threads, RefreshStep(t) PROVE Exclusion'
<1> USE DEF Labels, Sections
<1>1. CASE Enter(t)
    BY <1>1, EnterExclusion
<1>2. CASE List(t)
    BY <1>2, MovesOn DEF List
<1>3. CASE ListFails(t)
  <2>1. CASE back[t] = "redraw"
    <3>1. ~Refreshing(t) /\ back' = [back EXCEPT ![t] = back[t]] /\ (t \in Watches => back[t] = "ticked")
        BY <1>3, <2>1 DEF ListFails, Refreshing, Exclusion, Control
    <3> QED
        BY <1>3, <2>1, <3>1, Outside DEF ListFails, Reconciled, Goto, Continuations
  <2>2. CASE back[t] # "redraw"
      BY <1>3, <2>2, MovesOn DEF ListFails, Reconciled
  <2> QED
      BY <2>1, <2>2
<1>4. CASE ReadEmpty(t)
    BY <1>4, MovesOn DEF ReadEmpty
<1>5. CASE Update(t)
    BY <1>5, MovesOn DEF Update
<1>6. CASE Delete(t)
    BY <1>6, MovesOn DEF Delete
<1>7. CASE ReadNamespace(t)
    BY <1>7, MovesOn DEF ReadNamespace
<1>8. CASE SetHeader(t)
    BY <1>8, MovesOn DEF SetHeader
<1>9. CASE CheckHeader(t)
  <2>1. CASE back[t] = "redraw"
    <3>1. ~Refreshing(t) /\ back' = [back EXCEPT ![t] = back[t]] /\ (t \in Watches => back[t] = "ticked")
        BY <1>9, <2>1 DEF CheckHeader, Refreshing, Exclusion, Control
    <3> QED
        BY <1>9, <2>1, <3>1, Outside DEF CheckHeader, Reconciled, Goto, Continuations
  <2>2. CASE back[t] # "redraw"
      BY <1>9, <2>2, MovesOn DEF CheckHeader, Reconciled
  <2> QED
      BY <2>1, <2>2
<1>10. CASE Fire(t)
    BY <1>10, MovesOn DEF Fire, Exclusion, Control
<1>11. CASE Release(t)
    BY <1>11, ReleaseExclusion
<1> QED
    BY <1>1, <1>2, <1>3, <1>4, <1>5, <1>6, <1>7, <1>8, <1>9, <1>10, <1>11 DEF RefreshStep

(* A step outside refresh that keeps back.                                 *)
LEMMA Elsewhere ==
    ASSUME Exclusion, NEW t \in Threads, NEW label \in Labels,
           ~Refreshing(t), Goto(t, label), UNCHANGED <<back, inUpdate>>,
           label \in {"idle", "off", "redraw", "clear", "stop", "watch", "spawn", "peek",
                     "wait", "ticked", "retry"}
             \/ (label = "enter" /\ back[t] # "redraw")
    PROVE  Exclusion'
<1>1. back[t] \in Continuations /\ back' = [back EXCEPT ![t] = back[t]]
    BY DEF Exclusion, Control
<1>2. t \in Watches => back[t] = "ticked"
    BY DEF Exclusion, Control
<1> QED
    BY <1>1, <1>2, Outside DEF Goto

LEMMA UpdaterStepExclusion ==
    ASSUME Exclusion, NEW w \in Watches, UpdaterStep(w) PROVE Exclusion'
<1> w \in Threads
    BY DEF Threads
<1> USE DEF Labels, Sections, Refreshing
<1>1. CASE RefreshStep(w)
    BY <1>1, RefreshStepExclusion
<1>2. CASE Tick(w)
    BY <1>2, Elsewhere DEF Tick, Exclusion, Control
<1>3. CASE Done(w)
    BY <1>3, Elsewhere DEF Done
<1>4. CASE Ticked(w)
    BY <1>4, Elsewhere DEF Ticked
<1>5. CASE Retry(w)
    BY <1>5, Elsewhere DEF Retry, Exclusion, Control
<1>6. CASE GiveUp(w)
    BY <1>6, Elsewhere DEF GiveUp
<1> QED
    BY <1>1, <1>2, <1>3, <1>4, <1>5, <1>6 DEF UpdaterStep

LEMMA WatchSpawnsExclusion ==
    ASSUME IInv, WatchSpawns PROVE Exclusion'
<1> UI \in Threads /\ UI \notin Watches /\ Watches \subseteq Threads
    BY TableAssumption DEF Threads
<1>1. cancelFn \in Watches /\ pc[cancelFn] = "off"
    BY DEF IInv, Spawning, WatchSpawns
<1>2. Control'
    BY <1>1 DEF IInv, Exclusion, Control, WatchSpawns, Labels
<1>3. \A t \in Threads : Refreshing(t)' <=> Refreshing(t)
    BY <1>1 DEF IInv, Exclusion, Control, WatchSpawns, Refreshing, Sections
<1> QED
    BY <1>2, <1>3 DEF IInv, Exclusion, RefreshIsExclusive, WatchSpawns

LEMMA UIStepExclusion ==
    ASSUME IInv, UIStep PROVE Exclusion'
<1> UI \in Threads /\ UI \notin Watches
    BY TableAssumption DEF Threads
<1> USE DEF Labels, Sections, Refreshing, IInv
<1>1. CASE RefreshStep(UI)
    BY <1>1, RefreshStepExclusion
<1>2. CASE Clear
    BY <1>2, Elsewhere DEF Clear
<1>3. CASE StopBrowser
  <2>1. back[UI] \in Continuations
      BY DEF Exclusion, Control
  <2> QED
      BY <1>3, <2>1, Elsewhere DEF StopBrowser, Continuations
<1>4. CASE WatchSpawns
    BY <1>4, WatchSpawnsExclusion
<1>5. CASE FilterPeeks
  <2>1. CASE selector = Everything
      BY <1>5, <2>1, Elsewhere DEF FilterPeeks
  <2>2. CASE selector # Everything
      BY <1>5, <2>2, Outside DEF FilterPeeks, Goto, Continuations
  <2> QED
      BY <2>1, <2>2
<1>6. CASE Redraw
    BY <1>6, Elsewhere DEF Redraw
<1>7. ASSUME NEW w \in Watches, WatchBegins(w) PROVE Exclusion'
    BY <1>7, Outside DEF WatchBegins, Goto, Continuations
<1> QED
    BY <1>1, <1>2, <1>3, <1>4, <1>5, <1>6, <1>7 DEF UIStep

LEMMA UserStepExclusion ==
    ASSUME IInv, UserStep PROVE Exclusion'
<1> UI \in Threads /\ UI \notin Watches
    BY TableAssumption DEF Threads
<1> USE DEF Labels, Sections, Refreshing, Goto, Command, Continuations, IInv
<1>1. ASSUME NEW n \in Namespaces, SwitchNamespace(n) PROVE Exclusion'
    BY <1>1, Outside DEF SwitchNamespace
<1>2. CASE StartBrowser
    BY <1>2, Outside DEF StartBrowser
<1>3. CASE LeaveBrowser
    BY <1>3, Outside DEF LeaveBrowser
<1>4. ASSUME NEW s \in Selectors, ApplyFilter(s) PROVE Exclusion'
    BY <1>4, Outside DEF ApplyFilter
<1>5. CASE ReloadViews
    BY <1>5, Outside DEF ReloadViews
<1> QED
    BY <1>1, <1>2, <1>3, <1>4, <1>5 DEF UserStep

(* What leaves every thread where it is.                                   *)
LEMMA StandsStill ==
    ASSUME IInv, UNCHANGED <<pc, back, inUpdate, cancelFn>> PROVE IInv'
BY DEF IInv, Exclusion, Control, RefreshIsExclusive, Refreshing, Spawning

(* Whatever a thread does in refresh leaves an updater that has not        *)
(* started where it is.                                                    *)
LEMMA RefreshStepSpawning ==
    ASSUME IInv, NEW t \in Threads, RefreshStep(t) PROVE Spawning'
<1>1. pc[t] \in Sections \union {"enter"} /\ UNCHANGED <<back, cancelFn>>
    BY DEF RefreshStep, Enter, List, ListFails, ReadEmpty, Update, Delete, ReadNamespace,
           SetHeader, CheckHeader, Fire, Release, Sections, browserVars
<1>2. \E label \in Sections \union {"redraw", back[t]} : pc' = [pc EXCEPT ![t] = label]
    BY DEF RefreshStep, Enter, List, ListFails, ReadEmpty, Update, Delete, ReadNamespace,
           SetHeader, CheckHeader, Fire, Release, Reconciled, Goto, Sections
<1>3. UI \in Threads
    BY DEF Threads
<1>4. /\ "off" \notin Sections /\ "off" # "enter" /\ "spawn" \notin Sections
      /\ {"clear", "stop"} \intersect (Sections \union {"redraw"} \union Continuations) = {}
    BY DEF Sections, Continuations
<1> QED
    BY <1>1, <1>2, <1>3, <1>4 DEF IInv, Exclusion, Control, Spawning, Threads

LEMMA StepSpawning ==
    ASSUME IInv, Next PROVE Spawning'
<1> UI \in Threads /\ UI \notin Watches /\ Watches \subseteq Threads
    BY TableAssumption DEF Threads
<1> USE DEF IInv, Exclusion, Control, Spawning, Sections, Goto, browserVars, threadVars
<1>1. ASSUME NEW w \in Watches, UpdaterStep(w) PROVE Spawning'
  <2>1. CASE RefreshStep(w)
      BY <2>1, RefreshStepSpawning
  <2>2. CASE Tick(w) \/ Done(w) \/ Ticked(w) \/ Retry(w) \/ GiveUp(w)
      BY <2>2 DEF Tick, Done, Ticked, Retry, GiveUp
  <2> QED
      BY <1>1, <2>1, <2>2 DEF UpdaterStep
<1>2. CASE UIStep
  <2>1. CASE RefreshStep(UI)
      BY <2>1, RefreshStepSpawning
  <2>2. CASE Clear \/ FilterPeeks \/ Redraw
      BY <2>2 DEF Clear, FilterPeeks, Redraw
  <2>3. CASE StopBrowser
      BY <2>3 DEF StopBrowser, Continuations
  <2>4. CASE WatchSpawns
      BY <2>4 DEF WatchSpawns
  <2>5. ASSUME NEW w \in Watches, WatchBegins(w) PROVE Spawning'
      BY <2>5 DEF WatchBegins
  <2> QED
      BY <1>2, <2>1, <2>2, <2>3, <2>4, <2>5 DEF UIStep
<1>3. CASE UserStep
  <2> USE DEF Command
  <2>1. ASSUME NEW n \in Namespaces, SwitchNamespace(n) PROVE Spawning'
      BY <2>1 DEF SwitchNamespace
  <2>2. CASE StartBrowser \/ LeaveBrowser \/ ReloadViews
      BY <2>2 DEF StartBrowser, LeaveBrowser, ReloadViews
  <2>3. ASSUME NEW s \in Selectors, ApplyFilter(s) PROVE Spawning'
      BY <2>3 DEF ApplyFilter
  <2> QED
      BY <1>3, <2>1, <2>2, <2>3 DEF UserStep
<1>4. CASE DrawStep \/ Syncs \/ \E id \in Ids, value \in Values \union {Absent} : ClusterChanges(id, value)
    BY <1>4, StandsStill DEF DrawStep, Draw, Syncs, InformerSyncs, ClusterChanges
<1> QED
    BY <1>1, <1>2, <1>3, <1>4 DEF Next

LEMMA StepIInv ==
    ASSUME IInv, [Next]_vars PROVE IInv'
<1>1. CASE Next
  <2>1. Spawning'
      BY <1>1, StepSpawning
  <2>2. CASE \E w \in Watches : UpdaterStep(w)
      BY <2>1, <2>2, UpdaterStepExclusion DEF IInv
  <2>3. CASE UIStep
      BY <2>1, <2>3, UIStepExclusion DEF IInv
  <2>4. CASE UserStep
      BY <2>1, <2>4, UserStepExclusion DEF IInv
  <2>5. CASE DrawStep \/ Syncs \/ \E id \in Ids, value \in Values \union {Absent} : ClusterChanges(id, value)
      BY <2>5, StandsStill DEF DrawStep, Draw, Syncs, InformerSyncs, ClusterChanges, browserVars,
                               threadVars
  <2> QED
      BY <1>1, <2>2, <2>3, <2>4, <2>5 DEF Next
<1>2. CASE UNCHANGED vars
    BY <1>2, StandsStill DEF vars, browserVars, threadVars
<1> QED
    BY <1>1, <1>2

LEMMA InitIInv == Init => IInv
<1>1. Init => Spawning
    BY TableAssumption DEF Init, Spawning, Sections, Threads
<1> QED
    BY <1>1, InitExclusion DEF IInv

(* One thread at most is in refresh, and inUpdate tells, for any number of *)
(* watches.                                                                *)
THEOREM TableRefreshIsExclusive == Spec => []RefreshIsExclusive
<1>1. Init => IInv
    BY InitIInv
<1>2. IInv /\ [Next]_vars => IInv'
    BY StepIInv
<1>3. IInv => RefreshIsExclusive
    BY DEF IInv, Exclusion
<1> QED
    BY <1>1, <1>2, <1>3, PTL DEF Spec

-----------------------------------------------------------------------------
(* Types.  The namespace that SetHeader assigns was read from the table.   *)
Jobs == [listing : Seq(Row), empty : BOOLEAN, ns : Namespaces \union {None}, failed : BOOLEAN]

JobTypes ==
    /\ job \in [Threads -> Jobs]
    /\ \A t \in Threads : pc[t] = "setheader" => job[t].ns \in Namespaces

Types == TypeOK /\ JobTypes

TypeIInv == IInv /\ Types

LEMMA NoJobIsJob == NoJob \in Jobs /\ \A b \in BOOLEAN : [NoJob EXCEPT !.failed = b] \in Jobs
<1>1. <<>> \in Seq(Row)
    OBVIOUS
<1>2. NoJob \in Jobs
    BY <1>1 DEF Jobs, NoJob
<1> QED
    BY <1>2 DEF Jobs

LEMMA InitTypes == Init => Types
<1> SUFFICES ASSUME Init PROVE Types
    OBVIOUS
<1> USE DEF Init
<1>1. Control
    BY InitExclusion DEF Exclusion
<1>2. rows.events \in Seq(Event)
    BY BlankIsIndexed DEF Indexed
<1>3. /\ cluster \in [Ids -> Values \union {Absent}]
      /\ changes \in 0..MaxWorld /\ errors \in 0..MaxErrors
      /\ commands \in 0..MaxCommands /\ reloads \in 0..MaxReloads
    BY TableAssumption
<1>4. header \in BOOLEAN /\ inUpdate \in BOOLEAN /\ listening \in BOOLEAN /\ firstView \in BOOLEAN /\ told \in BOOLEAN
    OBVIOUS
<1>5. /\ ns \in Namespaces /\ selector \in Selectors
      /\ cancelFn \in Watches \union {None} /\ cancelled \subseteq Watches /\ synced \subseteq Namespaces
      /\ \A picture \in draws : picture.ns \in Namespaces
    BY TableAssumption
<1>6. TypeOK
    BY <1>1, <1>2, <1>3, <1>4, <1>5 DEF TypeOK
<1>7. JobTypes
    BY NoJobIsJob DEF JobTypes
<1> QED
    BY <1>6, <1>7 DEF Types

(* What a step does to the job of one thread.                              *)
LEMMA JobStep ==
    ASSUME Types, NEW t \in Threads, NEW label, NEW j \in Jobs,
           Goto(t, label), job' = [job EXCEPT ![t] = j],
           label = "setheader" => j.ns \in Namespaces
    PROVE  JobTypes'
BY DEF Types, TypeOK, Control, JobTypes, Goto

LEMMA JobKept ==
    ASSUME Types, NEW t \in Threads, NEW label, Goto(t, label), label # "setheader", UNCHANGED job
    PROVE  JobTypes'
BY DEF Types, TypeOK, Control, JobTypes, Goto

LEMMA JobStands == ASSUME Types, UNCHANGED <<pc, job>> PROVE JobTypes'
BY DEF Types, JobTypes

(* The variables no step of refresh touches.                               *)
LEMMA RefreshStepTypes ==
    ASSUME TypeIInv, NEW t \in Threads, RefreshStep(t), Control' PROVE Types'
<1> USE DEF TypeIInv, Types, dataVars, browserVars, threadVars, screenVars, worldVars
<1>1. CASE Enter(t)
  <2>1. JobTypes'
    <3>1. (IF inUpdate THEN back[t] ELSE "list") # "setheader"
        BY DEF TypeOK, Control, Continuations
    <3> QED
        BY <1>1, <3>1, JobStep, NoJobIsJob DEF Enter
  <2> QED
      BY <1>1, <2>1 DEF Enter, TypeOK
<1>2. CASE List(t)
  <2>1. Listing(ns, selector) \in Seq(Row)
      BY ListingIsDistinct DEF TypeOK
  <2>2. [job[t] EXCEPT !.listing = Listing(ns, selector)] \in Jobs
      BY <2>1 DEF JobTypes, Jobs
  <2>3. job' = [job EXCEPT ![t] = [job[t] EXCEPT !.listing = Listing(ns, selector)]]
      BY <1>2 DEF List
  <2>4. JobTypes'
      BY <1>2, <2>2, <2>3, JobStep DEF List
  <2> QED
      BY <1>2, <2>4 DEF List, TypeOK
<1>3. CASE ListFails(t)
  <2>1. [job[t] EXCEPT !.failed = TRUE] \in Jobs
      BY DEF JobTypes, Jobs
  <2>2. job' = [job EXCEPT ![t] = [job[t] EXCEPT !.failed = TRUE]]
      BY <1>3 DEF ListFails
  <2>3. JobTypes'
      BY <1>3, <2>1, <2>2, JobStep DEF ListFails, Reconciled
  <2>4. errors' \in 0..MaxErrors
      BY <1>3, TableAssumption DEF ListFails, TypeOK
  <2> QED
      BY <1>3, <2>3, <2>4 DEF ListFails, TypeOK
<1>4. CASE ReadEmpty(t)
  <2>1. [job[t] EXCEPT !.empty = Empty(rows)] \in Jobs
      BY DEF JobTypes, Jobs, Empty
  <2>2. job' = [job EXCEPT ![t] = [job[t] EXCEPT !.empty = Empty(rows)]]
      BY <1>4 DEF ReadEmpty
  <2>3. JobTypes'
      BY <1>4, <2>1, <2>2, JobStep DEF ReadEmpty
  <2> QED
      BY <1>4, <2>3 DEF ReadEmpty, TypeOK
<1>5. CASE Update(t)
  <2>1. rows'.events \in Seq(Event)
    <3>1. job[t].listing \in Seq(Row) /\ rows.events \in Seq(Event)
        BY DEF JobTypes, Jobs, TypeOK
    <3> QED
        BY <1>5, <3>1, UpdateLeavesEvents DEF Update
  <2>2. JobTypes'
      BY <1>5, JobKept DEF Update
  <2> QED
      BY <1>5, <2>1, <2>2 DEF Update, TypeOK
<1>6. CASE Delete(t)
  <2>1. rows'.events \in Seq(Event)
      BY <1>6, DeleteLeavesEvents DEF Delete, TypeOK
  <2>2. JobTypes'
      BY <1>6, JobKept DEF Delete
  <2> QED
      BY <1>6, <2>1, <2>2 DEF Delete, TypeOK
<1>7. CASE ReadNamespace(t)
  <2>1. [job[t] EXCEPT !.ns = ns] \in Jobs /\ [job[t] EXCEPT !.ns = ns].ns \in Namespaces
      BY DEF JobTypes, Jobs, TypeOK
  <2>2. job' = [job EXCEPT ![t] = [job[t] EXCEPT !.ns = ns]]
      BY <1>7 DEF ReadNamespace
  <2>3. JobTypes'
      BY <1>7, <2>1, <2>2, JobStep DEF ReadNamespace
  <2> QED
      BY <1>7, <2>3 DEF ReadNamespace, TypeOK
<1>8. CASE SetHeader(t)
  <2>1. JobTypes'
      BY <1>8, JobKept DEF SetHeader
  <2>2. ns' \in Namespaces
      BY <1>8 DEF SetHeader, JobTypes
  <2> QED
      BY <1>8, <2>1, <2>2 DEF SetHeader, TypeOK
<1>9. CASE CheckHeader(t)
  <2>1. [NoJob EXCEPT !.failed = ~header] \in Jobs
      BY NoJobIsJob DEF TypeOK
  <2>2. JobTypes'
      BY <1>9, <2>1, JobStep DEF CheckHeader, Reconciled
  <2> QED
      BY <1>9, <2>2 DEF CheckHeader, TypeOK
<1>10. CASE Fire(t)
  <2>1. Picture(ns, rows).ns = ns
      BY DEF Picture
  <2>2. \A picture \in draws' : picture.ns \in Namespaces
      BY <1>10, <2>1 DEF Fire, TypeOK
  <2>3. firstView' \in BOOLEAN
      BY <1>10 DEF Fire, TypeOK
  <2>4. JobTypes'
      BY <1>10, JobKept DEF Fire
  <2> QED
      BY <1>10, <2>2, <2>3, <2>4 DEF Fire, TypeOK
<1>11. CASE Release(t)
  <2>1. back[t] # "setheader"
      BY DEF TypeOK, Control, Continuations
  <2>2. JobTypes'
      BY <1>11, <2>1, JobKept DEF Release
  <2> QED
      BY <1>11, <2>2 DEF Release, TypeOK
<1> QED
    BY <1>1, <1>2, <1>3, <1>4, <1>5, <1>6, <1>7, <1>8, <1>9, <1>10, <1>11 DEF RefreshStep

LEMMA UpdaterStepTypes ==
    ASSUME TypeIInv, NEW w \in Watches, UpdaterStep(w), Control' PROVE Types'
<1> w \in Threads
    BY DEF Threads
<1> USE DEF TypeIInv, Types, dataVars, browserVars, threadVars, screenVars, worldVars
<1>1. CASE RefreshStep(w)
    BY <1>1, RefreshStepTypes
<1>2. CASE Tick(w)
    BY <1>2, JobKept DEF Tick, TypeOK
<1>3. CASE Done(w)
    BY <1>3, JobKept DEF Done, TypeOK
<1>4. CASE Ticked(w)
    BY <1>4, JobStep, NoJobIsJob DEF Ticked, TypeOK
<1>5. CASE Retry(w)
    BY <1>5, JobKept DEF Retry, TypeOK
<1>6. CASE GiveUp(w)
  <2>1. JobTypes'
      BY <1>6, JobKept DEF GiveUp
  <2>2. told' \in BOOLEAN
      BY <1>6 DEF GiveUp, TypeOK
  <2> QED
      BY <1>6, <2>1, <2>2 DEF GiveUp, TypeOK
<1> QED
    BY <1>1, <1>2, <1>3, <1>4, <1>5, <1>6 DEF UpdaterStep

LEMMA UIStepTypes ==
    ASSUME TypeIInv, UIStep, Control' PROVE Types'
<1> UI \in Threads /\ UI \notin Watches
    BY TableAssumption DEF Threads
<1> USE DEF TypeIInv, Types, dataVars, browserVars, threadVars, screenVars, worldVars
<1>1. CASE RefreshStep(UI)
    BY <1>1, RefreshStepTypes
<1>2. CASE Clear
  <2>1. rows'.events \in Seq(Event)
      BY <1>2, BlankIsIndexed DEF Clear, Indexed
  <2>2. JobTypes'
      BY <1>2, JobKept DEF Clear
  <2> QED
      BY <1>2, <2>1, <2>2 DEF Clear, TypeOK
<1>3. CASE StopBrowser
  <2>1. back[UI] # "setheader"
      BY DEF TypeOK, Control, Continuations
  <2>2. JobTypes'
      BY <1>3, <2>1, JobKept DEF StopBrowser
  <2> QED
      BY <1>3, <2>2 DEF StopBrowser, TypeOK
<1>4. CASE WatchSpawns
  <2>1. \A t \in Threads : pc'[t] = "setheader" => pc[t] = "setheader" /\ t # UI
      BY <1>4 DEF WatchSpawns, TypeOK, Control
  <2>2. job' = [job EXCEPT ![UI] = NoJob]
      BY <1>4 DEF WatchSpawns
  <2>3. JobTypes'
      BY <2>1, <2>2, NoJobIsJob DEF JobTypes
  <2>4. told' \in BOOLEAN
      BY <1>4 DEF WatchSpawns, TypeOK, JobTypes, Jobs
  <2> QED
      BY <1>4, <2>3, <2>4 DEF WatchSpawns, TypeOK
<1>5. CASE FilterPeeks
  <2>1. \A picture \in draws' : picture.ns \in Namespaces
      BY <1>5 DEF FilterPeeks, Picture, TypeOK
  <2>2. JobTypes'
      BY <1>5, JobStep, NoJobIsJob DEF FilterPeeks
  <2> QED
      BY <1>5, <2>1, <2>2 DEF FilterPeeks, TypeOK
<1>6. CASE Redraw
    BY <1>6, JobKept DEF Redraw, TypeOK
<1>7. ASSUME NEW w \in Watches, WatchBegins(w) PROVE Types'
  <2>1. JobTypes'
      BY <1>7, JobKept DEF WatchBegins
  <2> QED
      BY <1>7, <2>1 DEF WatchBegins, TypeOK
<1> QED
    BY <1>1, <1>2, <1>3, <1>4, <1>5, <1>6, <1>7 DEF UIStep

LEMMA OtherStepTypes ==
    ASSUME TypeIInv, Control',
           \/ UserStep \/ DrawStep \/ Syncs
           \/ \E id \in Ids, value \in Values \union {Absent} : ClusterChanges(id, value)
    PROVE  Types'
<1> UI \in Threads
    BY DEF Threads
<1> USE DEF TypeIInv, Types, dataVars, browserVars, threadVars, screenVars, worldVars
<1>1. CASE UserStep
  <2>1. ASSUME Command PROVE commands' \in 0..MaxCommands
      BY <2>1, TableAssumption DEF Command, TypeOK
  <2>2. ASSUME NEW n \in Namespaces, SwitchNamespace(n) PROVE Types'
    <3>1. JobTypes'
        BY <2>2, JobKept DEF SwitchNamespace
    <3> QED
        BY <2>1, <2>2, <3>1 DEF SwitchNamespace, TypeOK
  <2>3. CASE StartBrowser
    <3>1. JobTypes'
        BY <2>3, JobKept DEF StartBrowser
    <3> QED
        BY <2>1, <2>3, <3>1 DEF StartBrowser, TypeOK
  <2>4. CASE LeaveBrowser
    <3>1. JobTypes'
        BY <2>4, JobKept DEF LeaveBrowser
    <3> QED
        BY <2>1, <2>4, <3>1 DEF LeaveBrowser, TypeOK
  <2>5. ASSUME NEW s \in Selectors, ApplyFilter(s) PROVE Types'
    <3>1. JobTypes'
        BY <2>5, JobKept DEF ApplyFilter
    <3> QED
        BY <2>1, <2>5, <3>1 DEF ApplyFilter, TypeOK
  <2>6. CASE ReloadViews
    <3>1. JobTypes'
        BY <2>6, JobStep, NoJobIsJob DEF ReloadViews
    <3>2. reloads' \in 0..MaxReloads
        BY <2>6, TableAssumption DEF ReloadViews, TypeOK
    <3> QED
        BY <2>6, <3>1, <3>2 DEF ReloadViews, TypeOK
  <2> QED
      BY <1>1, <2>2, <2>3, <2>4, <2>5, <2>6 DEF UserStep
<1>2. CASE DrawStep
  <2>1. PICK picture \in draws : Draw(picture)
      BY <1>2 DEF DrawStep
  <2>2. JobTypes'
      BY <2>1, JobStands DEF Draw
  <2> QED
      BY <2>1, <2>2 DEF Draw, TypeOK
<1>3. CASE Syncs
  <2>1. PICK n \in Namespaces : InformerSyncs(n)
      BY <1>3 DEF Syncs
  <2>2. JobTypes'
      BY <2>1, JobStands DEF InformerSyncs
  <2> QED
      BY <2>1, <2>2 DEF InformerSyncs, TypeOK
<1>4. ASSUME NEW id \in Ids, NEW value \in Values \union {Absent}, ClusterChanges(id, value) PROVE Types'
  <2>1. JobTypes'
      BY <1>4, JobStands DEF ClusterChanges
  <2>2. changes' \in 0..MaxWorld /\ cluster' \in [Ids -> Values \union {Absent}]
      BY <1>4, TableAssumption DEF ClusterChanges, TypeOK
  <2> QED
      BY <1>4, <2>1, <2>2 DEF ClusterChanges, TypeOK
<1> QED
    BY <1>1, <1>2, <1>3, <1>4

LEMMA StepTypeIInv ==
    ASSUME TypeIInv, [Next]_vars PROVE TypeIInv'
<1>1. IInv' /\ Control'
    BY StepIInv DEF TypeIInv, IInv, Exclusion
<1>2. CASE Next
    BY <1>1, <1>2, UpdaterStepTypes, UIStepTypes, OtherStepTypes DEF Next, TypeIInv
<1>3. CASE UNCHANGED vars
    BY <1>1, <1>3, JobStands DEF vars, dataVars, browserVars, threadVars, screenVars, worldVars,
        TypeIInv, Types, TypeOK
<1> QED
    BY <1>2, <1>3

(* Every variable of the table and its browser keeps its type.             *)
THEOREM TableTypesOK == Spec => []TypeOK
<1>1. Init => TypeIInv
  <2>1. Init => IInv
      BY InitIInv
  <2> QED
      BY <2>1, InitTypes DEF TypeIInv
<1>2. TypeIInv /\ [Next]_vars => TypeIInv'
    BY StepTypeIInv
<1>3. TypeIInv => TypeOK
    BY DEF TypeIInv, Types
<1> QED
    BY <1>1, <1>2, <1>3, PTL DEF Spec

-----------------------------------------------------------------------------
(* The merge.  As long as the view settings do not change, only refresh    *)
(* writes rows, one thread at a time, and others clear them at most: what  *)
(* Update and Delete are given still holds when they take the lock.        *)
Merging == {"empty", "update", "delete", "header", "setheader", "check"}

MergeOf(t) ==
    /\ pc[t] \in Merging => Distinct(job[t].listing)
    /\ pc[t] = "update" /\ job[t].empty => Empty(rows)
    /\ pc[t] = "delete" => Empty(rows) \/ Lists(rows, job[t].listing)
    /\ pc[t] \in {"header", "setheader", "check"} =>
         \/ Empty(rows)
         \/ Lists(rows, job[t].listing) /\ ListsOnly(rows, Keys(job[t].listing))

Merge ==
    /\ \A t \in Threads : back[t] # "redraw"
    /\ Indexed(rows)
    /\ \A t \in Threads : MergeOf(t)

MergeIInv == TypeIInv /\ Merge

(* Threads that do not come nearer to the end of a merge, while the rows   *)
(* stay or are cleared.                                                    *)
LEMMA MergeStands ==
    ASSUME Merge, rows' \in {rows, Blank},
           \A t \in Threads : back'[t] # "redraw",
           \A t \in Threads : pc'[t] \in Merging => pc'[t] = pc[t] /\ job'[t] = job[t]
    PROVE  Merge'
<1>1. Indexed(rows')
    BY BlankIsIndexed DEF Merge
<1>2. Empty(rows) => Empty(rows')
    BY BlankIsIndexed
<1>3. rows' # rows => Empty(rows')
    BY BlankIsIndexed
<1>4. ASSUME NEW t \in Threads PROVE MergeOf(t)'
  <2>1. CASE pc'[t] \notin Merging
      BY <2>1 DEF MergeOf, Merging
  <2>2. CASE pc'[t] \in Merging
    <3>1. pc'[t] = pc[t] /\ job'[t] = job[t] /\ MergeOf(t)
        BY <2>2 DEF Merge
    <3>2. CASE rows' = rows
        BY <3>1, <3>2 DEF MergeOf
    <3>3. CASE Empty(rows')
        BY <3>1, <3>3 DEF MergeOf
    <3> QED
        BY <1>3, <3>2, <3>3
  <2> QED
      BY <2>1, <2>2
<1> QED
    BY <1>1, <1>4 DEF Merge

(* Who steps inside refresh is alone there.                                *)
LEMMA MergesAlone ==
    ASSUME MergeIInv, NEW t \in Threads, pc[t] \in Sections, NEW u \in Threads, u # t
    PROVE  pc[u] \notin Merging
BY DEF MergeIInv, TypeIInv, IInv, Exclusion, RefreshIsExclusive, Refreshing, Merge, Merging,
       Sections

LEMMA MergeMovesOn ==
    ASSUME MergeIInv, NEW t \in Threads, pc[t] \in Sections,
           NEW label, Goto(t, label), UNCHANGED back,
           Indexed(rows'), MergeOf(t)'
    PROVE  Merge'
<1>1. ASSUME NEW u \in Threads, u # t PROVE MergeOf(u)'
  <2>1. pc'[u] \notin Merging
      BY <1>1, MergesAlone DEF Goto, MergeIInv, TypeIInv, Types, TypeOK, Control
  <2> QED
      BY <2>1 DEF MergeOf, Merging
<1> QED
    BY <1>1 DEF MergeIInv, Merge

LEMMA MergeLeaves ==
    ASSUME MergeIInv, NEW t \in Threads, NEW label, Goto(t, label), label \notin Merging,
           rows' \in {rows, Blank}, \A u \in Threads : back'[u] # "redraw",
           \A u \in Threads : u # t => job'[u] = job[u]
    PROVE  Merge'
<1>1. \A u \in Threads : pc'[u] \in Merging => u # t /\ pc'[u] = pc[u]
    BY DEF Goto, MergeIInv, TypeIInv, Types, TypeOK, Control
<1> QED
    BY <1>1, MergeStands DEF MergeIInv

LEMMA RefreshStepMerge ==
    ASSUME MergeIInv, NEW t \in Threads, RefreshStep(t) PROVE Merge'
<1>1. Merge /\ Types /\ pc \in [Threads -> Labels] /\ back \in [Threads -> Continuations]
    BY DEF MergeIInv, TypeIInv, Types, TypeOK, Control
<1>2. job \in [Threads -> Jobs] /\ job[t].listing \in Seq(Row) /\ job[t].empty \in BOOLEAN
    BY <1>1 DEF Types, JobTypes, Jobs
<1>3. Indexed(rows) /\ MergeOf(t) /\ \A u \in Threads : back[u] # "redraw"
    BY <1>1 DEF Merge
<1> USE DEF dataVars
<1>4. CASE Enter(t)
  <2>1. back[t] \notin Merging
      BY <1>1 DEF Continuations, Merging
  <2> QED
      BY <1>2, <1>3, <1>4, <2>1, MergeLeaves DEF Enter, Merging
<1>5. CASE List(t)
  <2>1. job'[t].listing = Listing(ns, selector) /\ pc'[t] = "empty" /\ rows' = rows
      BY <1>1, <1>2, <1>5 DEF List, Goto
  <2>2. Distinct(Listing(ns, selector))
      BY <1>1, ListingIsDistinct DEF Types, TypeOK
  <2>3. MergeOf(t)'
      BY <2>1, <2>2 DEF MergeOf
  <2> QED
      BY <1>3, <1>5, <2>1, <2>3, MergeMovesOn DEF List, Sections
<1>6. CASE ListFails(t)
    BY <1>2, <1>3, <1>6, MergeLeaves DEF ListFails, Reconciled, Merging
<1>7. CASE ReadEmpty(t)
  <2>1. /\ job'[t].listing = job[t].listing /\ job'[t].empty = Empty(rows)
        /\ pc'[t] = "update" /\ rows' = rows
      BY <1>1, <1>2, <1>7 DEF ReadEmpty, Goto
  <2>2. Distinct(job[t].listing)
      BY <1>3, <1>7 DEF MergeOf, Merging, ReadEmpty
  <2>3. MergeOf(t)'
      BY <2>1, <2>2 DEF MergeOf
  <2> QED
      BY <1>3, <1>7, <2>1, <2>3, MergeMovesOn DEF ReadEmpty, Sections
<1>8. CASE Update(t)
  <2>1. /\ job'[t] = job[t] /\ rows' = UpdateRows(rows, job[t].listing, job[t].empty)
        /\ pc'[t] = IF job[t].empty THEN "header" ELSE "delete"
      BY <1>1, <1>8 DEF Update, Goto
  <2>2. Distinct(job[t].listing) /\ (job[t].empty => Empty(rows))
      BY <1>3, <1>8 DEF MergeOf, Merging, Update
  <2>3. /\ Indexed(rows')
        /\ Lists(rows', job[t].listing)
        /\ job[t].empty => ListsOnly(rows', Keys(job[t].listing))
      BY <1>2, <1>3, <2>1, <2>2, UpdateListsAll
  <2>4. MergeOf(t)'
      BY <2>1, <2>2, <2>3 DEF MergeOf
  <2> QED
      BY <1>8, <2>3, <2>4, MergeMovesOn DEF Update, Sections
<1>9. CASE Delete(t)
  <2>1. job'[t] = job[t] /\ rows' = DeleteRows(rows, Keys(job[t].listing)) /\ pc'[t] = "header"
      BY <1>1, <1>9 DEF Delete, Goto
  <2>2. Distinct(job[t].listing) /\ (Empty(rows) \/ Lists(rows, job[t].listing))
      BY <1>3, <1>9 DEF MergeOf, Merging, Delete
  <2>3. /\ Indexed(rows')
        /\ ListsOnly(rows', Keys(job[t].listing))
        /\ \A row : Holds(rows, row) /\ row.id \in Keys(job[t].listing) => Holds(rows', row)
      BY <1>3, <2>1, DeleteKeepsListed
  <2>4. Lists(rows, job[t].listing) => Lists(rows', job[t].listing)
    <3>1. \A i \in DOMAIN job[t].listing : job[t].listing[i].id \in Keys(job[t].listing)
        BY DEF Keys
    <3> QED
        BY <2>3, <3>1 DEF Lists
  <2>5. ASSUME Empty(rows) PROVE Empty(rows')
    <3>1. DOMAIN rows.index = {}
        BY <1>3, <2>5, EmptyHasNoIndex
    <3> QED
        BY <2>1, <2>5, <3>1 DEF DeleteRows, DeleteBatch
  <2>6. MergeOf(t)'
      BY <2>1, <2>2, <2>3, <2>4, <2>5 DEF MergeOf
  <2> QED
      BY <1>9, <2>3, <2>6, MergeMovesOn DEF Delete, Sections
<1>10. CASE ReadNamespace(t)
  <2>1. /\ job'[t].listing = job[t].listing /\ rows' = rows /\ pc'[t] = "setheader"
      BY <1>1, <1>2, <1>10 DEF ReadNamespace, Goto
  <2>2. /\ Distinct(job[t].listing)
        /\ Empty(rows) \/ (Lists(rows, job[t].listing) /\ ListsOnly(rows, Keys(job[t].listing)))
      BY <1>3, <1>10 DEF MergeOf, Merging, ReadNamespace
  <2>3. MergeOf(t)'
      BY <2>1, <2>2 DEF MergeOf
  <2> QED
      BY <1>3, <1>10, <2>1, <2>3, MergeMovesOn DEF ReadNamespace, Sections
<1>11. CASE SetHeader(t)
  <2>1. job'[t] = job[t] /\ rows' = rows /\ pc'[t] = "check"
      BY <1>1, <1>11 DEF SetHeader, Goto
  <2>2. /\ Distinct(job[t].listing)
        /\ Empty(rows) \/ (Lists(rows, job[t].listing) /\ ListsOnly(rows, Keys(job[t].listing)))
      BY <1>3, <1>11 DEF MergeOf, Merging, SetHeader
  <2>3. MergeOf(t)'
      BY <2>1, <2>2 DEF MergeOf
  <2> QED
      BY <1>3, <1>11, <2>1, <2>3, MergeMovesOn DEF SetHeader, Sections
<1>12. CASE CheckHeader(t)
    BY <1>2, <1>3, <1>12, MergeLeaves DEF CheckHeader, Reconciled, Merging
<1>13. CASE Fire(t)
    BY <1>2, <1>3, <1>13, MergeLeaves DEF Fire, Merging
<1>14. CASE Release(t)
  <2>1. back[t] \notin Merging
      BY <1>1 DEF Continuations, Merging
  <2> QED
      BY <1>2, <1>3, <1>14, <2>1, MergeLeaves DEF Release
<1> QED
    BY <1>4, <1>5, <1>6, <1>7, <1>8, <1>9, <1>10, <1>11, <1>12, <1>13, <1>14 DEF RefreshStep

LEMMA UpdaterStepMerge ==
    ASSUME MergeIInv, NEW w \in Watches, UpdaterStep(w) PROVE Merge'
<1> w \in Threads
    BY DEF Threads
<1>1. \A u \in Threads : back[u] # "redraw"
    BY DEF MergeIInv, Merge
<1>2. job \in [Threads -> Jobs]
    BY DEF MergeIInv, TypeIInv, Types, JobTypes
<1> USE DEF dataVars, Merging
<1>3. CASE RefreshStep(w)
    BY <1>3, RefreshStepMerge
<1>4. CASE Tick(w)
    BY <1>1, <1>2, <1>4, MergeLeaves DEF Tick
<1>5. CASE Done(w)
    BY <1>1, <1>2, <1>5, MergeLeaves DEF Done
<1>6. CASE Ticked(w)
    BY <1>1, <1>2, <1>6, MergeLeaves DEF Ticked
<1>7. CASE Retry(w)
    BY <1>1, <1>2, <1>7, MergeLeaves DEF Retry
<1>8. CASE GiveUp(w)
    BY <1>1, <1>2, <1>8, MergeLeaves DEF GiveUp
<1> QED
    BY <1>3, <1>4, <1>5, <1>6, <1>7, <1>8 DEF UpdaterStep

LEMMA UIStepMerge ==
    ASSUME MergeIInv, UIStep PROVE Merge'
<1> UI \in Threads /\ UI \notin Watches
    BY TableAssumption DEF Threads
<1>1. \A u \in Threads : back[u] # "redraw"
    BY DEF MergeIInv, Merge
<1>2. job \in [Threads -> Jobs] /\ back \in [Threads -> Continuations] /\ pc \in [Threads -> Labels]
    BY DEF MergeIInv, TypeIInv, Types, TypeOK, JobTypes, Control
<1> USE DEF dataVars
<1>3. CASE RefreshStep(UI)
    BY <1>3, RefreshStepMerge
<1>4. CASE Clear
    BY <1>1, <1>2, <1>4, MergeLeaves DEF Clear, Merging
<1>5. CASE StopBrowser
  <2>1. back[UI] \notin Merging
      BY <1>2 DEF Continuations, Merging
  <2> QED
      BY <1>1, <1>2, <1>5, <2>1, MergeLeaves DEF StopBrowser
<1>6. CASE WatchSpawns
  <2>1. \A u \in Threads : pc'[u] \in Merging => pc'[u] = pc[u] /\ job'[u] = job[u]
      BY <1>2, <1>6 DEF WatchSpawns, Merging
  <2>2. rows' = rows /\ back' = back
      BY <1>6 DEF WatchSpawns
  <2> QED
      BY <1>1, <2>1, <2>2, MergeStands DEF MergeIInv
<1>7. CASE FilterPeeks
    BY <1>1, <1>2, <1>7, MergeLeaves DEF FilterPeeks, Merging
<1>8. CASE Redraw
    BY <1>1, <1>2, <1>8, MergeLeaves DEF Redraw, Merging
<1>9. ASSUME NEW w \in Watches, WatchBegins(w) PROVE Merge'
    BY <1>1, <1>2, <1>9, MergeLeaves DEF WatchBegins, Merging
<1> QED
    BY <1>3, <1>4, <1>5, <1>6, <1>7, <1>8, <1>9 DEF UIStep

LEMMA OtherStepMerge ==
    ASSUME MergeIInv, MaxReloads = 0,
           \/ UserStep \/ DrawStep \/ Syncs
           \/ \E id \in Ids, value \in Values \union {Absent} : ClusterChanges(id, value)
    PROVE  Merge'
<1> UI \in Threads
    BY DEF Threads
<1>1. \A u \in Threads : back[u] # "redraw"
    BY DEF MergeIInv, Merge
<1>2. job \in [Threads -> Jobs] /\ back \in [Threads -> Continuations] /\ reloads \in 0..MaxReloads
    BY DEF MergeIInv, TypeIInv, Types, TypeOK, JobTypes, Control
<1> USE DEF dataVars, Merging
<1>3. CASE UserStep
  <2>1. ASSUME NEW n \in Namespaces, SwitchNamespace(n) PROVE Merge'
      BY <1>1, <1>2, <2>1, MergeLeaves DEF SwitchNamespace
  <2>2. CASE StartBrowser
      BY <1>1, <1>2, <2>2, MergeLeaves DEF StartBrowser
  <2>3. CASE LeaveBrowser
      BY <1>1, <1>2, <2>3, MergeLeaves DEF LeaveBrowser
  <2>4. ASSUME NEW s \in Selectors, ApplyFilter(s) PROVE Merge'
      BY <1>1, <1>2, <2>4, MergeLeaves DEF ApplyFilter
  <2>5. ~ReloadViews
      BY <1>2 DEF ReloadViews
  <2> QED
      BY <1>3, <2>1, <2>2, <2>3, <2>4, <2>5 DEF UserStep
<1>4. CASE DrawStep \/ Syncs \/ \E id \in Ids, value \in Values \union {Absent} : ClusterChanges(id, value)
  <2>1. UNCHANGED <<rows, pc, back, job>>
      BY <1>4 DEF DrawStep, Draw, Syncs, InformerSyncs, ClusterChanges, threadVars
  <2> QED
      BY <1>1, <2>1, MergeStands DEF MergeIInv
<1> QED
    BY <1>3, <1>4

LEMMA StepMergeIInv ==
    ASSUME MergeIInv, MaxReloads = 0, [Next]_vars PROVE MergeIInv'
<1>1. TypeIInv'
    BY StepTypeIInv DEF MergeIInv
<1>2. CASE Next
    BY <1>1, <1>2, UpdaterStepMerge, UIStepMerge, OtherStepMerge DEF Next, MergeIInv
<1>3. CASE UNCHANGED vars
  <2>1. UNCHANGED <<rows, pc, back, job>>
      BY <1>3 DEF vars, dataVars, threadVars
  <2> QED
      BY <1>1, <2>1, MergeStands DEF MergeIInv, Merge
<1> QED
    BY <1>2, <1>3

LEMMA InitMergeIInv == Init => MergeIInv
<1> SUFFICES ASSUME Init PROVE MergeIInv
    OBVIOUS
<1>1. TypeIInv
    BY InitIInv, InitTypes DEF TypeIInv
<1>2. \A t \in Threads : back[t] # "redraw" /\ pc[t] \notin Merging
    BY DEF Init, Merging
<1>3. Indexed(rows)
    BY BlankIsIndexed DEF Init
<1> QED
    BY <1>1, <1>2, <1>3 DEF MergeIInv, Merge, MergeOf, Merging

LEMMA MergeSafe ==
    ASSUME MergeIInv PROVE RowsAreIndexed /\ RowsAreListed
<1>1. Indexed(rows) /\ \A t \in Threads : MergeOf(t)
    BY DEF MergeIInv, Merge
<1>2. RowsAreIndexed
    BY <1>1 DEF RowsAreIndexed, Indexed
<1>3. ASSUME NEW t \in Threads, pc[t] \in {"header", "setheader", "check"}, ~Empty(rows)
      PROVE  /\ Len(rows.events) = Len(job[t].listing)
             /\ Range(Picture(ns, rows).shown) = Range(job[t].listing)
  <2>1. /\ Distinct(job[t].listing)
        /\ Lists(rows, job[t].listing) /\ ListsOnly(rows, Keys(job[t].listing))
      BY <1>1, <1>3 DEF MergeOf, Merging
  <2>2. job[t].listing \in Seq(Row)
      BY DEF MergeIInv, TypeIInv, Types, JobTypes, Jobs
  <2> QED
      BY <1>1, <2>1, <2>2, ExactIsListed
<1> QED
    BY <1>2, <1>3 DEF RowsAreListed

(* However many refreshes, resets and restarts of the browser overlap,     *)
(* every row is where the index says and no resource has two rows.  The    *)
(* view settings stay: a reconcile of theirs does not ask inUpdate, and    *)
(* adds the rows that a refresh is about to add.                           *)
THEOREM TableRowsAreIndexed == MaxReloads = 0 => (Spec => []RowsAreIndexed)
<1> SUFFICES ASSUME MaxReloads = 0 PROVE Spec => []RowsAreIndexed
    OBVIOUS
<1>1. Init => MergeIInv
    BY InitMergeIInv
<1>2. MergeIInv /\ [Next]_vars => MergeIInv'
    BY StepMergeIInv
<1>3. MergeIInv => RowsAreIndexed
    BY MergeSafe
<1> QED
    BY <1>1, <1>2, <1>3, PTL DEF Spec

(* Until it is drawn, what a refresh merged is exactly what it listed, or  *)
(* has been cleared by a switch of the namespace.                          *)
THEOREM TableRowsAreListed == MaxReloads = 0 => (Spec => []RowsAreListed)
<1> SUFFICES ASSUME MaxReloads = 0 PROVE Spec => []RowsAreListed
    OBVIOUS
<1>1. Init => MergeIInv
    BY InitMergeIInv
<1>2. MergeIInv /\ [Next]_vars => MergeIInv'
    BY StepMergeIInv
<1>3. MergeIInv => RowsAreListed
    BY MergeSafe
<1> QED
    BY <1>1, <1>2, <1>3, PTL DEF Spec
=============================================================================
