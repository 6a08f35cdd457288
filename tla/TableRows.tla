------------------------------ MODULE TableRows ------------------------------
(***************************************************************************)
(* internal/model1/row_event.go and the row part of table_data.go: the     *)
(* rows of a resource table as values.  A table is the sequence of its row *)
(* events and the index that finds the position of a row by its id; Update *)
(* and Delete merge a listing into it.  What a row holds is one value that *)
(* a change of the resource changes.                                       *)
(***************************************************************************)
EXTENDS Naturals, Sequences, Functions, FiniteSets, SequencesExt

CONSTANTS
    Ids,
    Values,     \* what the fields of a row say
    Unset       \* the fields are blank

ASSUME RowsAssumption ==
    /\ Unset \in Values
    /\ IsFiniteSet(Ids)

Kinds == {"add", "unchanged", "update"}
Row == [id : Ids, value : Values]
Event == [id : Ids, value : Values, kind : Kinds]

Blank == [events |-> <<>>, index |-> <<>>]

Empty(table) == table.events = <<>>

EventOf(kind, row) == [id |-> row.id, value |-> row.value, kind |-> kind]

(* Plausible mistakes come before the definition they replace.             *)
ReAddPastEnd(table, event) ==
    [events |-> Append(table.events, event),
     index |-> [id \in DOMAIN table.index \union {event.id} |->
                  IF id = event.id THEN Len(table.events) + 2 ELSE table.index[id]]]

ReAdd(table, event) ==
    [events |-> Append(table.events, event),
     index |-> [id \in DOMAIN table.index \union {event.id} |->
                  IF id = event.id THEN Len(table.events) + 1 ELSE table.index[id]]]

ReSet(table, i, event) ==
    [events |-> [table.events EXCEPT ![i] = event],
     index |-> [id \in DOMAIN table.index \union {event.id} |->
                  IF id = event.id THEN i ELSE table.index[id]]]

(* reindex: writes the position of every event, the last of an id wins.    *)
Reindex(events, index) ==
    LET ids == {events[i].id : i \in DOMAIN events}
        LastOf(id) == CHOOSE i \in DOMAIN events :
                        /\ events[i].id = id
                        /\ \A j \in DOMAIN events : events[j].id = id => j <= i
    IN  [id \in DOMAIN index \union ids |->
           IF id \in ids THEN LastOf(id) ELSE index[id]]

DeleteBatchUnindexed(table, victims) ==
    LET kept == SelectSeq(table.events, LAMBDA e : e.id \notin victims)
    IN  [events |-> kept, index |-> Restrict(table.index, DOMAIN table.index \ victims)]

(* The loop that copies the events that are no victims.                    *)
Kept(events, positions) ==
    LET filtered[i \in 0..Len(events)] ==
            IF i = 0 THEN <<>>
            ELSE IF i \in positions THEN filtered[i - 1] ELSE Append(filtered[i - 1], events[i])
    IN  filtered[Len(events)]

(* DeleteBatch: each victim is one position, the one the index knows.      *)
DeleteBatch(table, victims) ==
    LET found == victims \intersect DOMAIN table.index
        index == Restrict(table.index, DOMAIN table.index \ found)
        events == Kept(table.events, {table.index[id] : id \in found})
    IN  IF found = {} THEN table
        ELSE [events |-> events, index |-> Reindex(events, index)]

(* NewDeltaRow: what was blank before does not count as a change.          *)
Delta(old, new) == old # Unset /\ old # new

(* The loop of Update on one row of the listing; empty was read before.    *)
MergeRowKeepsValue(table, row, empty) ==
    IF empty \/ row.id \notin DOMAIN table.index
    THEN ReAdd(table, EventOf("add", row))
    ELSE LET i == table.index[row.id]
             old == table.events[i]
         IN  ReSet(table, i, IF Delta(old.value, row.value) THEN EventOf("update", row)
                             ELSE [old EXCEPT !.kind = "unchanged"])

MergeRow(table, row, empty) ==
    IF empty \/ row.id \notin DOMAIN table.index
    THEN ReAdd(table, EventOf("add", row))
    ELSE LET i == table.index[row.id]
             kind == IF Delta(table.events[i].value, row.value) THEN "update" ELSE "unchanged"
         IN  IF i \notin DOMAIN table.events THEN table ELSE ReSet(table, i, EventOf(kind, row))

UpdateRows(table, rows, empty) ==
    LET merged[i \in 0..Len(rows)] ==
            IF i = 0 THEN table ELSE MergeRow(merged[i - 1], rows[i], empty)
    IN  merged[Len(rows)]

(* Delete: a key of the listing saves the first row that has it; any other *)
(* row with the same key is a victim.                                      *)
DeleteRows(table, keys) ==
    LET Saved(i) == /\ table.events[i].id \in keys
                    /\ \A j \in 1..(i - 1) : table.events[j].id # table.events[i].id
    IN  DeleteBatch(table, {table.events[i].id : i \in {i \in DOMAIN table.events : ~Saved(i)}})

Keys(rows) == {rows[i].id : i \in DOMAIN rows}

-----------------------------------------------------------------------------
(* Every row is found at the position the index gives, once.               *)
IndexAgrees(table) ==
    /\ DOMAIN table.index = {table.events[i].id : i \in DOMAIN table.events}
    /\ \A i \in DOMAIN table.events : table.index[table.events[i].id] = i

=============================================================================
