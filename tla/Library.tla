------------------------------- MODULE Library -------------------------------
(* The library's metadata (library/store.go, httpapi/library.go): libraries, *)
(* their works, editions, chapters and source assets, in one table per level *)
(* (migration 002).  A request is one transaction; an update reads the row,  *)
(* overlays the fields its body names, and writes the whole row back.        *)
EXTENDS Integers, Sequences, FiniteSets

CONSTANTS
    Record,         \* ids
    Level,          \* the table of each id
    Timings         \* timings that a body may name: partial functions of Timing

VARIABLE rows       \* stored rows: {} or {[parent, time]}

Levels == <<"library", "work", "edition", "chapter", "source_asset">>
Timing == {"start_ms", "end_ms", "duration_ms"}
Timed  == {"chapter", "source_asset"}
Kept   == {id \in Record : rows[id] # {}}
RowOf(id) == CHOOSE r \in rows[id] : TRUE

LibraryInit == rows = [id \in Record |-> {}]

Parents(id) ==
    LET above == {i \in DOMAIN Levels : i > 1 /\ Levels[i] = Level[id]}
    IN  {p \in Record : \E i \in above : Level[p] = Levels[i - 1]}

\* Validate, and the CHECK constraints of the tables.
ValidTime(time) ==
    /\ \A f \in Timing : time[f] >= 0
    /\ time["start_ms"] <= time["end_ms"]

\* The foreign key of the row.
ParentStored(id, parent) ==
    IF Parents(id) = {} THEN parent = {} ELSE parent \subseteq Parents(id) \cap Kept

Zero == [f \in Timing |-> 0]
Overlay(time, body) == [f \in Timing |-> IF f \in DOMAIN body THEN body[f] ELSE time[f]]

WriteRow(id, parent, time) ==
    /\ ParentStored(id, parent) /\ ValidTime(time)
    /\ rows' = [rows EXCEPT ![id] = {[parent |-> parent, time |-> time]}]

\* POST under a parent; what the body leaves out is zero.
CreateRecord(id, parent, body) ==
    /\ id \notin Kept
    /\ WriteRow(id, parent, Overlay(Zero, body))

\* PUT; a body may move the row to another parent.
Updated(row, body) == Overlay(row.time, body)

UpdateRecord(id, parent, body) ==
    /\ id \in Kept
    /\ WriteRow(id, parent, Updated(RowOf(id), body))

\* Faulty: the rows below the children stay.
ChildrenOf(ids) == ids \cup {c \in Kept : RowOf(c).parent \cap ids # {}}

\* ON DELETE CASCADE, table by table.
Below(ids) ==
    LET children(s) == s \cup {c \in Kept : RowOf(c).parent \cap s # {}}
    IN  children(children(children(children(ids))))

DeleteRecord(id) ==
    /\ id \in Kept
    /\ rows' = [r \in Record |-> IF r \in Below({id}) THEN {} ELSE rows[r]]

TimingsOf(id) == IF Level[id] \in Timed THEN Timings ELSE {<<>>}
ParentSets(id) == IF Parents(id) = {} THEN {{}} ELSE {{p} : p \in Parents(id)}

LibraryNext ==
    \E id \in Record :
        \/ \E parent \in ParentSets(id), body \in TimingsOf(id) :
              CreateRecord(id, parent, body) \/ UpdateRecord(id, parent, body)
        \/ DeleteRecord(id)

LibrarySpec == LibraryInit /\ [][LibraryNext]_rows

-----------------------------------------------------------------------------

\* No record outlives any of its ancestors, through deletions above it and
\* moves to other parents, and no timing is stored that ends before it starts,
\* though each request may name only one end of it (UpdateChapter, the cascades
\* of migration 002).
LibraryStaysWhole ==
    \A id \in Kept :
        LET row == RowOf(id) IN
        /\ IF Parents(id) = {} THEN row.parent = {}
           ELSE /\ Cardinality(row.parent) = 1
                /\ row.parent \subseteq Parents(id) \cap Kept
        /\ \A f \in Timing : row.time[f] >= 0
        /\ row.time["start_ms"] <= row.time["end_ms"]
=============================================================================
