---------------------------- MODULE PagedListing ----------------------------
(***************************************************************************)
(* A client walks one of the API's paged listings (api/contracts.py) while *)
(* rows appear, disappear and change.  Each request is a transaction of    *)
(* its own, so all that ties one page to the next is the cursor: the key   *)
(* of the last row returned.  Three orders are in use:                     *)
(*   "id"        registry entries, connections, capabilities: id, falling  *)
(*   "time"      runs and audit events: (created_at, id), falling          *)
(*   "sequence"  the events of a run: sequence, rising, append-only        *)
(* Ids are random UUIDs and say nothing of the order of creation, and many *)
(* rows may bear one timestamp.                                            *)
(***************************************************************************)
EXTENDS Naturals, FiniteSets, Sequences

CONSTANTS
    Ids,        \* row identifiers, or sequence numbers of events
    Times,      \* timestamps
    Limits      \* the page sizes a client asks for

ListingAssumption ==
    /\ IsFiniteSet(Ids) /\ Ids \subseteq Nat
    /\ Times \subseteq Nat
    /\ Limits \subseteq Nat \ {0}

VARIABLES
    order,      \* the listing walked
    time,       \* created_at or occurred_at of each row, which never changes
    rows,       \* the rows that match the listing's filters now
    cursor,     \* the set holding the row next_cursor names; empty at the start
    returned,   \* the rows returned so far, page after page
    present,    \* rows that have matched ever since the walk began
    ended       \* a page came without next_cursor

vars == <<order, time, rows, cursor, returned, present, ended>>

Orders == {"id", "time", "sequence"}

Init ==
    /\ order \in Orders
    /\ time \in [Ids -> Times]
    /\ rows \in SUBSET Ids
    /\ cursor = {} /\ returned = <<>> /\ present = rows /\ ended = FALSE

\* ORDER BY of the listing: row a is returned before row b.
Precedes(a, b) ==
    \/ order = "id" /\ a > b
    \/ order = "time" /\ (time[a] > time[b] \/ (time[a] = time[b] /\ a > b))
    \/ order = "sequence" /\ a < b

\* What the query returns without LIMIT: row i is the one that i - 1 others precede.
InOrder(S) ==
    [i \in 1 .. Cardinality(S) |->
        CHOOSE row \in S : Cardinality({other \in S : Precedes(other, row)}) = i - 1]

\* Mutant: the id is not compared between rows of one timestamp.
After_TimeOnly(key, row) ==
    \/ order = "id" /\ row < key
    \/ order = "time" /\ time[row] < time[key]
    \/ order = "sequence" /\ row > key

\* Mutant: the row the cursor was taken from is returned again.
After_Inclusive(key, row) ==
    \/ order = "id" /\ row <= key
    \/ order = "time" /\ (time[row] < time[key] \/ (time[row] = time[key] /\ row <= key))
    \/ order = "sequence" /\ row >= key

\* The condition the cursor adds: _after_cursor, and the conditions list_runs,
\* list_audit_events and list_run_events write out.
After(key, row) ==
    \/ order = "id" /\ row < key
    \/ order = "time" /\ (time[row] < time[key] \/ (time[row] = time[key] /\ row < key))
    \/ order = "sequence" /\ row > key

\* _next_cursor: the last row of a full page, if the query saw one more.
NextCursor(found, limit) == IF Len(found) > limit THEN {found[limit]} ELSE {}

\* Bound of a walk that returns rows more than once, which the code's does not.
MaxReturned == 2 * Cardinality(Ids)

\* One request: limit + 1 rows are read, limit returned.
Page(limit) ==
    /\ ~ended /\ Len(returned) <= MaxReturned
    /\ LET matching == {row \in rows : \A key \in cursor : After(key, row)}
           sorted == InOrder(matching)
           found == SubSeq(sorted, 1, IF Len(sorted) > limit THEN limit + 1 ELSE Len(sorted))
           items == SubSeq(found, 1, IF Len(found) > limit THEN limit ELSE Len(found))
       IN  /\ returned' = returned \o items
           /\ cursor' = NextCursor(found, limit)
           /\ ended' = (cursor' = {})
    /\ UNCHANGED <<order, time, rows, present>>

\* A row is committed, or begins to match; events are only appended.
Appear(row) ==
    /\ ~ended
    /\ row \notin rows
    /\ order = "sequence" => \A other \in rows : other < row
    /\ rows' = rows \cup {row}
    /\ UNCHANGED <<order, time, cursor, returned, present, ended>>

\* A row is deleted, or ceases to match; events stay.
Disappear(row) ==
    /\ ~ended /\ order # "sequence" /\ row \in rows
    /\ rows' = rows \ {row} /\ present' = present \ {row}
    /\ UNCHANGED <<order, time, cursor, returned, ended>>

Next ==
    \/ \E limit \in Limits : Page(limit)
    \/ \E row \in Ids : Appear(row) \/ Disappear(row)

Spec == Init /\ [][Next]_vars
-----------------------------------------------------------------------------
TypeOK ==
    /\ order \in Orders /\ time \in [Ids -> Times]
    /\ rows \subseteq Ids /\ present \subseteq rows
    /\ cursor \subseteq Ids /\ Len(returned) <= Cardinality(Ids)
    /\ \A i \in 1..Len(returned) : returned[i] \in Ids
    /\ ended \in BOOLEAN

\* Whatever happens between two pages, no row is returned twice in a walk,
\* and the rows come in the listing's order across pages as within one.
ReturnedOnce == \A i, j \in 1..Len(returned) : i < j => Precedes(returned[i], returned[j])

\* A finished walk has returned every row that matched all along, ties of
\* timestamps at a page's edge included.
NothingSkipped == ended => \A row \in present : \E i \in 1..Len(returned) : returned[i] = row
=============================================================================
