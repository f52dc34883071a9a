--------------------------- MODULE UpstreamPaging ---------------------------
(***************************************************************************)
(* The two loops that page through what a remote server publishes:         *)
(*   "registry"  OfficialRegistryAdapter._search_with_client               *)
(*               (registry/official.py)                                    *)
(*   "tools"     the tools/list loop of _discover (mcp_adapter/client.py)  *)
(* Neither trusts the server: it may repeat cursors, repeat items within a *)
(* page or between pages, answer without end, or answer too much.  Either  *)
(* a loop returns everything the server publishes or it fails; it never    *)
(* returns a part.                                                         *)
(*                                                                         *)
(* `upstream' says which page the server gives for each cursor.  An item   *)
(* stands for its identity, a page weighs two bytes and one for each item.  *)
(***************************************************************************)
EXTENDS Naturals, FiniteSets, Sequences, SequencesExt

CONSTANTS
    Cursors, NoCursor,   \* NoCursor: the first request, and a last page's nextCursor
    Items,               \* identities of servers or tools
    PageItems,           \* the item lists a page may hold
    MaxPages, MaxItems, MaxBytes

PagingAssumption ==
    /\ NoCursor \notin Cursors
    /\ PageItems \subseteq Seq(Items)
    /\ {MaxPages, MaxItems, MaxBytes} \subseteq Nat \ {0}

VARIABLES
    upstream,     \* the server's page for each cursor
    pager,        \* which loop runs
    outcome,      \* "running", "returned" or "failed"
    transport,    \* whether a request failed or timed out
    pages,        \* pages asked for
    cursor, seen_cursors, items, total_bytes

vars == <<upstream, pager, outcome, transport, pages, cursor, seen_cursors, items, total_bytes>>

Page == [items : PageItems, next : Cursors \cup {NoCursor}]

Init ==
    /\ upstream \in [Cursors \cup {NoCursor} -> Page]
    /\ pager \in {"registry", "tools"}
    /\ outcome = "running" /\ transport = FALSE /\ pages = 0
    /\ cursor = NoCursor /\ seen_cursors = {} /\ items = <<>> /\ total_bytes = 0

PageBytes(page) == 2 + Len(page.items)

\* The loop's state after a page that was accepted.
Turn(page) ==
    /\ pages' = pages + 1
    /\ items' = items \o page.items
    /\ cursor' = page.next
    /\ seen_cursors' = IF page.next = NoCursor THEN seen_cursors ELSE seen_cursors \cup {page.next}

Stop(result) == outcome' = result /\ UNCHANGED <<pages, cursor, seen_cursors, items>>

\* The registry's page is within the byte and item limits and names nothing
\* twice, neither in itself (_normalize_items) nor with earlier pages.
Acceptable(page) ==
    /\ total_bytes + PageBytes(page) <= MaxBytes
    /\ IsInjective(page.items)
    /\ Len(items) + Len(page.items) <= MaxItems
    /\ ToSet(items) \cap ToSet(page.items) = {}

\* Mutant: when the loop runs out of pages, what was collected is returned.
Exhausted_Partial == outcome' = "returned" /\ UNCHANGED <<pages, cursor, seen_cursors, items>>

\* for ... in range(max_pages) ran out while the server still had a cursor.
Exhausted == Stop("failed")

\* One round of the registry's loop.
RegistryPage ==
    LET page == upstream[cursor]
    IN  /\ outcome = "running" /\ pager = "registry"
        /\ IF pages = MaxPages THEN Exhausted /\ UNCHANGED total_bytes
           ELSE /\ total_bytes' = total_bytes + PageBytes(page)
                /\ IF ~Acceptable(page) THEN Stop("failed")
                   ELSE IF page.next = NoCursor THEN Turn(page) /\ outcome' = "returned"
                   ELSE IF page.next \in seen_cursors THEN Stop("failed")
                   ELSE Turn(page) /\ UNCHANGED outcome
        /\ UNCHANGED <<upstream, pager, transport>>

\* Mutant: the limit is compared before the page is added.
TooMany_Before(all) == Len(items) > MaxItems

TooMany(all) == Len(all) > MaxItems

\* One round of the tool loop.  Duplicates are looked for, and the canonical
\* payload weighed, once all pages are in.
ToolsPage ==
    LET page == upstream[cursor]
        all == items \o page.items
    IN  /\ outcome = "running" /\ pager = "tools"
        /\ IF pages = MaxPages THEN Exhausted /\ UNCHANGED total_bytes
           ELSE /\ total_bytes' = total_bytes + PageBytes(page)
                /\ IF TooMany(all) THEN Stop("failed")
                   ELSE IF page.next = NoCursor
                        THEN /\ Turn(page)
                             /\ outcome' = IF IsInjective(all) /\ total_bytes' <= MaxBytes
                                           THEN "returned" ELSE "failed"
                   ELSE IF page.next \in seen_cursors THEN Stop("failed")
                   ELSE Turn(page) /\ UNCHANGED outcome
        /\ UNCHANGED <<upstream, pager, transport>>

\* A timeout, an HTTP failure, or a page that does not parse or that the
\* scanner refuses.
TransportFails ==
    /\ outcome = "running" /\ transport' = TRUE /\ Stop("failed")
    /\ UNCHANGED <<upstream, pager, total_bytes>>

Next == RegistryPage \/ ToolsPage \/ TransportFails

Spec == Init /\ [][Next]_vars
-----------------------------------------------------------------------------
TypeOK ==
    /\ upstream \in [Cursors \cup {NoCursor} -> Page]
    /\ pager \in {"registry", "tools"}
    /\ outcome \in {"running", "returned", "failed"} /\ transport \in BOOLEAN
    /\ pages \in 0..MaxPages /\ Len(items) <= MaxItems
    /\ cursor \in Cursors \cup {NoCursor} /\ seen_cursors \subseteq Cursors
    /\ ToSet(items) \subseteq Items
    /\ total_bytes \in Nat

\* Reference: the cursors of the n pages a server publishes, first to last.
Chain(n) ==
    {c \in [1..n -> Cursors \cup {NoCursor}] :
        /\ c[1] = NoCursor
        /\ \A i \in 1..n - 1 : upstream[c[i]].next = c[i + 1] /\ c[i + 1] # NoCursor
        /\ upstream[c[n]].next = NoCursor}

\* Reference: all a server publishes, if it is finite, within the limits and
\* names nothing twice.  At most one such listing exists.
Listings ==
    LET whole(n) == {FlattenSeq([i \in 1..n |-> upstream[c[i]].items]) : c \in Chain(n)}
    IN  UNION {{l \in whole(n) : /\ IsInjective(l) /\ Len(l) <= MaxItems
                                 /\ 2 * n + Len(l) <= MaxBytes} : n \in 1..MaxPages}

\* However the server pages its listing, repeats itself or goes on for ever,
\* a loop that returns has returned all of a finite listing, in order and
\* without repetition, and within every limit; and unless a request failed,
\* the loop returns whenever such a listing exists.
WholeOrNothing ==
    /\ outcome = "returned" => items \in Listings
    /\ outcome = "failed" /\ ~transport => Listings = {}
=============================================================================
