--------------------------- MODULE ApiAdmission ---------------------------
(***************************************************************************)
(* The admission control of one API process: the middleware response_policy *)
(* of api/main.py and the limiter of ops/limits.py.  A request is charged  *)
(* to its peer's window, then waits for one of the request slots.  The     *)
(* limiter remembers only so many peers and forgets the one it heard from  *)
(* least recently.                                                         *)
(***************************************************************************)
EXTENDS Naturals, Sequences, FiniteSets

CONSTANTS
    Requests,    \* requests under /v1/ that are not CORS preflights
    Addresses,   \* the addresses connections come from
    Proxies,     \* trusted_proxy_addresses
    Forwarded,   \* what X-Real-IP may say: addresses, and Garbled
    Garbled,     \* an X-Real-IP that is no address
    NoHeader,    \* no X-Real-IP
    Limit,       \* api_rate_limit_per_minute
    MaxPeers,    \* max_peers
    Slots,       \* api_max_concurrency
    MaxMinute    \* bound: the last minute

LimitsAssumption ==
    /\ Limit \in Nat \ {0} /\ MaxPeers \in Nat \ {0} /\ Slots \in Nat \ {0}
    /\ MaxMinute \in Nat \ {0}

VARIABLES
    minute,      \* the limiter's clock
    windows,     \* _windows, the least recently heard peer first
    slots,       \* request_slots
    inFlight,    \* the in_flight gauge
    pc,          \* where a request is
    allowed,     \* history: allowed[p], the requests of p let through this minute
    since,       \* history: the other peers heard since p's last request this minute
    crowded      \* history: the peers that fell MaxPeers peers behind this minute

vars == <<minute, windows, slots, inFlight, pc, allowed, since, crowded>>

\* A connection from a trusted proxy is charged to the peer it names; one that names
\* nothing readable is charged to the proxy's own bucket for that.
PeerOf(address, header) ==
    IF address \in Proxies /\ header # NoHeader
    THEN IF header = Garbled THEN <<"invalid-forwarded", address>> ELSE header
    ELSE address

Peers == {PeerOf(a, h) : a \in Addresses, h \in Forwarded \cup {Garbled, NoHeader}}

\* The types of the state; the memory of the limiter is bounded and holds a peer once.
TypeOK ==
    /\ minute \in 1 .. MaxMinute
    /\ windows \in Seq([peer : Peers, minute : 1 .. MaxMinute, count : 0 .. Limit])
    /\ Len(windows) <= MaxPeers
    /\ \A i, j \in DOMAIN windows : windows[i].peer = windows[j].peer => i = j
    /\ slots \in 0 .. Slots /\ inFlight \in 0 .. Slots
    /\ pc \in [Requests -> {"new", "queued", "running", "answered", "gone"}]
    /\ allowed \in [Peers -> Nat] /\ since \in [Peers -> SUBSET Peers]
    /\ crowded \subseteq Peers

Init ==
    /\ minute = 1
    /\ windows = << >>
    /\ slots = Slots /\ inFlight = 0
    /\ pc = [r \in Requests |-> "new"]
    /\ allowed = [p \in Peers |-> 0] /\ since = [p \in Peers |-> {}]
    /\ crowded = {}
-----------------------------------------------------------------------------
(* FixedWindowRateLimiter.allow *)

\* Where the peer is remembered, if it is.
PlacesOf(p) == {i \in DOMAIN windows : windows[i].peer = p}

Others(p) ==
    IF PlacesOf(p) = {} THEN windows
    ELSE LET i == CHOOSE j \in PlacesOf(p) : TRUE
         IN SubSeq(windows, 1, i - 1) \o SubSeq(windows, i + 1, Len(windows))

\* The peer's count: zero when it is not remembered or its window is of an earlier minute.
CountOf(p) ==
    LET mine == {i \in DOMAIN windows : windows[i].peer = p /\ windows[i].minute = minute}
    IN IF mine = {} THEN 0 ELSE windows[CHOOSE i \in mine : TRUE].count

\* Mutant: the newest window is dropped.
Bounded_Newest(ws) == IF Len(ws) > MaxPeers THEN SubSeq(ws, 1, MaxPeers) ELSE ws

\* popitem(last=False) while there are too many.
Bounded(ws) == IF Len(ws) > MaxPeers THEN SubSeq(ws, Len(ws) - MaxPeers + 1, Len(ws)) ELSE ws

Charge(p, ok) ==
    windows' = Bounded(Append(Others(p), [peer |-> p, minute |-> minute,
                                          count |-> IF ok THEN CountOf(p) + 1 ELSE CountOf(p)]))

Remember(p, ok) ==
    /\ allowed' = [allowed EXCEPT ![p] = IF ok THEN @ + 1 ELSE @]
    /\ since' = [q \in Peers |-> IF q = p THEN {} ELSE since[q] \cup {p}]
    /\ crowded' = crowded \cup {q \in Peers \ {p} : Cardinality(since[q] \cup {p}) >= MaxPeers}
-----------------------------------------------------------------------------
(* response_policy *)

\* The request is let through and waits for a slot, or is answered 429.
Arrive(r, p) ==
    LET ok == CountOf(p) < Limit IN
    /\ pc[r] = "new"
    /\ Charge(p, ok)
    /\ Remember(p, ok)
    /\ pc' = [pc EXCEPT ![r] = IF ok THEN "queued" ELSE "answered"]
    /\ UNCHANGED <<minute, slots, inFlight>>

Start(r) ==
    /\ pc[r] = "queued"
    /\ slots > 0
    /\ slots' = slots - 1
    /\ inFlight' = inFlight + 1
    /\ pc' = [pc EXCEPT ![r] = "running"]
    /\ UNCHANGED <<minute, windows, allowed, since, crowded>>

\* Mutant: the slot is released by every request that waited for one.
QueueTimeout_Releases(r) ==
    /\ pc[r] = "queued"
    /\ pc' = [pc EXCEPT ![r] = "answered"]
    /\ slots' = slots + 1
    /\ UNCHANGED <<minute, windows, inFlight, allowed, since, crowded>>

\* Mutant: waiting for a slot has no timeout.
QueueTimeout_Never(r) == FALSE /\ UNCHANGED vars

\* api_queue_timeout_seconds: 503.
QueueTimeout(r) ==
    /\ pc[r] = "queued"
    /\ pc' = [pc EXCEPT ![r] = "answered"]
    /\ UNCHANGED <<minute, windows, slots, inFlight, allowed, since, crowded>>

Leave(r, to) ==
    /\ pc[r] = "running"
    /\ slots' = slots + 1
    /\ inFlight' = inFlight - 1
    /\ pc' = [pc EXCEPT ![r] = to]
    /\ UNCHANGED <<minute, windows, allowed, since, crowded>>

\* The handler returns or raises; either way the request is answered.
Respond(r) == Leave(r, "answered")

\* The client goes away and the request's task is cancelled.
Disconnect(r) ==
    \/ Leave(r, "gone")
    \/ /\ pc[r] = "queued"
       /\ pc' = [pc EXCEPT ![r] = "gone"]
       /\ UNCHANGED <<minute, windows, slots, inFlight, allowed, since, crowded>>

NextMinute ==
    /\ minute < MaxMinute
    /\ minute' = minute + 1
    /\ allowed' = [p \in Peers |-> 0] /\ since' = [p \in Peers |-> {}]
    /\ crowded' = {}
    /\ UNCHANGED <<windows, slots, inFlight, pc>>

Next ==
    \/ \E r \in Requests :
         \/ \E a \in Addresses, h \in Forwarded \cup {Garbled, NoHeader} : Arrive(r, PeerOf(a, h))
         \/ Start(r) \/ QueueTimeout(r) \/ Respond(r) \/ Disconnect(r)
    \/ NextMinute

Spec == Init /\ [][Next]_vars

\* The queue's timer fires and handlers return.
Progress(r) == QueueTimeout(r) \/ Respond(r)
-----------------------------------------------------------------------------
(* Properties. *)

Running == {r \in Requests : pc[r] = "running"}

\* A slot is held by exactly the requests in their handler, whichever of answer, timeout
\* and disconnection ended the others, and the gauge says so.
SlotsBalanced == slots + Cardinality(Running) = Slots /\ inFlight = Cardinality(Running)

\* A peer gets more than its limit through in a minute only after it was forgotten, which
\* takes MaxPeers other peers heard after it.
PeersAreLimited == \A p \in Peers : allowed[p] <= Limit \/ p \in crowded
=============================================================================
