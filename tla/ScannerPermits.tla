-------------------------- MODULE ScannerPermits --------------------------
(***************************************************************************)
(* The process-wide permits of registry/official.py: every scan of Registry *)
(* metadata runs in a child process, at most _SCANNER_PROCESS_LIMIT of them *)
(* at a time, shared by the event loops of all threads.  A release under   *)
(* the lock marks the next waiter granted and asks its loop to resolve its *)
(* future; the waiter may be cancelled, time out, or lose its loop         *)
(* meanwhile.  A scan is one call of _run_scanner.                         *)
(***************************************************************************)
EXTENDS Naturals, Sequences, FiniteSets

CONSTANTS
    Scans,       \* calls of _run_scanner
    Loops,       \* event loops
    LoopOf,      \* LoopOf[s]: the loop a scan runs in
    Limit,       \* _SCANNER_PROCESS_LIMIT
    Abandon      \* may a loop be closed while scans wait or run in it?

ScansAssumption == \A s \in Scans : LoopOf[s] \in Loops
LimitAssumption == Limit \in Nat \ {0}

VARIABLES
    available,   \* _SCANNER_PROCESS_AVAILABLE
    waiters,     \* _SCANNER_PROCESS_WAITERS
    pc,          \* where a scan is
    granted,     \* the waiters granted a permit
    cancelled,   \* the waiters marked cancelled
    future,      \* a waiter's future
    scheduled,   \* the waiters whose notification is queued in their loop
    alive,       \* the scans whose child process runs and is theirs to end
    outlived,    \* those whose child still ran when its cleanup gave up on it
    closed,      \* the closed loops
    refused      \* a release raised RuntimeError

vars == <<available, waiters, pc, granted, cancelled, future, scheduled, alive, outlived,
          closed, refused>>

\* giving_back: a waiter that was interrupted after its grant; closing: _run_scanner's
\* finally block.
Places == {"new", "waiting", "interrupted", "giving_back", "scanning", "closing", "done"}

\* The types of the variables. A call waits in the deque once at most, and a release
\* never finds every permit already given back.
TypeOK ==
    /\ available \in 0 .. Limit
    /\ waiters \in Seq(Scans)
    /\ pc \in [Scans -> Places]
    /\ granted \subseteq Scans /\ cancelled \subseteq Scans
    /\ future \in [Scans -> {"pending", "set", "cancelled"}]
    /\ scheduled \subseteq Scans /\ alive \subseteq Scans /\ outlived \subseteq Scans
    /\ closed \subseteq Loops
    /\ refused = FALSE
    /\ \A i, j \in DOMAIN waiters : i # j => waiters[i] # waiters[j]

Init ==
    /\ available = Limit
    /\ waiters = << >>
    /\ pc = [s \in Scans |-> "new"]
    /\ granted = {} /\ cancelled = {} /\ scheduled = {} /\ alive = {} /\ closed = {}
    /\ outlived = {}
    /\ future = [s \in Scans |-> "pending"]
    /\ refused = FALSE
-----------------------------------------------------------------------------
LoopClosed(s) == LoopOf[s] \in closed

\* Once it has its permit a call starts its process without giving up the loop; if the
\* process cannot be started it goes straight to the finally block.
Scan(s) ==
    \/ /\ pc' = [pc EXCEPT ![s] = "scanning"]
       /\ alive' = alive \cup {s}
    \/ /\ pc' = [pc EXCEPT ![s] = "closing"]
       /\ UNCHANGED alive

\* _acquire_scanner_process_permit, up to its await.
Acquire(s) ==
    /\ pc[s] = "new" /\ ~LoopClosed(s)
    /\ \/ /\ available > 0
          /\ available' = available - 1
          /\ Scan(s)
          /\ UNCHANGED waiters
       \/ /\ available = 0
          /\ waiters' = Append(waiters, s)
          /\ pc' = [pc EXCEPT ![s] = "waiting"]
          /\ UNCHANGED <<available, alive>>
    /\ UNCHANGED <<granted, cancelled, future, scheduled, outlived, closed, refused>>

\* Mutant: a waiter that was cancelled is granted.
Servable_Cancelled == {i \in DOMAIN waiters : ~LoopClosed(waiters[i])}

\* The places of the waiters a release may grant: not cancelled, loop open.
Servable == {i \in DOMAIN waiters : waiters[i] \notin cancelled /\ ~LoopClosed(waiters[i])}

\* The first of them in the deque.
First(n) == n \in Servable /\ \A i \in Servable : n <= i

\* The waiters popped on the way whose loop refuses the notification: they are marked
\* granted before the attempt and cancelled after it.
Unreachable(n) ==
    {waiters[i] : i \in {j \in 1 .. n : waiters[j] \notin cancelled /\ LoopClosed(waiters[j])}}

\* Mutant: the deque is not looked at.
Release_Ignoring ==
    /\ available' = available + 1
    /\ UNCHANGED <<waiters, granted, cancelled, scheduled, refused>>

\* _release_scanner_process_permit
Release ==
    \/ \E n \in DOMAIN waiters :
         /\ First(n)
         /\ waiters' = SubSeq(waiters, n + 1, Len(waiters))
         /\ granted' = granted \cup Unreachable(n) \cup {waiters[n]}
         /\ cancelled' = cancelled \cup Unreachable(n)
         /\ scheduled' = scheduled \cup {waiters[n]}
         /\ UNCHANGED <<available, refused>>
    \/ /\ Servable = {}
       /\ waiters' = << >>
       /\ granted' = granted \cup Unreachable(Len(waiters))
       /\ cancelled' = cancelled \cup Unreachable(Len(waiters))
       /\ UNCHANGED scheduled
       /\ available' = IF available < Limit THEN available + 1 ELSE available
       /\ refused' = (refused \/ available >= Limit)

\* _notify_scanner_process_waiter, run by the waiter's loop.
Notify(s) ==
    /\ s \in scheduled /\ ~LoopClosed(s)
    /\ scheduled' = scheduled \ {s}
    /\ future' = [future EXCEPT ![s] = IF @ = "pending" THEN "set" ELSE @]
    /\ UNCHANGED <<available, waiters, pc, granted, cancelled, alive, outlived, closed, refused>>

\* The await returns.
Resume(s) ==
    /\ pc[s] = "waiting" /\ future[s] = "set" /\ ~LoopClosed(s)
    /\ Scan(s)
    /\ UNCHANGED <<available, waiters, granted, cancelled, future, scheduled, outlived, closed, refused>>

\* The call is cancelled or its timeout fires while it waits, even after its future was
\* resolved: CancelledError is raised at the await.
Interrupt(s) ==
    /\ pc[s] = "waiting" /\ ~LoopClosed(s)
    /\ pc' = [pc EXCEPT ![s] = "interrupted"]
    /\ future' = [future EXCEPT ![s] = IF @ = "pending" THEN "cancelled" ELSE @]
    /\ UNCHANGED <<available, waiters, granted, cancelled, scheduled, alive, outlived, closed, refused>>

\* A closed loop's coroutine is destroyed: GeneratorExit is raised at its await.
Destroyed(s) == LoopClosed(s)

\* Mutant: the handler does not look whether it was granted.
Withdraw_Blind(s) ==
    /\ \/ pc[s] = "interrupted" /\ ~LoopClosed(s)
       \/ pc[s] \in {"waiting", "interrupted"} /\ Destroyed(s)
    /\ cancelled' = cancelled \cup {s}
    /\ pc' = [pc EXCEPT ![s] = "done"]
    /\ UNCHANGED <<available, waiters, granted, future, scheduled, alive, outlived, closed, refused>>

\* The except block of _acquire_scanner_process_permit, under the lock.
Withdraw(s) ==
    /\ \/ pc[s] = "interrupted" /\ ~LoopClosed(s)
       \/ pc[s] \in {"waiting", "interrupted"} /\ Destroyed(s)
    /\ \/ /\ s \in granted
          /\ pc' = [pc EXCEPT ![s] = "giving_back"]
          /\ UNCHANGED cancelled
       \/ /\ s \notin granted
          /\ cancelled' = cancelled \cup {s}
          /\ pc' = [pc EXCEPT ![s] = "done"]
    /\ UNCHANGED <<available, waiters, granted, future, scheduled, alive, outlived, closed, refused>>

\* The rest of the except block, after the lock was dropped.
ReturnGrant(s) ==
    /\ pc[s] = "giving_back"
    /\ Release
    /\ pc' = [pc EXCEPT ![s] = "done"]
    /\ UNCHANGED <<future, alive, outlived, closed>>

\* The scan answers, fails, times out or is cancelled.
EndScan(s) ==
    /\ pc[s] = "scanning" /\ ~LoopClosed(s)
    /\ pc' = [pc EXCEPT ![s] = "closing"]
    /\ UNCHANGED <<available, waiters, granted, cancelled, future, scheduled, alive, outlived, closed, refused>>

\* _close_scanner_process: terminate, then kill, a quarter of a second for each; a child
\* that still runs then is left alone. _finish_scanner_cleanup absorbs a cancellation
\* until it is done.
Reap(s) ==
    /\ pc[s] = "closing" /\ s \in alive /\ ~LoopClosed(s)
    /\ alive' = alive \ {s}
    /\ outlived' \in {outlived, outlived \cup {s}}
    /\ UNCHANGED <<available, waiters, pc, granted, cancelled, future, scheduled, closed, refused>>

\* external: a child that nobody waits for any more ends.
Die(s) ==
    /\ s \in outlived
    /\ outlived' = outlived \ {s}
    /\ UNCHANGED <<available, waiters, pc, granted, cancelled, future, scheduled, alive, closed,
                   refused>>

\* Mutant: the permit is given back while the cleanup still runs.
Leave_Early(s) ==
    /\ \/ pc[s] = "closing" /\ ~LoopClosed(s)
       \/ pc[s] \in {"scanning", "closing"} /\ Destroyed(s)
    /\ Release
    /\ pc' = [pc EXCEPT ![s] = "done"]
    /\ UNCHANGED <<future, alive, outlived, closed>>

\* The outer finally of _run_scanner. A destroyed coroutine comes here directly.
Leave(s) ==
    /\ \/ pc[s] = "closing" /\ s \notin alive /\ ~LoopClosed(s)
       \/ pc[s] \in {"scanning", "closing"} /\ Destroyed(s)
    /\ Release
    /\ pc' = [pc EXCEPT ![s] = "done"]
    /\ UNCHANGED <<future, alive, outlived, closed>>

\* external: a loop ends. asyncio.run cancels its tasks and waits for them first.
CloseLoop(l) ==
    /\ l \notin closed
    /\ Abandon \/ \A s \in Scans : LoopOf[s] = l => pc[s] \in {"new", "done"}
    /\ closed' = closed \cup {l}
    /\ UNCHANGED <<available, waiters, pc, granted, cancelled, future, scheduled, alive, outlived,
                   refused>>

Next ==
    \/ \E s \in Scans :
         \/ Acquire(s) \/ Notify(s) \/ Resume(s) \/ Interrupt(s) \/ Withdraw(s)
         \/ ReturnGrant(s) \/ EndScan(s) \/ Reap(s) \/ Die(s) \/ Leave(s)
    \/ \E l \in Loops : CloseLoop(l)

Spec == Init /\ [][Next]_vars

\* What the loops do for a scan: they run what is ready, and a scan ends by its answer
\* or its timeout. Nothing forces an interruption or a loop's end.
Progress(s) ==
    Notify(s) \/ Resume(s) \/ Withdraw(s) \/ ReturnGrant(s) \/ EndScan(s) \/ Reap(s) \/ Leave(s)
-----------------------------------------------------------------------------
(* Properties. *)

\* The calls that own a permit: those that run with it, and those that were granted one
\* and have not noticed.
Owners ==
    {s \in Scans : \/ pc[s] \in {"giving_back", "scanning", "closing"}
                   \/ pc[s] \in {"waiting", "interrupted"} /\ s \in granted}

\* No permit is lost or made: every one is available or owned by one call, however
\* grants, cancellations and timeouts cross.
PermitsConserved == available + Cardinality(Owners) = Limit

\* Even when loops are closed under their waiters and the coroutines destroyed, no permit
\* is lost: the pool never shrinks.
NoPermitLost == available + Cardinality(Owners) >= Limit

\* A permit is never available while a call waits: release hands it on.
NoIdlePermit == available > 0 => waiters = << >>

\* A running child is covered by its call's permit, so at most Limit of them run, but for
\* those that outlived terminate and kill: their calls have given the permit back, or will.
ProcessesArePermitted ==
    /\ alive \subseteq {s \in Scans : pc[s] \in {"scanning", "closing"}}
    /\ Cardinality(alive) <= Limit
    /\ outlived \subseteq {s \in Scans : pc[s] \in {"closing", "done"}}
=============================================================================
