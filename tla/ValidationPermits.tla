------------------------- MODULE ValidationPermits -------------------------
(***************************************************************************)
(* validate_schema_arguments of execution/validation.py: a child process   *)
(* evaluates the JSON schema under one of the permits of a bounded         *)
(* semaphore.  There is no queue: a call polls the semaphore until its     *)
(* timeout, and its cleanup runs to the end even when the caller cancels.  *)
(***************************************************************************)
EXTENDS Naturals, FiniteSets

CONSTANTS
    Calls,     \* calls of validate_schema_arguments
    Limit      \* the initial value of _PROCESS_PERMITS

LimitAssumption == Limit \in Nat \ {0}

VARIABLES
    permits,     \* _PROCESS_PERMITS
    pc,          \* where a call is
    acquired,    \* the calls whose permit_acquired is set and not yet given back
    child,       \* a call's child process
    sent,        \* what the child wrote into the pipe
    result,      \* the call's result
    cancelled    \* the calls that will raise CancelledError

vars == <<permits, pc, acquired, child, sent, result, cancelled>>

\* What jsonschema says of the arguments; failed covers every other outcome.
Verdicts == {"valid", "invalid_arguments", "invalid_schema"}

TypeOK ==
    /\ permits \in 0 .. Limit
    /\ pc \in [Calls -> {"polling", "running", "closing", "ended"}]
    /\ acquired \subseteq Calls /\ cancelled \subseteq Calls
    /\ child \in [Calls -> {"none", "running", "exited", "reaped", "outlived"}]
    /\ sent \in [Calls -> Verdicts \cup {"failed", "nothing"}]
    /\ result \in [Calls -> Verdicts \cup {"failed"}]
    /\ \A c \in Calls : pc[c] = "ended" => child[c] \in {"none", "reaped", "outlived"}

Init ==
    /\ permits = Limit
    /\ pc = [c \in Calls |-> "polling"]
    /\ acquired = {} /\ cancelled = {}
    /\ child = [c \in Calls |-> "none"]
    /\ sent = [c \in Calls |-> "nothing"]
    /\ result = [c \in Calls |-> "failed"]
-----------------------------------------------------------------------------
\* The semaphore is taken and the process started before the next await; starting it
\* may fail.
Start(c) ==
    /\ pc[c] = "polling"
    /\ permits > 0
    /\ permits' = permits - 1
    /\ acquired' = acquired \cup {c}
    /\ \/ /\ pc' = [pc EXCEPT ![c] = "running"]
          /\ child' = [child EXCEPT ![c] = "running"]
       \/ /\ pc' = [pc EXCEPT ![c] = "closing"]
          /\ UNCHANGED child
    /\ UNCHANGED <<sent, result, cancelled>>

\* _schema_validation_process: its verdict, failed for any other exception, nothing when
\* the process dies or cannot send. A child that was given up on ends unheard.
ChildEnds(c) ==
    /\ \/ /\ child[c] = "running"
          /\ \E v \in Verdicts \cup {"failed", "nothing"} : sent' = [sent EXCEPT ![c] = v]
          /\ child' = [child EXCEPT ![c] = "exited"]
       \/ /\ child[c] = "outlived"
          /\ child' = [child EXCEPT ![c] = "reaped"]
          /\ UNCHANGED sent
    /\ UNCHANGED <<permits, pc, acquired, result, cancelled>>

\* Mutant: the end of the pipe counts as no objection.
Received_Optimistic(c) == IF sent[c] = "nothing" THEN "valid" ELSE sent[c]

\* receiver.recv: EOFError leaves the result FAILED.
Received(c) == IF sent[c] = "nothing" THEN "failed" ELSE sent[c]

Receive(c) ==
    /\ pc[c] = "running" /\ child[c] = "exited"
    /\ result' = [result EXCEPT ![c] = Received(c)]
    /\ pc' = [pc EXCEPT ![c] = "closing"]
    /\ UNCHANGED <<permits, acquired, child, sent, cancelled>>

\* Mutant: the timeout covers only the wait for the answer.
Timeout_Answer(c) ==
    /\ pc[c] = "running"
    /\ pc' = [pc EXCEPT ![c] = "closing"]
    /\ UNCHANGED <<permits, acquired, child, sent, result, cancelled>>

\* asyncio.timeout, while the call polls or waits for the answer; the answer may be in
\* the pipe.
Timeout(c) ==
    /\ pc[c] \in {"polling", "running"}
    /\ pc' = [pc EXCEPT ![c] = "closing"]
    /\ UNCHANGED <<permits, acquired, child, sent, result, cancelled>>

\* The caller cancels: CancelledError at the await, or noted by the cleanup's shield.
Cancel(c) ==
    /\ pc[c] # "ended" /\ c \notin cancelled
    /\ cancelled' = cancelled \cup {c}
    /\ pc' = [pc EXCEPT ![c] = "closing"]
    /\ UNCHANGED <<permits, acquired, child, sent, result>>

\* _close_process: wait for the child, then terminate and kill it, a quarter of a second
\* for each; one that still runs then is left alone.
Close(c) ==
    /\ pc[c] = "closing"
    /\ \/ /\ child[c] \in {"running", "exited"}
          /\ child' = [child EXCEPT ![c] = "reaped"]
       \/ /\ child[c] = "running"
          /\ child' = [child EXCEPT ![c] = "outlived"]
    /\ UNCHANGED <<permits, pc, acquired, sent, result, cancelled>>

Closed(c) == child[c] \in {"none", "reaped", "outlived"}

\* Mutant: the permit of a cancelled call is not given back.
Leave_Forgetful(c) ==
    /\ pc[c] = "closing" /\ Closed(c)
    /\ permits' = IF c \in acquired /\ c \notin cancelled THEN permits + 1 ELSE permits
    /\ acquired' = acquired \ {c}
    /\ pc' = [pc EXCEPT ![c] = "ended"]
    /\ UNCHANGED <<child, sent, result, cancelled>>

\* The end of the finally block: the call returns its result or raises CancelledError.
Leave(c) ==
    /\ pc[c] = "closing" /\ Closed(c)
    /\ permits' = IF c \in acquired THEN permits + 1 ELSE permits
    /\ acquired' = acquired \ {c}
    /\ pc' = [pc EXCEPT ![c] = "ended"]
    /\ UNCHANGED <<child, sent, result, cancelled>>

Next ==
    \E c \in Calls :
        \/ Start(c) \/ ChildEnds(c) \/ Receive(c) \/ Timeout(c) \/ Cancel(c)
        \/ Close(c) \/ Leave(c)

Spec == Init /\ [][Next]_vars

\* asyncio.timeout fires, and cleanup is bounded by its own joins.
Progress(c) == Timeout(c) \/ Close(c) \/ Leave(c)
-----------------------------------------------------------------------------
(* Properties. *)

\* Every permit is in the semaphore or with the call that will give it back, whichever of
\* answer, timeout, start failure and cancellation ended the call.
PermitsBalanced == permits + Cardinality(acquired) = Limit

\* A child is covered by its call's permit until it has ended or its cleanup, having killed
\* it, gave up waiting: but for those, validations never exceed the limit.
ChildrenArePermitted == {c \in Calls : child[c] \in {"running", "exited"}} \subseteq acquired

\* Validation fails closed: a call accepts arguments only when its child said so.
FailsClosed == \A c \in Calls : result[c] = "valid" => sent[c] = "valid"
=============================================================================
