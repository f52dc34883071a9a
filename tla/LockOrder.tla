----------------------------- MODULE LockOrder -----------------------------
(***************************************************************************)
(* The row locks that transactions of the execution ledger hold while they *)
(* wait for the next one.  RunLedger treats every method as one atomic     *)
(* step; this module looks inside: a method is the sequence of rows it     *)
(* locks, in the order of its SELECT ... FOR UPDATE statements, and the    *)
(* question is whether sessions that run such methods can wait on each     *)
(* other forever.  What the methods read and write is left out.            *)
(***************************************************************************)
EXTENDS Naturals, Sequences

CONSTANTS
    Sessions,    \* database sessions, one transaction each at a time
    Programs,    \* the lock programs a transaction may run
    Rank,        \* Rank[row]: its place in the documented order
    Guard        \* Guard[row]: the row always locked before it, or row itself

Rows == DOMAIN Rank

Modes == {"keyshare", "share", "update"}

\* lock: SELECT ... FOR UPDATE, FOR SHARE, or the key-share lock an INSERT takes on
\* the rows its foreign keys name; try: the same with SKIP LOCKED; release:
\* ROLLBACK TO SAVEPOINT, which gives back a lock taken after the savepoint.
Steps == [op : {"lock", "try", "release"}, row : Rows, mode : Modes]

ASSUME ProgramsAssumption == Programs \subseteq Seq(Steps)
ASSUME RankAssumption == Rank \in [Rows -> Nat]
ASSUME GuardAssumption == Guard \in [Rows -> Rows]

VARIABLES
    program,   \* the program a session's transaction runs; << >> when it has none
    pc,        \* the next step of it
    held       \* the row locks a session holds

vars == <<program, pc, held>>

TypeOK ==
    /\ program \in [Sessions -> Programs \cup {<< >>}]
    /\ pc \in [Sessions -> Nat \ {0}]
    /\ held \in [Sessions -> SUBSET (Rows \X Modes)]

Init ==
    /\ program = [s \in Sessions |-> << >>]
    /\ pc = [s \in Sessions |-> 1]
    /\ held = [s \in Sessions |-> {}]
-----------------------------------------------------------------------------
Running(s) == pc[s] <= Len(program[s])

Step(s) == program[s][pc[s]]

\* PostgreSQL's row-lock modes: FOR UPDATE excludes every other mode.
Conflict(m, n) == m = "update" \/ n = "update"

\* t holds a lock that excludes the one s asks for.
InTheWay(s, t) ==
    /\ s # t
    /\ \E lock \in held[t] : lock[1] = Step(s).row /\ Conflict(lock[2], Step(s).mode)

\* s waits for t.
WaitsFor(s, t) ==
    /\ Running(s)
    /\ Step(s).op = "lock"
    /\ InTheWay(s, t)

Waiting(s) == \E t \in Sessions : WaitsFor(s, t)

\* The sessions of C wait only on each other.
WaitCycle(C) == C # {} /\ \A s \in C : \E t \in C : WaitsFor(s, t)

Begin(s, p) ==
    /\ program[s] = << >>
    /\ program' = [program EXCEPT ![s] = p]
    /\ pc' = [pc EXCEPT ![s] = 1]
    /\ UNCHANGED held

Acquire(s) ==
    /\ Running(s)
    /\ Step(s).op \in {"lock", "try"}
    /\ \A t \in Sessions : ~InTheWay(s, t)
    /\ held' = [held EXCEPT ![s] = @ \cup {<<Step(s).row, Step(s).mode>>}]
    /\ pc' = [pc EXCEPT ![s] = @ + 1]
    /\ UNCHANGED program

\* The row is skipped, and with it the steps up to the transaction's next query.
SkipLocked(s) ==
    /\ Running(s)
    /\ Step(s).op = "try"
    /\ \E t \in Sessions : InTheWay(s, t)
    /\ \E k \in pc[s] + 1 .. Len(program[s]) + 1 :
          /\ k <= Len(program[s]) => program[s][k].op = "try"
          /\ \A j \in pc[s] + 1 .. k - 1 : program[s][j].op # "try"
          /\ pc' = [pc EXCEPT ![s] = k]
    /\ UNCHANGED <<program, held>>

RollBackToSavepoint(s) ==
    /\ Running(s)
    /\ Step(s).op = "release"
    /\ held' = [held EXCEPT ![s] = {lock \in @ : lock[1] # Step(s).row}]
    /\ pc' = [pc EXCEPT ![s] = @ + 1]
    /\ UNCHANGED program

End(s) ==
    /\ program' = [program EXCEPT ![s] = << >>]
    /\ pc' = [pc EXCEPT ![s] = 1]
    /\ held' = [held EXCEPT ![s] = {}]

\* The transaction commits after its last step, or ends early: an exception or an
\* early return between two statements, but not while it waits for a lock.
Finish(s) ==
    /\ program[s] # << >>
    /\ ~Waiting(s)
    /\ End(s)

\* PostgreSQL aborts one of the sessions that wait only on each other; the method it ran
\* fails with its work undone.
DeadlockDetected(s) ==
    /\ \E C \in SUBSET Sessions : s \in C /\ WaitCycle(C)
    /\ End(s)

Next ==
    \E s \in Sessions :
        \/ \E p \in Programs : Begin(s, p)
        \/ Acquire(s)
        \/ SkipLocked(s)
        \/ RollBackToSavepoint(s)
        \/ Finish(s)
        \/ DeadlockDetected(s)

Spec == Init /\ [][Next]_vars
-----------------------------------------------------------------------------
(* The order the code documents, as a property of a program. *)

Guarded(row) == Guard[row] # row

\* Step i still holds its row when the program comes to step k.
KeptUntil(p, i, k) ==
    /\ p[i].op # "release"
    /\ \A j \in i + 1 .. k - 1 : p[j].op = "release" => p[j].row # p[i].row

\* A guarded row is locked while its guard is surely held: no step between them could
\* have been skipped to.
UnderGuard(p, k) ==
    /\ p[k].op = "lock"
    /\ \E i \in 1 .. k - 1 :
          /\ p[i].row = Guard[p[k].row] /\ p[i].mode = "update"
          /\ KeptUntil(p, i, k)
          /\ \A j \in i + 1 .. k : p[j].op # "try"

\* A program that may wait for an unguarded row holds only lower unguarded rows, or that
\* row itself; what it gives back guards nothing it locked before.
InOrder(p) ==
    \A k \in 1 .. Len(p) :
        /\ p[k].op # "release" /\ Guarded(p[k].row) => UnderGuard(p, k)
        /\ p[k].op = "lock" /\ ~Guarded(p[k].row) =>
             \A i \in 1 .. k - 1 :
                 KeptUntil(p, i, k) /\ ~Guarded(p[i].row) =>
                     Rank[p[i].row] < Rank[p[k].row] \/ p[i].row = p[k].row
        /\ p[k].op = "release" =>
             \A i \in 1 .. Len(p) :
                 /\ p[i].op # "try"
                 /\ i < k /\ Guarded(p[i].row) => Guard[p[i].row] # p[k].row

\* A row is not waited for while an earlier step still holds it: no lock is upgraded.
LocksOnce(p) ==
    \A k \in 1 .. Len(p) : p[k].op = "lock" /\ ~Guarded(p[k].row) =>
        \A i \in 1 .. k - 1 : KeptUntil(p, i, k) => p[i].row # p[k].row

Ordered(p) == InOrder(p) /\ LocksOnce(p)

-----------------------------------------------------------------------------
(* Properties. *)

\* s asks for a row it has locked already, in a weaker mode.
Upgrading(s) == \E lock \in held[s] : lock[1] = Step(s).row

\* No set of sessions wait only on each other.
NoWaitCycle == \A C \in SUBSET Sessions : ~WaitCycle(C)

\* A session in somebody's way waits, if at all, only for a row further up the
\* order: following who waits for whom, the rows climb, so no cycle can close.
WaitsClimb ==
    \A s, t, u \in Sessions :
        WaitsFor(s, t) /\ WaitsFor(t, u) => Rank[Step(s).row] < Rank[Step(t).row]

\* Where sessions wait only on each other, one of them runs a program that leaves the
\* order, or two of them upgrade a lock that both hold.
CyclesExplained ==
    \A C \in SUBSET Sessions : WaitCycle(C) =>
        \/ \E s \in C : ~InOrder(program[s])
        \/ \E s, t \in C : s # t /\ Upgrading(s) /\ Upgrading(t) /\ Step(s).row = Step(t).row
=============================================================================
