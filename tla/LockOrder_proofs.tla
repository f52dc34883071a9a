-------------------------- MODULE LockOrder_proofs --------------------------
(***************************************************************************)
(* Where sessions wait only on each other, some program left the order    *)
(* order or two upgrade one lock; and which methods of the services do so. *)
(*                                                                         *)
(* What a session holds is tied to the program it runs, if that program is *)
(* in order: a lock it has was taken by an earlier step (HeldByStep), the  *)
(* guard of the row it comes to is held (MustHold), and two sessions never *)
(* hold conflicting locks (Compatible).  So nobody waits for a guarded     *)
(* row, and a session that waits for an unguarded one holds only lower     *)
(* ones or that row itself.  Ranks are bounded, so the waits of a cycle    *)
(* climb until they stay on one row, whose holders all upgrade it.         *)
(*                                                                         *)
(* That a method is Ordered is proved step by step along its body:         *)
(* Reaches says how high its locks stand so far and which rows it surely   *)
(* holds, and each kind of step has a lemma that carries it on.            *)
(***************************************************************************)
EXTENDS LedgerLocks, SequenceTheorems, WellFoundedInduction, TLAPS

AllOrdered == \A p \in Programs : Ordered(p)

\* Two sessions never hold conflicting locks on one row.
Compatible ==
    \A s, t \in Sessions : \A a \in held[s], b \in held[t] :
        s # t /\ a[1] = b[1] => ~Conflict(a[2], b[2])

\* What is held was locked by an earlier step and not given back since.
HeldByStep ==
    \A s \in Sessions : InOrder(program[s]) => \A lock \in held[s] :
        \E i \in 1 .. pc[s] - 1 :
            /\ i \in 1 .. Len(program[s])
            /\ program[s][i].row = lock[1] /\ program[s][i].mode = lock[2]
            /\ KeptUntil(program[s], i, pc[s])

\* The locks since the last query that could skip a row are held.
MustHold ==
    \A s \in Sessions : Running(s) =>
        \A i \in 1 .. pc[s] - 1 :
            /\ KeptUntil(program[s], i, pc[s])
            /\ \A j \in i + 1 .. pc[s] : program[s][j].op # "try"
            => <<program[s][i].row, program[s][i].mode>> \in held[s]

\* A guarded row is held together with its guard.
GuardHeld ==
    \A s \in Sessions : InOrder(program[s]) => \A lock \in held[s] :
        Guarded(lock[1]) => <<Guard[lock[1]], "update">> \in held[s]

IInv == TypeOK /\ Compatible /\ HeldByStep /\ MustHold /\ GuardHeld
-----------------------------------------------------------------------------
\* A session's program is a sequence of lock steps, and a running session stands at one of them.
LEMMA ProgramType ==
    ASSUME TypeOK, NEW s \in Sessions
    PROVE  /\ program[s] \in Seq(Steps)
           /\ Len(program[s]) \in Nat
           /\ \A k \in 1 .. Len(program[s]) : program[s][k] \in Steps
           /\ pc[s] \in Nat \ {0}
           /\ Running(s) => pc[s] \in 1 .. Len(program[s]) /\ program[s] \in Programs
  <1>1. << >> \in Seq(Steps) /\ Len(<< >>) = 0
    OBVIOUS
  <1>2. program[s] \in Seq(Steps)
    BY <1>1, ProgramsAssumption DEF TypeOK
  <1>3. pc[s] \in Nat \ {0}
    BY DEF TypeOK
  <1>4. Len(program[s]) \in Nat /\ \A k \in 1 .. Len(program[s]) : program[s][k] \in Steps
    BY <1>2
  <1>5. ASSUME Running(s) PROVE pc[s] \in 1 .. Len(program[s]) /\ program[s] \in Programs
    <2>1. pc[s] \in 1 .. Len(program[s])
      BY <1>3, <1>4, <1>5 DEF Running
    <2>2. program[s] # << >>
      BY <2>1, <1>1
    <2> QED BY <2>1, <2>2 DEF TypeOK
  <1> QED BY <1>2, <1>3, <1>4, <1>5

\* The step a running session stands at names a row and a mode.
LEMMA StepType ==
    ASSUME TypeOK, NEW s \in Sessions, Running(s)
    PROVE  Step(s) \in Steps /\ Step(s).row \in Rows /\ Step(s).mode \in Modes
  BY ProgramType DEF Step, Steps

\* Every step preserves the types.
LEMMA TypeStep ==
    ASSUME TypeOK, [Next]_vars
    PROVE  TypeOK'
  <1>1. ASSUME NEW s \in Sessions, NEW p \in Programs, Begin(s, p) PROVE TypeOK'
    BY <1>1 DEF Begin, TypeOK
  <1>2. ASSUME NEW s \in Sessions, Acquire(s) PROVE TypeOK'
    <2>1. <<Step(s).row, Step(s).mode>> \in Rows \X Modes
      BY <1>2, StepType DEF Acquire
    <2> QED BY <1>2, <2>1 DEF Acquire, TypeOK
  <1>3. ASSUME NEW s \in Sessions, SkipLocked(s) PROVE TypeOK'
    <2>1. PICK k \in pc[s] + 1 .. Len(program[s]) + 1 : pc' = [pc EXCEPT ![s] = k]
      BY <1>3 DEF SkipLocked
    <2>2. k \in Nat \ {0}
      BY <2>1, ProgramType
    <2> QED BY <1>3, <2>1, <2>2 DEF SkipLocked, TypeOK
  <1>4. ASSUME NEW s \in Sessions, RollBackToSavepoint(s) PROVE TypeOK'
    BY <1>4 DEF RollBackToSavepoint, TypeOK
  <1>5. ASSUME NEW s \in Sessions, End(s) PROVE TypeOK'
    BY <1>5 DEF End, TypeOK
  <1>6. CASE UNCHANGED vars
    BY <1>6 DEF vars, TypeOK
  <1> QED BY <1>1, <1>2, <1>3, <1>4, <1>5, <1>6 DEF Next, Finish, DeadlockDetected

\* A lock is only granted beside compatible ones, so the granted locks stay compatible.
LEMMA CompatibleStep ==
    ASSUME TypeOK, Compatible, [Next]_vars
    PROVE  Compatible'
  <1>1. ASSUME NEW s \in Sessions, NEW p \in Programs, Begin(s, p) PROVE Compatible'
    BY <1>1 DEF Begin, Compatible
  <1>2. ASSUME NEW s \in Sessions, Acquire(s) PROVE Compatible'
    <2> DEFINE new == <<Step(s).row, Step(s).mode>>
    <2>1. held' = [held EXCEPT ![s] = @ \cup {new}]
      BY <1>2 DEF Acquire
    <2>2. \A t \in Sessions : \A lock \in held[t] :
             s # t /\ lock[1] = new[1] => ~Conflict(lock[2], new[2]) /\ ~Conflict(new[2], lock[2])
      BY <1>2 DEF Acquire, InTheWay, Conflict
    <2>3. \A t \in Sessions : t # s => held'[t] = held[t]
      BY <2>1 DEF TypeOK
    <2>4. held'[s] = held[s] \cup {new}
      BY <2>1 DEF TypeOK
    <2>5. ASSUME NEW t \in Sessions, NEW u \in Sessions, NEW a \in held'[t], NEW b \in held'[u],
                 t # u, a[1] = b[1]
          PROVE  ~Conflict(a[2], b[2])
      <3>1. CASE t = s
        BY <3>1, <2>2, <2>3, <2>4, <2>5 DEF Compatible
      <3>2. CASE u = s
        BY <3>2, <2>2, <2>3, <2>4, <2>5 DEF Compatible
      <3>3. CASE t # s /\ u # s
        BY <3>3, <2>3, <2>5 DEF Compatible
      <3> QED BY <3>1, <3>2, <3>3
    <2> QED BY <2>5 DEF Compatible
  <1>3. ASSUME NEW s \in Sessions, SkipLocked(s) PROVE Compatible'
    BY <1>3 DEF SkipLocked, Compatible
  <1>4. ASSUME NEW s \in Sessions, RollBackToSavepoint(s) PROVE Compatible'
    <2>1. \A t \in Sessions : held'[t] \subseteq held[t]
      BY <1>4 DEF RollBackToSavepoint, TypeOK
    <2> QED BY <2>1 DEF Compatible
  <1>5. ASSUME NEW s \in Sessions, End(s) PROVE Compatible'
    <2>1. \A t \in Sessions : held'[t] \subseteq held[t]
      BY <1>5 DEF End, TypeOK
    <2> QED BY <2>1 DEF Compatible
  <1>6. CASE UNCHANGED vars
    BY <1>6 DEF vars, Compatible
  <1> QED BY <1>1, <1>2, <1>3, <1>4, <1>5, <1>6 DEF Next, Finish, DeadlockDetected

\* A session without a program holds nothing.
LEMMA NothingBegun ==
    ASSUME HeldByStep, NEW s \in Sessions, program[s] = << >>
    PROVE  held[s] = {}
  <1>1. Len(program[s]) = 0 /\ InOrder(program[s])
    BY DEF InOrder
  <1> QED BY <1>1 DEF HeldByStep

\* Every lock held was taken by an earlier step of the program and not released since.
LEMMA HeldByStepStep ==
    ASSUME TypeOK, HeldByStep, [Next]_vars
    PROVE  HeldByStep'
  <1> DEFINE Source(s, lock, i) ==
        /\ i \in 1 .. Len(program[s])
        /\ program[s][i].row = lock[1] /\ program[s][i].mode = lock[2]
        /\ KeptUntil(program[s], i, pc[s])
  <1>9. HeldByStep' <=> \A t \in Sessions : InOrder(program'[t]) => \A lock \in held'[t] :
             \E i \in 1 .. pc'[t] - 1 :
                 /\ i \in 1 .. Len(program'[t])
                 /\ program'[t][i].row = lock[1] /\ program'[t][i].mode = lock[2]
                 /\ KeptUntil(program'[t], i, pc'[t])
    BY DEF HeldByStep, InOrder, KeptUntil, UnderGuard, Guarded
  <1>0. ASSUME NEW s \in Sessions, \A t \in Sessions : t # s =>
                  held'[t] = held[t] /\ program'[t] = program[t] /\ pc'[t] = pc[t],
               InOrder(program'[s]) => \A lock \in held'[s] : \E i \in 1 .. pc'[s] - 1 :
                  /\ i \in 1 .. Len(program'[s])
                  /\ program'[s][i].row = lock[1] /\ program'[s][i].mode = lock[2]
                  /\ KeptUntil(program'[s], i, pc'[s])
        PROVE  HeldByStep'
    <2>1. ASSUME NEW t \in Sessions, InOrder(program'[t]), NEW lock \in held'[t]
          PROVE  \E i \in 1 .. pc'[t] - 1 :
                    /\ i \in 1 .. Len(program'[t])
                    /\ program'[t][i].row = lock[1] /\ program'[t][i].mode = lock[2]
                    /\ KeptUntil(program'[t], i, pc'[t])
      <3>1. CASE t = s BY <3>1, <2>1, <1>0
      <3>2. CASE t # s
        <4>1. lock \in held[t] /\ program'[t] = program[t] /\ pc'[t] = pc[t] /\ InOrder(program[t])
          BY <3>2, <2>1, <1>0
        <4> QED BY <4>1 DEF HeldByStep
      <3> QED BY <3>1, <3>2
    <2> QED BY <1>9, <2>1, Zenon
  <1>1. ASSUME NEW s \in Sessions, NEW p \in Programs, Begin(s, p) PROVE HeldByStep'
    <2>1. held[s] = {}
      BY <1>1, NothingBegun DEF Begin
    <2>2. held'[s] = {}
      BY <2>1, <1>1 DEF Begin
    <2> QED BY <2>2, <1>1, <1>0 DEF Begin, TypeOK
  <1>2. ASSUME NEW s \in Sessions, Acquire(s) PROVE HeldByStep'
    <2>1. pc[s] \in 1 .. Len(program[s]) /\ pc[s] \in Nat /\ Len(program[s]) \in Nat
      BY <1>2, ProgramType DEF Acquire
    <2>2. /\ held'[s] = held[s] \cup {<<Step(s).row, Step(s).mode>>}
          /\ pc'[s] = pc[s] + 1 /\ program' = program
          /\ Step(s).op # "release"
      BY <1>2 DEF Acquire, TypeOK
    <2>3. ASSUME InOrder(program[s]), NEW lock \in held'[s]
          PROVE  \E i \in 1 .. pc'[s] - 1 :
                    /\ i \in 1 .. Len(program'[s])
                    /\ program'[s][i].row = lock[1] /\ program'[s][i].mode = lock[2]
                    /\ KeptUntil(program'[s], i, pc'[s])
      <3>1. CASE lock \in held[s]
        <4>1. PICK i \in 1 .. pc[s] - 1 : Source(s, lock, i)
          BY <3>1, <2>3 DEF HeldByStep
        <4>2. KeptUntil(program[s], i, pc[s] + 1)
          BY <4>1, <2>1, <2>2 DEF KeptUntil, Step
        <4> QED BY <4>1, <4>2, <2>1, <2>2
      <3>2. CASE lock = <<Step(s).row, Step(s).mode>>
        <4>1. KeptUntil(program[s], pc[s], pc[s] + 1)
          BY <2>1, <2>2 DEF KeptUntil, Step
        <4>2. pc[s] \in 1 .. pc'[s] - 1 /\ pc'[s] = pc[s] + 1 /\ program' = program
          BY <2>1, <2>2
        <4>3. program[s][pc[s]].row = lock[1] /\ program[s][pc[s]].mode = lock[2]
          BY <3>2 DEF Step
        <4> QED BY <4>1, <4>2, <4>3, <2>1
      <3> QED BY <3>1, <3>2, <2>2
    <2> QED BY <2>3, <1>2, <1>0 DEF Acquire, TypeOK
  <1>3. ASSUME NEW s \in Sessions, SkipLocked(s) PROVE HeldByStep'
    <2>1. PICK k \in pc[s] + 1 .. Len(program[s]) + 1 : pc' = [pc EXCEPT ![s] = k]
      BY <1>3 DEF SkipLocked
    <2>2. pc[s] \in 1 .. Len(program[s]) /\ Len(program[s]) \in Nat /\ program[s] \in Programs
      BY <1>3, ProgramType DEF SkipLocked
    <2>3. InOrder(program[s]) => \A j \in 1 .. Len(program[s]) : program[s][j].op # "release"
      BY <1>3, <2>2 DEF SkipLocked, Step, InOrder
    <2>4. ASSUME InOrder(program[s]), NEW lock \in held'[s]
          PROVE  \E i \in 1 .. pc'[s] - 1 :
                    /\ i \in 1 .. Len(program'[s])
                    /\ program'[s][i].row = lock[1] /\ program'[s][i].mode = lock[2]
                    /\ KeptUntil(program'[s], i, pc'[s])
      <3>1. lock \in held[s] /\ pc'[s] = k /\ program' = program
        BY <1>3, <2>1 DEF SkipLocked, TypeOK
      <3>2. PICK i \in 1 .. pc[s] - 1 : Source(s, lock, i)
        BY <3>1, <2>4 DEF HeldByStep
      <3>3. KeptUntil(program[s], i, k)
        BY <3>2, <2>2, <2>3, <2>4 DEF KeptUntil
      <3> QED BY <3>1, <3>2, <3>3, <2>1, <2>2
    <2> QED BY <2>1, <2>4, <1>3, <1>0 DEF SkipLocked, TypeOK
  <1>4. ASSUME NEW s \in Sessions, RollBackToSavepoint(s) PROVE HeldByStep'
    <2>1. pc[s] \in 1 .. Len(program[s]) /\ pc[s] \in Nat /\ Len(program[s]) \in Nat
      BY <1>4, ProgramType DEF RollBackToSavepoint
    <2>2. /\ held'[s] = {lock \in held[s] : lock[1] # Step(s).row}
          /\ pc'[s] = pc[s] + 1 /\ program' = program
      BY <1>4 DEF RollBackToSavepoint, TypeOK
    <2>3. ASSUME InOrder(program[s]), NEW lock \in held'[s]
          PROVE  \E i \in 1 .. pc'[s] - 1 :
                    /\ i \in 1 .. Len(program'[s])
                    /\ program'[s][i].row = lock[1] /\ program'[s][i].mode = lock[2]
                    /\ KeptUntil(program'[s], i, pc'[s])
      <3>1. PICK i \in 1 .. pc[s] - 1 : Source(s, lock, i)
        BY <2>2, <2>3 DEF HeldByStep
      <3>2. KeptUntil(program[s], i, pc[s] + 1)
        BY <3>1, <2>1, <2>2, SMTT(20) DEF KeptUntil, Step
      <3> QED BY <3>1, <3>2, <2>1, <2>2
    <2> QED BY <2>3, <1>4, <1>0 DEF RollBackToSavepoint, TypeOK
  <1>5. ASSUME NEW s \in Sessions, End(s) PROVE HeldByStep'
    <2>1. held'[s] = {}
      BY <1>5 DEF End, TypeOK
    <2> QED BY <2>1, <1>5, <1>0 DEF End, TypeOK
  <1>6. CASE UNCHANGED vars
    BY <1>6, <1>9, Zenon DEF vars, HeldByStep
  <1> QED BY <1>1, <1>2, <1>3, <1>4, <1>5, <1>6 DEF Next, Finish, DeadlockDetected

\* A step passed since the last query that could skip, and not given back, is a lock still held.
LEMMA MustHoldStep ==
    ASSUME TypeOK, MustHold, [Next]_vars
    PROVE  MustHold'
  <1> DEFINE Sure(p, i, k) ==
        /\ KeptUntil(p, i, k)
        /\ \A j \in i + 1 .. k : p[j].op # "try"
  <1>0. ASSUME NEW s \in Sessions, \A t \in Sessions : t # s =>
                  held'[t] = held[t] /\ program'[t] = program[t] /\ pc'[t] = pc[t],
               pc'[s] <= Len(program'[s]) => \A i \in 1 .. pc'[s] - 1 :
                  Sure(program'[s], i, pc'[s]) =>
                      <<program'[s][i].row, program'[s][i].mode>> \in held'[s]
        PROVE  MustHold'
    <2>1. ASSUME NEW t \in Sessions, pc'[t] <= Len(program'[t]), NEW i \in 1 .. pc'[t] - 1,
                 Sure(program'[t], i, pc'[t])
          PROVE  <<program'[t][i].row, program'[t][i].mode>> \in held'[t]
      <3>1. CASE t = s BY <3>1, <2>1, <1>0
      <3>2. CASE t # s
        <4>1. held'[t] = held[t] /\ program'[t] = program[t] /\ pc'[t] = pc[t]
          BY <3>2, <1>0
        <4> QED BY <4>1, <2>1 DEF MustHold, Running
      <3> QED BY <3>1, <3>2
    <2> QED BY <2>1 DEF MustHold, Running
  <1>1. ASSUME NEW s \in Sessions, NEW p \in Programs, Begin(s, p) PROVE MustHold'
    <2>1. pc'[s] = 1
      BY <1>1 DEF Begin, TypeOK
    <2> QED BY <2>1, <1>1, <1>0 DEF Begin, TypeOK
  <1>2. ASSUME NEW s \in Sessions, Acquire(s) PROVE MustHold'
    <2>1. pc[s] \in 1 .. Len(program[s]) /\ pc[s] \in Nat /\ Len(program[s]) \in Nat
      BY <1>2, ProgramType DEF Acquire
    <2>2. /\ held'[s] = held[s] \cup {<<Step(s).row, Step(s).mode>>}
          /\ pc'[s] = pc[s] + 1 /\ program' = program
      BY <1>2 DEF Acquire, TypeOK
    <2>3. ASSUME NEW i \in 1 .. pc'[s] - 1, Sure(program[s], i, pc[s] + 1)
          PROVE  <<program[s][i].row, program[s][i].mode>> \in held'[s]
      <3>1. CASE i = pc[s] BY <3>1, <2>2 DEF Step
      <3>2. CASE i \in 1 .. pc[s] - 1
        <4>1. Sure(program[s], i, pc[s])
          BY <3>2, <2>1, <2>3 DEF KeptUntil
        <4> QED BY <4>1, <3>2, <2>1, <2>2 DEF MustHold, Running
      <3> QED BY <3>1, <3>2, <2>1, <2>2
    <2> QED BY <2>2, <2>3, <1>2, <1>0 DEF Acquire, TypeOK
  <1>3. ASSUME NEW s \in Sessions, SkipLocked(s) PROVE MustHold'
    <2>1. PICK k \in pc[s] + 1 .. Len(program[s]) + 1 :
             /\ k <= Len(program[s]) => program[s][k].op = "try"
             /\ pc' = [pc EXCEPT ![s] = k]
      BY <1>3 DEF SkipLocked
    <2>2. pc[s] \in Nat /\ Len(program[s]) \in Nat /\ program' = program /\ pc'[s] = k
      BY <1>3, <2>1, ProgramType DEF SkipLocked, TypeOK
    <2>3. ASSUME k <= Len(program[s]), NEW i \in 1 .. k - 1 PROVE ~Sure(program[s], i, k)
      BY <2>1, <2>2, <2>3
    <2> QED BY <2>2, <2>3, <1>3, <1>0 DEF SkipLocked, TypeOK
  <1>4. ASSUME NEW s \in Sessions, RollBackToSavepoint(s) PROVE MustHold'
    <2>1. pc[s] \in 1 .. Len(program[s]) /\ pc[s] \in Nat /\ Len(program[s]) \in Nat
      BY <1>4, ProgramType DEF RollBackToSavepoint
    <2>2. /\ held'[s] = {lock \in held[s] : lock[1] # Step(s).row}
          /\ pc'[s] = pc[s] + 1 /\ program' = program
      BY <1>4 DEF RollBackToSavepoint, TypeOK
    <2>3. ASSUME NEW i \in 1 .. pc'[s] - 1, Sure(program[s], i, pc[s] + 1)
          PROVE  <<program[s][i].row, program[s][i].mode>> \in held'[s]
      <3>1. i # pc[s]
        BY <2>3, <1>4 DEF KeptUntil, RollBackToSavepoint, Step
      <3>2. i \in 1 .. pc[s] - 1 /\ pc[s] \in i + 1 .. (pc[s] + 1) - 1
        BY <3>1, <2>1, <2>2
      <3>3. Sure(program[s], i, pc[s])
        BY <3>2, <2>1, <2>3 DEF KeptUntil
      <3>4. program[s][i].row # Step(s).row
        BY <3>2, <2>3, <1>4 DEF KeptUntil, RollBackToSavepoint, Step
      <3>5. <<program[s][i].row, program[s][i].mode>> \in held[s]
        <4>1. Running(s) /\ i \in 1 .. pc[s] - 1
          BY <3>2, <2>1 DEF Running
        <4>2. KeptUntil(program[s], i, pc[s]) /\ \A j \in i + 1 .. pc[s] : program[s][j].op # "try"
          BY <3>3
        <4> QED BY <4>1, <4>2, Zenon DEF MustHold
      <3> QED BY <3>4, <3>5, <2>2
    <2>4. \A t \in Sessions : t # s =>
             held'[t] = held[t] /\ program'[t] = program[t] /\ pc'[t] = pc[t]
      BY <1>4 DEF RollBackToSavepoint, TypeOK
    <2>5. pc'[s] <= Len(program'[s]) => \A i \in 1 .. pc'[s] - 1 :
             Sure(program'[s], i, pc'[s]) =>
                 <<program'[s][i].row, program'[s][i].mode>> \in held'[s]
      BY <2>2, <2>3
    <2> QED BY <2>4, <2>5, <1>0
  <1>5. ASSUME NEW s \in Sessions, End(s) PROVE MustHold'
    <2>1. pc'[s] = 1
      BY <1>5 DEF End, TypeOK
    <2> QED BY <2>1, <1>5, <1>0 DEF End, TypeOK
  <1>6. CASE UNCHANGED vars
    BY <1>6 DEF vars, MustHold, KeptUntil, Running
  <1> QED BY <1>1, <1>2, <1>3, <1>4, <1>5, <1>6 DEF Next, Finish, DeadlockDetected

\* A session that comes to a guarded row holds the row's guard.
LEMMA ComesWithGuard ==
    ASSUME TypeOK, MustHold, NEW s \in Sessions, InOrder(program[s]), Running(s),
           Step(s).op # "release", Guarded(Step(s).row)
    PROVE  <<Guard[Step(s).row], "update">> \in held[s]
  <1>1. pc[s] \in 1 .. Len(program[s]) /\ program[s] \in Programs
    BY ProgramType
  <1>2. UnderGuard(program[s], pc[s])
    BY <1>1 DEF InOrder, Step
  <1>3. PICK i \in 1 .. pc[s] - 1 :
           /\ program[s][i].row = Guard[Step(s).row] /\ program[s][i].mode = "update"
           /\ KeptUntil(program[s], i, pc[s])
           /\ \A j \in i + 1 .. pc[s] : program[s][j].op # "try"
    BY <1>2 DEF UnderGuard, Step
  <1> QED BY <1>3 DEF MustHold

\* A guarded row stays held together with its guard: no program gives the guard back first.
LEMMA GuardHeldStep ==
    ASSUME TypeOK, MustHold, HeldByStep, GuardHeld, [Next]_vars
    PROVE  GuardHeld'
  <1>9. GuardHeld' <=> \A t \in Sessions : InOrder(program'[t]) => \A lock \in held'[t] :
             Guarded(lock[1]) => <<Guard[lock[1]], "update">> \in held'[t]
    BY DEF GuardHeld, InOrder, KeptUntil, UnderGuard, Guarded
  <1>0. ASSUME NEW s \in Sessions,
               \A t \in Sessions : t # s => held'[t] = held[t] /\ program'[t] = program[t],
               InOrder(program'[s]) => \A lock \in held'[s] :
                   Guarded(lock[1]) => <<Guard[lock[1]], "update">> \in held'[s]
        PROVE  GuardHeld'
    <2>1. ASSUME NEW t \in Sessions, InOrder(program'[t]), NEW lock \in held'[t], Guarded(lock[1])
          PROVE  <<Guard[lock[1]], "update">> \in held'[t]
      BY <1>0, <2>1 DEF GuardHeld
    <2> QED BY <1>9, <2>1, Zenon
  <1>1. ASSUME NEW s \in Sessions, NEW p \in Programs, Begin(s, p) PROVE GuardHeld'
    <2>1. held'[s] = {}
      BY <1>1, NothingBegun DEF Begin
    <2> QED BY <1>0, <1>1, <2>1 DEF Begin, TypeOK
  <1>2. ASSUME NEW s \in Sessions, Acquire(s) PROVE GuardHeld'
    <2>1. held'[s] = held[s] \cup {<<Step(s).row, Step(s).mode>>} /\ program' = program
      BY <1>2 DEF Acquire, TypeOK
    <2>2. \A t \in Sessions : t # s => held'[t] = held[t]
      BY <1>2 DEF Acquire, TypeOK
    <2>3. InOrder(program[s]) /\ Guarded(Step(s).row) => <<Guard[Step(s).row], "update">> \in held[s]
      BY <1>2, ComesWithGuard DEF Acquire
    <2>4. InOrder(program'[s]) => \A lock \in held'[s] :
             Guarded(lock[1]) => <<Guard[lock[1]], "update">> \in held'[s]
      BY <2>1, <2>3 DEF GuardHeld
    <2> QED BY <1>0, <2>1, <2>2, <2>4
  <1>3. ASSUME NEW s \in Sessions, SkipLocked(s) PROVE GuardHeld'
    <2>1. held' = held /\ program' = program
      BY <1>3 DEF SkipLocked
    <2> QED BY <1>0, <2>1 DEF GuardHeld
  <1>4. ASSUME NEW s \in Sessions, RollBackToSavepoint(s) PROVE GuardHeld'
    <2>1. held'[s] = {lock \in held[s] : lock[1] # Step(s).row} /\ program' = program
      BY <1>4 DEF RollBackToSavepoint, TypeOK
    <2>2. \A t \in Sessions : t # s => held'[t] = held[t]
      BY <1>4 DEF RollBackToSavepoint, TypeOK
    <2>3. pc[s] \in 1 .. Len(program[s]) /\ program[s] \in Programs
      BY <1>4, ProgramType DEF RollBackToSavepoint
    <2>4. ASSUME InOrder(program[s]), NEW lock \in held[s], Guarded(lock[1])
          PROVE  Guard[lock[1]] # Step(s).row
      <3>1. PICK i \in 1 .. pc[s] - 1 :
               i \in 1 .. Len(program[s]) /\ program[s][i].row = lock[1]
        BY <2>4 DEF HeldByStep
      <3>2. i < pc[s]
        BY <3>1, <2>3
      <3> QED BY <3>1, <3>2, <2>3, <2>4, <1>4
             DEF InOrder, RollBackToSavepoint, Step
    <2>5. ASSUME InOrder(program[s]), NEW lock \in held'[s], Guarded(lock[1])
          PROVE  <<Guard[lock[1]], "update">> \in held'[s]
      BY <2>1, <2>4, <2>5 DEF GuardHeld
    <2>6. InOrder(program'[s]) => \A lock \in held'[s] :
             Guarded(lock[1]) => <<Guard[lock[1]], "update">> \in held'[s]
      BY <2>1, <2>5
    <2> QED BY <1>0, <2>1, <2>2, <2>6
  <1>5. ASSUME NEW s \in Sessions, End(s) PROVE GuardHeld'
    <2>1. held'[s] = {} /\ \A t \in Sessions : t # s => held'[t] = held[t] /\ program'[t] = program[t]
      BY <1>5 DEF End, TypeOK
    <2> QED BY <1>0, <2>1
  <1>6. CASE UNCHANGED vars
    BY <1>6, <1>9, Zenon DEF vars, GuardHeld
  <1> QED BY <1>1, <1>2, <1>3, <1>4, <1>5, <1>6 DEF Next, Finish, DeadlockDetected

\* The conjunction of the parts above is an inductive invariant, whatever the programs.
LEMMA Inductive == Spec => []IInv
  <1>1. Init => IInv
    <2> SUFFICES ASSUME Init PROVE IInv
      OBVIOUS
    <2>1. TypeOK
      BY DEF Init, TypeOK
    <2>2. \A s \in Sessions : held[s] = {} /\ pc[s] = 1
      BY DEF Init
    <2> QED BY <2>1, <2>2 DEF IInv, Compatible, HeldByStep, MustHold, GuardHeld
  <1>2. IInv /\ [Next]_vars => IInv'
    BY TypeStep, CompatibleStep, HeldByStepStep, MustHoldStep, GuardHeldStep DEF IInv
  <1> QED BY <1>1, <1>2, PTL DEF Spec

\* Among sessions whose programs are in order nobody waits for a guarded row: whoever
\* comes to it, and whoever holds it, holds the row's guard.
LEMMA WaitsAreUnguarded ==
    ASSUME IInv, NEW s \in Sessions, NEW t \in Sessions, WaitsFor(s, t),
           InOrder(program[s]), InOrder(program[t])
    PROVE  ~Guarded(Step(s).row)
  <1> SUFFICES ASSUME Guarded(Step(s).row) PROVE FALSE
    OBVIOUS
  <1>1. <<Guard[Step(s).row], "update">> \in held[s]
    BY ComesWithGuard DEF IInv, WaitsFor
  <1>2. <<Guard[Step(s).row], "update">> \in held[t] /\ s # t
    BY DEF IInv, WaitsFor, InTheWay, GuardHeld
  <1> QED BY <1>1, <1>2 DEF IInv, Compatible, Conflict

\* Whom s waits for waits higher up, or upgrades its lock on the row s waits for.
LEMMA ClimbsOrUpgrades ==
    ASSUME IInv, NEW s \in Sessions, NEW t \in Sessions, NEW u \in Sessions,
           WaitsFor(s, t), WaitsFor(t, u),
           InOrder(program[s]), InOrder(program[t]), InOrder(program[u])
    PROVE  \/ Rank[Step(s).row] < Rank[Step(t).row]
           \/ Step(s).row = Step(t).row /\ Upgrading(t) /\ ~LocksOnce(program[t])
  <1>1. ~Guarded(Step(s).row) /\ ~Guarded(Step(t).row)
    BY WaitsAreUnguarded
  <1>2. PICK lock \in held[t] : lock[1] = Step(s).row
    BY DEF WaitsFor, InTheWay
  <1>3. PICK i \in 1 .. pc[t] - 1 :
           program[t][i].row = lock[1] /\ KeptUntil(program[t], i, pc[t])
    BY DEF IInv, HeldByStep
  <1>4. pc[t] \in 1 .. Len(program[t])
    BY ProgramType DEF IInv, WaitsFor
  <1>5. Rank[Step(s).row] < Rank[Step(t).row] \/ Step(s).row = Step(t).row
    BY <1>1, <1>2, <1>3, <1>4 DEF InOrder, WaitsFor, Step
  <1>6. Step(s).row = Step(t).row => Upgrading(t) /\ ~LocksOnce(program[t])
    BY <1>1, <1>2, <1>3, <1>4 DEF LocksOnce, Upgrading, WaitsFor, Step
  <1> QED BY <1>5, <1>6

\* Whatever the rows, the ranks, the sessions and the programs: if every program locks
\* in rank order, as the comments of create_run ask, a session in somebody's way waits
\* only for a higher row.
THEOREM ClimbingWaits ==
    ASSUME AllOrdered PROVE Spec => []WaitsClimb
  <1>1. IInv => WaitsClimb
    <2> SUFFICES ASSUME IInv, NEW s \in Sessions, NEW t \in Sessions,
                        NEW u \in Sessions, WaitsFor(s, t), WaitsFor(t, u)
                 PROVE  Rank[Step(s).row] < Rank[Step(t).row]
      BY DEF WaitsClimb
    <2>1. InOrder(<< >>)
      BY DEF InOrder
    <2>2. InOrder(program[s]) /\ InOrder(program[t]) /\ InOrder(program[u])
      BY <2>1 DEF AllOrdered, Ordered, IInv, TypeOK
    <2>3. LocksOnce(program[t])
      BY ProgramType DEF AllOrdered, Ordered, IInv, WaitsFor
    <2> QED BY <2>2, <2>3, ClimbsOrUpgrades
  <1> QED BY <1>1, Inductive, PTL

-----------------------------------------------------------------------------
(* Cycles. *)

\* A set of naturals has a least element, when some relation orders them as they are.
LEMMA LeastIn ==
    ASSUME NEW R, IsWellFoundedOn(R, Nat), \A x, y \in Nat : y < x => <<y, x>> \in R,
           NEW T, T \subseteq Nat, T # {}
    PROVE  \E m \in T : \A n \in T : m <= n
<1>1. PICK x \in T : \A y \in T : ~ (<<y, x>> \in R)
  BY WFMin
<1>2. \A y \in T : ~ (y < x) /\ y \in Nat /\ x \in Nat
  BY <1>1
<1>3. QED
  BY <1>2

\* The library's relation is such a one.
LEMMA Orders == \A x, y \in Nat : y < x => <<y, x>> \in OpToRel(<, Nat)
BY DEF OpToRel

\* Every set of naturals that is not empty has a least element.
LEMMA Least ==
    ASSUME NEW T, T \subseteq Nat, T # {}
    PROVE  \E m \in T : \A n \in T : m <= n
BY LeastIn, Orders, NatLessThanWellFounded, Zenon

\* Among the sessions of a cycle one waits for the highest row.
LEMMA HighestWait ==
    ASSUME IInv, NEW B \in Nat, \A row \in Rows : Rank[row] <= B,
           NEW C \in SUBSET Sessions, WaitCycle(C)
    PROVE  \E s \in C : \A t \in C : /\ Rank[Step(s).row] \in Nat /\ Rank[Step(t).row] \in Nat
                                     /\ Rank[Step(t).row] <= Rank[Step(s).row]
<1> DEFINE T == {B - Rank[Step(s).row] : s \in C}
<1>1. \A s \in C : Rank[Step(s).row] \in Nat /\ Rank[Step(s).row] <= B
  <2>1. \A s \in C : Step(s).row \in Rows
    BY StepType DEF IInv, WaitsFor, WaitCycle
  <2>2. QED
    BY <2>1, RankAssumption
<1>2. T \subseteq Nat /\ T # {}
  BY <1>1 DEF WaitCycle
<1>3. PICK m \in T : \A n \in T : m <= n
  BY <1>2, Least
<1>4. PICK s \in C : m = B - Rank[Step(s).row]
  BY <1>3
<1>5. \A t \in C : m <= B - Rank[Step(t).row]
  BY <1>3
<1>6. QED
  BY <1>1, <1>4, <1>5

\* From the highest wait on, a cycle of programs in order stays on one row: whoever is
\* waited for there upgrades its lock, and so does whom it waits for in turn.
LEMMA CycleUpgrades ==
    ASSUME IInv, NEW B \in Nat, \A row \in Rows : Rank[row] <= B,
           NEW C \in SUBSET Sessions, WaitCycle(C), \A s \in C : InOrder(program[s])
    PROVE  \E s, t \in C : /\ s # t /\ Step(s).row = Step(t).row
                           /\ Upgrading(s) /\ ~LocksOnce(program[s])
                           /\ Upgrading(t) /\ ~LocksOnce(program[t])
<1>1. PICK s \in C : \A t \in C : /\ Rank[Step(s).row] \in Nat /\ Rank[Step(t).row] \in Nat
                                  /\ Rank[Step(t).row] <= Rank[Step(s).row]
  BY HighestWait
<1>2. PICK t \in C : WaitsFor(s, t)
  BY DEF WaitCycle
<1>3. PICK u \in C : WaitsFor(t, u)
  BY DEF WaitCycle
<1>4. PICK v \in C : WaitsFor(u, v)
  BY DEF WaitCycle
<1>5. s \in Sessions /\ t \in Sessions /\ u \in Sessions /\ v \in Sessions
  OBVIOUS
<1>6. Step(s).row = Step(t).row /\ Upgrading(t) /\ ~LocksOnce(program[t])
  <2>1. ~(Rank[Step(s).row] < Rank[Step(t).row])
    BY <1>1
  <2>2. QED
    BY <1>2, <1>3, <1>5, <2>1, ClimbsOrUpgrades
<1>7. Step(t).row = Step(u).row /\ Upgrading(u) /\ ~LocksOnce(program[u])
  <2>1. ~(Rank[Step(t).row] < Rank[Step(u).row])
    BY <1>1, <1>6
  <2>2. QED
    BY <1>3, <1>4, <1>5, <2>1, ClimbsOrUpgrades
<1>8. t # u
  BY <1>3 DEF WaitsFor, InTheWay
<1>9. QED
  BY <1>6, <1>7, <1>8

\* Whatever the programs, and however many sessions run them: sessions that wait only on
\* each other include one whose program leaves the documented order, or two that upgrade
\* their locks on one row.
THEOREM DeadlocksExplained ==
    ASSUME NEW B \in Nat, \A row \in Rows : Rank[row] <= B
    PROVE  Spec => []CyclesExplained
<1>1. IInv => CyclesExplained
  BY CycleUpgrades DEF CyclesExplained
<1>2. QED
  BY <1>1, Inductive, PTL

\* So if every program locks in rank order, no set of sessions waits only on itself and
\* PostgreSQL never aborts one of them with deadlock_detected.
THEOREM OrderedNeverDeadlock ==
    ASSUME AllOrdered, NEW B \in Nat, \A row \in Rows : Rank[row] <= B
    PROVE  Spec => []NoWaitCycle
<1>1. IInv => NoWaitCycle
  <2> SUFFICES ASSUME IInv, NEW C \in SUBSET Sessions, WaitCycle(C)
               PROVE  FALSE
    BY DEF NoWaitCycle
  <2>1. \A s \in C : program[s] \in Programs
    BY ProgramType DEF IInv, WaitCycle, WaitsFor
  <2>2. \A s \in C : InOrder(program[s]) /\ LocksOnce(program[s])
    BY <2>1 DEF AllOrdered, Ordered
  <2>3. QED
    BY <2>2, CycleUpgrades
<1>2. QED
  BY <1>1, Inductive, PTL

-----------------------------------------------------------------------------
(* The bodies of the methods. *)

\* The rows are ranked and guarded as the comments say.
Documented == Rank = DocumentedRank /\ Guard = DocumentedGuard

\* What a program has when the next step comes: its locks of rows without a guard rank at
\* most top, and it surely holds the rows of G.
Sure(p, g) ==
    \E i \in 1 .. Len(p) :
        /\ p[i].row = g /\ p[i].mode = "update" /\ KeptUntil(p, i, Len(p) + 1)
        /\ \A j \in i + 1 .. Len(p) : p[j].op # "try"

Below(p, top) ==
    \A i \in 1 .. Len(p) :
        KeptUntil(p, i, Len(p) + 1) /\ ~Guarded(p[i].row) => Rank[p[i].row] <= top

Reaches(p, top, G) ==
    /\ p \in Seq(Steps) /\ Ordered(p)
    /\ Below(p, top)
    /\ \A g \in G : Sure(p, g)

\* A program with a step more.
LEMMA StepMore ==
    ASSUME NEW p \in Seq(Steps), NEW a \in Steps
    PROVE  /\ p \o <<a>> \in Seq(Steps) /\ Len(p) \in Nat
           /\ Len(p \o <<a>>) = Len(p) + 1
           /\ \A i \in 1 .. Len(p) : (p \o <<a>>)[i] = p[i]
           /\ (p \o <<a>>)[Len(p) + 1] = a
OBVIOUS

\* What it has kept so far.
LEMMA KeptMore ==
    ASSUME NEW p \in Seq(Steps), NEW q \in Seq(Steps), Len(q) = Len(p) + 1,
           \A i \in 1 .. Len(p) : q[i] = p[i],
           NEW i \in 1 .. Len(p), NEW k \in 1 .. Len(p) + 1
    PROVE  KeptUntil(q, i, k) <=> KeptUntil(p, i, k)
<1>1. Len(p) \in Nat /\ q[i] = p[i]
  OBVIOUS
<1>2. \A j \in i + 1 .. k - 1 : j \in 1 .. Len(p)
  BY <1>1
<1>3. \A j \in i + 1 .. k - 1 : q[j] = p[j]
  BY <1>2
<1>4. QED
  BY <1>1, <1>3 DEF KeptUntil

\* The step more is no release: what was kept is kept.
LEMMA KeptOn ==
    ASSUME NEW p \in Seq(Steps), NEW q \in Seq(Steps), Len(q) = Len(p) + 1,
           \A i \in 1 .. Len(p) : q[i] = p[i], q[Len(p) + 1].op # "release",
           NEW i \in 1 .. Len(p)
    PROVE  KeptUntil(q, i, Len(q) + 1) <=> KeptUntil(p, i, Len(p) + 1)
<1>1. Len(p) \in Nat
  OBVIOUS
<1>2. \A j : j \in i + 1 .. (Len(q) + 1) - 1 <=> j \in i + 1 .. (Len(p) + 1) - 1 \/ j = Len(p) + 1
  BY <1>1
<1>3. \A j \in i + 1 .. (Len(p) + 1) - 1 : q[j] = p[j]
  BY <1>1
<1>4. QED
  BY <1>2, <1>3 DEF KeptUntil

\* What Ordered asks of step k.
Placed(p, k) ==
    /\ p[k].op # "release" /\ Guarded(p[k].row) => UnderGuard(p, k)
    /\ p[k].op = "lock" /\ ~Guarded(p[k].row) =>
         \A i \in 1 .. k - 1 :
             KeptUntil(p, i, k) /\ ~Guarded(p[i].row) => Rank[p[i].row] < Rank[p[k].row]
    /\ p[k].op = "release" =>
         \A i \in 1 .. Len(p) :
             /\ p[i].op # "try"
             /\ i < k /\ Guarded(p[i].row) => Guard[p[i].row] # p[k].row

\* A program is ordered when each of its steps is in its place.
LEMMA EachPlaced ==
    ASSUME NEW p \in Seq(Steps)
    PROVE  Ordered(p) <=> \A k \in 1 .. Len(p) : Placed(p, k)
<1>1. Len(p) \in Nat /\ \A k \in 1 .. Len(p) : p[k] \in Steps
  OBVIOUS
<1>2. \A k \in 1 .. Len(p) : Rank[p[k].row] \in Nat
  BY <1>1, RankAssumption DEF Steps
<1>3. \A k \in 1 .. Len(p) : \A i \in 1 .. k - 1 : i \in 1 .. Len(p)
  BY <1>1
<1>4. ASSUME NEW k \in 1 .. Len(p), p[k].op = "lock", ~Guarded(p[k].row), NEW i \in 1 .. k - 1
      PROVE  /\ Rank[p[i].row] < Rank[p[k].row] => p[i].row # p[k].row
  BY <1>2, <1>3, <1>4
<1>5. Ordered(p) => \A k \in 1 .. Len(p) : Placed(p, k)
  BY Zenon DEF Ordered, InOrder, LocksOnce, Placed
<1>6. ASSUME \A k \in 1 .. Len(p) : Placed(p, k) PROVE InOrder(p)
  BY <1>6, Zenon DEF InOrder, Placed
<1>7. ASSUME \A k \in 1 .. Len(p) : Placed(p, k) PROVE LocksOnce(p)
  BY <1>4, <1>7, Zenon DEF LocksOnce, Placed
<1>8. QED
  BY <1>5, <1>6, <1>7 DEF Ordered

\* An ordered program stays so when the step more is in its place.
LEMMA OrderedMore ==
    ASSUME NEW p \in Seq(Steps), Ordered(p), NEW q \in Seq(Steps), Len(q) = Len(p) + 1,
           \A i \in 1 .. Len(p) : q[i] = p[i],
           q[Len(p) + 1].op = "try" => \A i \in 1 .. Len(p) : p[i].op # "release",
           Placed(q, Len(p) + 1)
    PROVE  Ordered(q)
<1>1. Len(p) \in Nat
  OBVIOUS
<1>2. ASSUME NEW k \in 1 .. Len(p) PROVE Placed(q, k)
  <2>1. Placed(p, k)
    BY EachPlaced
  <2>2. q[k] = p[k] /\ \A i \in 1 .. k - 1 : i \in 1 .. Len(p) /\ q[i] = p[i]
    BY <1>1
  <2>3. k \in 1 .. Len(p) + 1
    BY <1>1
  <2>4. \A i \in 1 .. k - 1 : KeptUntil(q, i, k) <=> KeptUntil(p, i, k)
    BY <2>2, <2>3, KeptMore
  <2>5. \A i \in 1 .. k - 1 : \A j \in i + 1 .. k : q[j] = p[j]
    BY <1>1
  <2>6. UnderGuard(p, k) => UnderGuard(q, k)
    BY <2>2, <2>4, <2>5 DEF UnderGuard
  <2>7. ASSUME p[k].op = "release", NEW i \in 1 .. Len(q)
        PROVE  /\ q[i].op # "try"
               /\ i < k /\ Guarded(q[i].row) => Guard[q[i].row] # q[k].row
    <3>1. CASE i \in 1 .. Len(p)
      BY <2>1, <2>2, <2>7, <3>1 DEF Placed
    <3>2. CASE i = Len(p) + 1
      BY <1>1, <2>7, <3>2
    <3>3. QED
      BY <1>1, <3>1, <3>2
  <2>8. QED
    BY <2>1, <2>2, <2>4, <2>6, <2>7 DEF Placed
<1>3. \A k \in 1 .. Len(q) : k \in 1 .. Len(p) \/ k = Len(p) + 1
  BY <1>1
<1>4. \A k \in 1 .. Len(q) : Placed(q, k)
  BY <1>2, <1>3
<1>5. QED
  BY <1>4, EachPlaced

\* A step more that locks a row.
LEMMA LockMore ==
    ASSUME NEW p, NEW top, NEW G, Reaches(p, top, G), NEW a \in Steps, a.op # "release",
           a.op = "try" => \A i \in 1 .. Len(p) : p[i].op # "release"
    PROVE  /\ p \in Seq(Steps) /\ Ordered(p) /\ Below(p, top)
           /\ p \o <<a>> \in Seq(Steps) /\ Len(p) \in Nat /\ Len(p \o <<a>>) = Len(p) + 1
           /\ \A i \in 1 .. Len(p) : /\ (p \o <<a>>)[i] = p[i]
                                     /\ KeptUntil(p \o <<a>>, i, Len(p) + 1) <=> KeptUntil(p, i, Len(p) + 1)
                                     /\ KeptUntil(p \o <<a>>, i, Len(p \o <<a>>) + 1) <=> KeptUntil(p, i, Len(p) + 1)
           /\ (p \o <<a>>)[Len(p) + 1] = a
           /\ KeptUntil(p \o <<a>>, Len(p) + 1, Len(p \o <<a>>) + 1)
           /\ Placed(p \o <<a>>, Len(p) + 1) => Ordered(p \o <<a>>)
<1> DEFINE q == p \o <<a>>
<1>1. /\ p \in Seq(Steps) /\ Ordered(p) /\ Below(p, top)
  BY DEF Reaches
<1>2. /\ q \in Seq(Steps) /\ Len(p) \in Nat /\ Len(q) = Len(p) + 1
      /\ \A i \in 1 .. Len(p) : q[i] = p[i]
      /\ q[Len(p) + 1] = a
  BY <1>1, StepMore
<1> HIDE DEF q
<1>3. \A i \in 1 .. Len(p) : KeptUntil(q, i, Len(p) + 1) <=> KeptUntil(p, i, Len(p) + 1)
  BY <1>1, <1>2, KeptMore
<1>4. \A i \in 1 .. Len(p) : KeptUntil(q, i, Len(q) + 1) <=> KeptUntil(p, i, Len(p) + 1)
  BY <1>1, <1>2, KeptOn
<1>5. KeptUntil(q, Len(p) + 1, Len(q) + 1)
  BY <1>2 DEF KeptUntil
<1>6. Placed(q, Len(p) + 1) => Ordered(q)
  BY <1>1, <1>2, OrderedMore
<1>7. QED
  BY <1>1, <1>2, <1>3, <1>4, <1>5, <1>6 DEF q

\* A lock more, of a row above all that is held.
LEMMA HigherLock ==
    ASSUME NEW p, NEW top \in Nat, NEW G, Reaches(p, top, G), NEW a \in Steps, a.op # "release",
           a.op = "try" => \A i \in 1 .. Len(p) : p[i].op # "release",
           ~Guarded(a.row), top < Rank[a.row]
    PROVE  Ordered(p \o <<a>>) /\ Below(p \o <<a>>, Rank[a.row])
<1> DEFINE q == p \o <<a>>
<1>1. /\ p \in Seq(Steps) /\ Ordered(p) /\ Below(p, top)
      /\ q \in Seq(Steps) /\ Len(p) \in Nat /\ Len(q) = Len(p) + 1
      /\ \A i \in 1 .. Len(p) : /\ q[i] = p[i]
                                /\ KeptUntil(q, i, Len(p) + 1) <=> KeptUntil(p, i, Len(p) + 1)
                                /\ KeptUntil(q, i, Len(q) + 1) <=> KeptUntil(p, i, Len(p) + 1)
      /\ q[Len(p) + 1] = a
      /\ Placed(q, Len(p) + 1) => Ordered(q)
  BY LockMore
<1> HIDE DEF q
<1>2. Rank[a.row] \in Nat /\ \A i \in 1 .. Len(p) : Rank[p[i].row] \in Nat
  <2>1. \A b \in Steps : Rank[b.row] \in Nat
    BY RankAssumption DEF Steps
  <2>2. \A i \in 1 .. Len(p) : p[i] \in Steps
    BY <1>1
  <2>3. QED
    BY <2>1, <2>2
<1>3. \A i \in 1 .. Len(p) : KeptUntil(p, i, Len(p) + 1) /\ ~Guarded(p[i].row) => Rank[p[i].row] < Rank[a.row]
  BY <1>1, <1>2 DEF Below
<1>4. Placed(q, Len(p) + 1)
  <2>1. (Len(p) + 1) - 1 = Len(p)
    BY <1>1
  <2>2. \A i \in 1 .. (Len(p) + 1) - 1 :
           KeptUntil(q, i, Len(p) + 1) /\ ~Guarded(q[i].row) => Rank[q[i].row] < Rank[a.row]
    BY <1>1, <1>3, <2>1
  <2>3. QED
    BY <1>1, <2>2, Zenon DEF Placed
<1>5. ASSUME NEW i \in 1 .. Len(q), KeptUntil(q, i, Len(q) + 1), ~Guarded(q[i].row)
      PROVE  Rank[q[i].row] <= Rank[a.row]
  <2>1. CASE i \in 1 .. Len(p)
    <3>1. KeptUntil(p, i, Len(p) + 1) /\ q[i] = p[i]
      BY <1>1, <1>5, <2>1
    <3>2. Rank[p[i].row] < Rank[a.row]
      BY <1>3, <1>5, <2>1, <3>1
    <3>3. QED
      BY <1>2, <2>1, <3>1, <3>2
  <2>2. CASE i = Len(p) + 1
    BY <1>1, <1>2, <2>2
  <2>3. QED
    BY <1>1, <2>1, <2>2
<1>6. Below(q, Rank[a.row])
  BY <1>5 DEF Below
<1>7. QED
  BY <1>1, <1>4, <1>6 DEF q

\* What is surely held stays so when the step more waits for its row.
LEMMA StillSure ==
    ASSUME NEW p, NEW top, NEW G, Reaches(p, top, G), NEW a \in Steps, a.op = "lock", NEW g,
           g \in G \/ (g = a.row /\ a.mode = "update")
    PROVE  Sure(p \o <<a>>, g)
<1> DEFINE q == p \o <<a>>
<1>1. /\ q \in Seq(Steps) /\ Len(p) \in Nat /\ Len(q) = Len(p) + 1
      /\ \A i \in 1 .. Len(p) : /\ q[i] = p[i]
                                /\ KeptUntil(q, i, Len(q) + 1) <=> KeptUntil(p, i, Len(p) + 1)
      /\ q[Len(p) + 1] = a
      /\ KeptUntil(q, Len(p) + 1, Len(q) + 1)
  BY LockMore
<1> HIDE DEF q
<1>2. CASE g \in G
  <2>1. PICK i \in 1 .. Len(p) :
           /\ p[i].row = g /\ p[i].mode = "update" /\ KeptUntil(p, i, Len(p) + 1)
           /\ \A j \in i + 1 .. Len(p) : p[j].op # "try"
    BY <1>2 DEF Reaches, Sure
  <2>2. i \in 1 .. Len(q) /\ q[i] = p[i] /\ KeptUntil(q, i, Len(q) + 1)
    BY <1>1, <2>1
  <2>3. \A j \in i + 1 .. Len(q) : q[j].op # "try"
    <3>1. \A j \in i + 1 .. Len(q) : j \in i + 1 .. Len(p) \/ j = Len(p) + 1
      BY <1>1
    <3>2. \A j \in i + 1 .. Len(p) : j \in 1 .. Len(p)
      BY <1>1, <2>1
    <3>3. QED
      BY <1>1, <2>1, <3>1, <3>2
  <2>4. Sure(q, g)
    BY <2>1, <2>2, <2>3 DEF Sure
  <2>5. QED
    BY <2>4 DEF q
<1>3. CASE g = a.row /\ a.mode = "update"
  <2>1. Len(p) + 1 \in 1 .. Len(q) /\ \A j \in (Len(p) + 1) + 1 .. Len(q) : FALSE
    BY <1>1
  <2>2. Sure(q, g)
    BY <1>1, <1>3, <2>1 DEF Sure
  <2>3. QED
    BY <2>2 DEF q
<1>4. QED
  BY <1>2, <1>3

\* A lock more, of a row whose guard is held.
LEMMA GuardedLock ==
    ASSUME NEW p, NEW top, NEW G, Reaches(p, top, G), NEW a \in Steps, a.op = "lock",
           Guarded(a.row), Guard[a.row] \in G
    PROVE  Reaches(p \o <<a>>, top, G)
<1> DEFINE q == p \o <<a>>
<1>1. /\ p \in Seq(Steps) /\ Ordered(p) /\ Below(p, top)
      /\ q \in Seq(Steps) /\ Len(p) \in Nat /\ Len(q) = Len(p) + 1
      /\ \A i \in 1 .. Len(p) : /\ q[i] = p[i]
                                /\ KeptUntil(q, i, Len(p) + 1) <=> KeptUntil(p, i, Len(p) + 1)
                                /\ KeptUntil(q, i, Len(q) + 1) <=> KeptUntil(p, i, Len(p) + 1)
      /\ q[Len(p) + 1] = a
      /\ Placed(q, Len(p) + 1) => Ordered(q)
  BY LockMore
<1>2. \A g \in G : Sure(q, g)
  BY StillSure
<1> HIDE DEF q
<1>3. PICK i \in 1 .. Len(p) :
         /\ p[i].row = Guard[a.row] /\ p[i].mode = "update" /\ KeptUntil(p, i, Len(p) + 1)
         /\ \A j \in i + 1 .. Len(p) : p[j].op # "try"
  BY DEF Reaches, Sure
<1>4. \A j \in i + 1 .. Len(p) + 1 : q[j].op # "try"
  <2>1. \A j \in i + 1 .. Len(p) + 1 : j = Len(p) + 1 \/ (j \in i + 1 .. Len(p) /\ j \in 1 .. Len(p))
    BY <1>1, <1>3
  <2>2. QED
    BY <1>1, <1>3, <2>1
<1>5. UnderGuard(q, Len(p) + 1)
  <2>1. i \in 1 .. (Len(p) + 1) - 1
    BY <1>1, <1>3
  <2>2. q[i].row = Guard[q[Len(p) + 1].row] /\ q[i].mode = "update" /\ KeptUntil(q, i, Len(p) + 1)
    BY <1>1, <1>3
  <2>3. QED
    BY <1>1, <1>4, <2>1, <2>2 DEF UnderGuard
<1>6. Ordered(q)
  BY <1>1, <1>5 DEF Placed
<1>7. ASSUME NEW k \in 1 .. Len(q), KeptUntil(q, k, Len(q) + 1), ~Guarded(q[k].row)
      PROVE  Rank[q[k].row] <= top
  <2>1. k # Len(p) + 1
    BY <1>1, <1>7
  <2>2. k \in 1 .. Len(p)
    BY <1>1, <2>1
  <2>3. QED
    BY <1>1, <1>7, <2>2 DEF Below
<1>8. Below(q, top)
  BY <1>7 DEF Below
<1>9. QED
  BY <1>1, <1>2, <1>6, <1>8 DEF Reaches, q

\* Nothing is locked yet.
LEMMA Nothing == Reaches(<< >>, 0, {})
BY DEF Reaches, Ordered, InOrder, LocksOnce, Below

\* SELECT ... FOR UPDATE of a row above what is held.
LEMMA ThenLock ==
    ASSUME NEW p, NEW top \in Nat, NEW G, Reaches(p, top, G),
           NEW row \in Rows, ~Guarded(row), top < Rank[row]
    PROVE  Reaches(p \o Lock(row), Rank[row], G \cup {row})
<1> DEFINE a == [op |-> "lock", row |-> row, mode |-> "update"]
<1>1. a \in Steps /\ a.op = "lock" /\ a.row = row /\ a.mode = "update"
  BY DEF Steps, Modes
<1>2. Lock(row) = <<a>>
  BY DEF Lock
<1> HIDE DEF a
<1>3. Ordered(p \o <<a>>) /\ Below(p \o <<a>>, Rank[row])
  BY <1>1, HigherLock
<1>4. \A g \in G \cup {row} : Sure(p \o <<a>>, g)
  BY <1>1, StillSure
<1>5. p \o <<a>> \in Seq(Steps)
  BY <1>1, StepMore DEF Reaches
<1>6. QED
  BY <1>2, <1>3, <1>4, <1>5 DEF Reaches

\* FOR SHARE, and the key-share lock of an INSERT.
LEMMA ThenShare ==
    ASSUME NEW p, NEW top \in Nat, NEW G, Reaches(p, top, G),
           NEW row \in Rows, ~Guarded(row), top < Rank[row]
    PROVE  /\ Reaches(p \o Shared(row), Rank[row], G)
           /\ Reaches(p \o KeyShared(row), Rank[row], G)
<1>1. ASSUME NEW m \in Modes
      PROVE  Reaches(p \o <<[op |-> "lock", row |-> row, mode |-> m]>>, Rank[row], G)
  <2> DEFINE a == [op |-> "lock", row |-> row, mode |-> m]
  <2>1. a \in Steps /\ a.op = "lock" /\ a.row = row
    BY DEF Steps
  <2> HIDE DEF a
  <2>2. Ordered(p \o <<a>>) /\ Below(p \o <<a>>, Rank[row])
    BY <2>1, HigherLock
  <2>3. \A g \in G : Sure(p \o <<a>>, g)
    BY <2>1, StillSure
  <2>4. p \o <<a>> \in Seq(Steps)
    BY <2>1, StepMore DEF Reaches
  <2>5. QED
    BY <2>2, <2>3, <2>4 DEF Reaches, a
<1>2. QED
  BY <1>1 DEF Shared, KeyShared, Modes

\* A lock below its guard, in any mode.
LEMMA ThenUnder ==
    ASSUME NEW p, NEW top, NEW G, Reaches(p, top, G),
           NEW row \in Rows, Guarded(row), Guard[row] \in G
    PROVE  Reaches(p \o Lock(row), top, G) /\ Reaches(p \o KeyShared(row), top, G)
<1>1. ASSUME NEW m \in Modes
      PROVE  Reaches(p \o <<[op |-> "lock", row |-> row, mode |-> m]>>, top, G)
  <2> DEFINE a == [op |-> "lock", row |-> row, mode |-> m]
  <2>1. a \in Steps /\ a.op = "lock" /\ a.row = row
    BY DEF Steps
  <2> HIDE DEF a
  <2>2. Reaches(p \o <<a>>, top, G)
    BY <2>1, GuardedLock
  <2>3. QED
    BY <2>2 DEF a
<1>2. QED
  BY <1>1 DEF Lock, KeyShared, Modes

\* FOR UPDATE SKIP LOCKED, in a program that gives nothing back.
LEMMA ThenTry ==
    ASSUME NEW p, NEW top \in Nat, NEW G, Reaches(p, top, G),
           \A i \in 1 .. Len(p) : p[i].op # "release",
           NEW row \in Rows, ~Guarded(row), top < Rank[row]
    PROVE  Reaches(p \o TryLock(row), Rank[row], {row})
<1> DEFINE a == [op |-> "try", row |-> row, mode |-> "update"]
<1> DEFINE q == p \o <<a>>
<1>1. a \in Steps /\ a.op = "try" /\ a.row = row /\ a.mode = "update"
  BY DEF Steps, Modes
<1>2. TryLock(row) = <<a>>
  BY DEF TryLock
<1> HIDE DEF a
<1>3. Ordered(q) /\ Below(q, Rank[row])
  BY <1>1, HigherLock
<1>4. /\ q \in Seq(Steps) /\ Len(p) \in Nat /\ Len(q) = Len(p) + 1
      /\ q[Len(p) + 1] = a
      /\ KeptUntil(q, Len(p) + 1, Len(q) + 1)
  BY <1>1, LockMore
<1> HIDE DEF q
<1>5. Len(p) + 1 \in 1 .. Len(q) /\ \A j \in (Len(p) + 1) + 1 .. Len(q) : FALSE
  BY <1>4
<1>6. Sure(q, row)
  BY <1>1, <1>4, <1>5 DEF Sure
<1>7. QED
  BY <1>2, <1>3, <1>4, <1>6 DEF Reaches, q

\* Where each row stands in the documented order.
LEMMA RowsAre ==
    ASSUME Documented
    PROVE  /\ State \in Rows /\ ~Guarded(State) /\ Rank[State] = 1
           /\ Workspace \in Rows /\ ~Guarded(Workspace) /\ Rank[Workspace] = 3
           /\ Nonce \in Rows /\ ~Guarded(Nonce) /\ Rank[Nonce] = 4
           /\ \A row \in {Capability, Connection, RefreshJob} :
                 row \in Rows /\ Guarded(row) /\ Guard[row] = Workspace
           /\ \A r \in RunIds :
                 /\ Run(r) \in Rows /\ ~Guarded(Run(r)) /\ Rank[Run(r)] = 2
                 /\ Job(r) \in Rows /\ Guarded(Job(r)) /\ Guard[Job(r)] = Run(r)
                 /\ Record(r) \in Rows /\ Guarded(Record(r)) /\ Guard[Record(r)] = Run(r)
<1>1. Rows = AllRows
  BY DEF Documented, Rows, DocumentedRank
<1>2. /\ \A row \in AllRows : Rank[row] = CASE row[1] = "state" -> 1
                                            [] row[1] = "run" -> 2
                                            [] row[1] = "workspace" -> 3
                                            [] row[1] = "nonce" -> 4
                                            [] OTHER -> 5
      /\ \A row \in AllRows : Guard[row] = CASE row[1] \in {"job", "idempotency"} -> Run(row[2])
                                             [] row[1] \in {"capability", "connection", "refresh_job"} -> Workspace
                                             [] OTHER -> row
  BY DEF Documented, DocumentedRank, DocumentedGuard
<1>3. {State, Workspace, Nonce, Capability, Connection, RefreshJob} \subseteq AllRows
  <2> DEFINE U == UNION {{Run(r), Job(r), Record(r)} : r \in RunIds}
  <2>1. AllRows = U \cup {State, Workspace, Capability, Connection, RefreshJob, Nonce}
    BY DEF AllRows
  <2> HIDE DEF U
  <2>2. QED
    BY <2>1
<1>4. ASSUME NEW r \in RunIds PROVE {Run(r), Job(r), Record(r)} \subseteq AllRows
  <2>1. {Run(r), Job(r), Record(r)} \in {{Run(x), Job(x), Record(x)} : x \in RunIds}
    OBVIOUS
  <2>2. QED
    BY <2>1 DEF AllRows
<1>5. Rank[State] = 1 /\ Rank[Workspace] = 3 /\ Rank[Nonce] = 4
  BY <1>2, <1>3 DEF State, Workspace, Nonce
<1>6. ~Guarded(State) /\ ~Guarded(Workspace) /\ ~Guarded(Nonce)
  BY <1>2, <1>3 DEF State, Workspace, Nonce, Guarded
<1>7. \A row \in {Capability, Connection, RefreshJob} : Guard[row] = Workspace /\ Guarded(row)
  BY <1>2, <1>3 DEF Capability, Connection, RefreshJob, Guarded, Workspace
<1>8. ASSUME NEW r \in RunIds
      PROVE  /\ ~Guarded(Run(r)) /\ Rank[Run(r)] = 2
             /\ Guarded(Job(r)) /\ Guard[Job(r)] = Run(r)
             /\ Guarded(Record(r)) /\ Guard[Record(r)] = Run(r)
  <2>1. Run(r) \in AllRows /\ Job(r) \in AllRows /\ Record(r) \in AllRows
    BY <1>4
  <2>2. Rank[Run(r)] = 2 /\ Guard[Run(r)] = Run(r)
    BY <1>2, <2>1 DEF Run
  <2>3. Guard[Job(r)] = Run(r) /\ Guard[Record(r)] = Run(r)
    BY <1>2, <2>1 DEF Run, Job, Record
  <2>4. Run(r) # Job(r) /\ Run(r) # Record(r)
    BY DEF Run, Job, Record
  <2>5. QED
    BY <2>2, <2>3, <2>4 DEF Guarded
<1>9. QED
  BY <1>1, <1>3, <1>4, <1>5, <1>6, <1>7, <1>8

\* Two parts one after the other.
LEMMA Parts ==
    ASSUME NEW p \in Seq(Steps), NEW a \in Seq(Steps), NEW b \in Seq(Steps)
    PROVE  p \o (a \o b) = (p \o a) \o b
BY ConcatAssociative, SMTT(20)

\* The parts are sequences of steps.
LEMMA PartsAre ==
    ASSUME NEW row \in Rows
    PROVE  /\ Lock(row) \in Seq(Steps) /\ Shared(row) \in Seq(Steps) /\ KeyShared(row) \in Seq(Steps)
           /\ TryLock(row) \in Seq(Steps) /\ Release(row) \in Seq(Steps)
<1>1. \A o \in {"lock", "try", "release"} : \A m \in Modes :
         [op |-> o, row |-> row, mode |-> m] \in Steps
  BY DEF Steps
<1>2. \A a \in Steps : <<a>> \in Seq(Steps)
  OBVIOUS
<1>3. QED
  BY <1>1, <1>2 DEF Lock, Shared, KeyShared, TryLock, Release, Modes

\* Concatenation and the programs, as names whose meaning is not needed to regroup parts.
Cat(a, b) == a \o b
Bodies == Seq(Steps)

\* They regroup.
LEMMA CatIs ==
    /\ \A p, a, b \in Bodies : Cat(p, Cat(a, b)) = Cat(Cat(p, a), b)
    /\ \A a, b \in Bodies : Cat(a, b) \in Bodies
<1>1. \A p, a, b \in Seq(Steps) : p \o (a \o b) = (p \o a) \o b
  BY Parts
<1>2. \A a, b \in Seq(Steps) : a \o b \in Seq(Steps)
  OBVIOUS
<1>3. QED
  BY <1>1, <1>2, Zenon DEF Cat, Bodies

\* Three parts, and four.
LEMMA MoreCat ==
    ASSUME NEW p \in Bodies, NEW a \in Bodies, NEW b \in Bodies, NEW c \in Bodies, NEW d \in Bodies
    PROVE  /\ Cat(p, Cat(Cat(a, b), c)) = Cat(Cat(Cat(p, a), b), c)
           /\ Cat(p, Cat(Cat(Cat(a, b), c), d)) = Cat(Cat(Cat(Cat(p, a), b), c), d)
           /\ Cat(Cat(a, b), c) \in Bodies
BY CatIs

\* A program begins with nothing.
LEMMA Begins == ASSUME NEW a \in Seq(Steps) PROVE << >> \o a = a
BY ConcatEmptySeq

\* The steps so far give nothing back.
GivesNothingBack(p) == \A i \in 1 .. Len(p) : p[i].op # "release"

\* The lock of the global state that most methods begin with.
LEMMA StateFirst ==
    ASSUME Documented
    PROVE  Reaches(Shared(State), 1, {}) /\ GivesNothingBack(Shared(State))
<1>1. << >> \o Shared(State) = Shared(State)
  BY RowsAre, PartsAre, Begins
<1>2. Reaches(<< >> \o Shared(State), Rank[State], {})
  <2>1. State \in Rows /\ ~Guarded(State) /\ 0 < Rank[State]
    BY RowsAre
  <2>2. QED
    BY <2>1, Nothing, ThenShare
<1>3. GivesNothingBack(Shared(State))
  BY DEF GivesNothingBack, Shared
<1>4. Rank[State] = 1
  BY RowsAre
<1>5. QED
  BY <1>1, <1>2, <1>3, <1>4, Zenon

\* _claim_target_is_current
LEMMA ClaimTargetOK ==
    ASSUME Documented, NEW p, NEW top \in Nat, top < 3, NEW G, Reaches(p, top, G), NEW r
    PROVE  Reaches(p \o ClaimTarget(r), 3, G \cup {Workspace})
<1>1. Reaches(p \o Lock(Workspace), 3, G \cup {Workspace})
  BY RowsAre, ThenLock
<1>2. Reaches(p \o Lock(Workspace) \o Lock(Capability), 3, G \cup {Workspace})
  BY <1>1, RowsAre, ThenUnder
<1>3. Reaches(p \o Lock(Workspace) \o Lock(Capability) \o Lock(Connection), 3, G \cup {Workspace})
  BY <1>2, RowsAre, ThenUnder
<1>4. p \o ClaimTarget(r) = p \o Lock(Workspace) \o Lock(Capability) \o Lock(Connection)
  <2>1. /\ p \in Bodies /\ Lock(Workspace) \in Bodies
        /\ Lock(Capability) \in Bodies /\ Lock(Connection) \in Bodies
    BY RowsAre, PartsAre DEF Reaches, Bodies
  <2>2. Cat(p, Cat(Cat(Lock(Workspace), Lock(Capability)), Lock(Connection))) = Cat(Cat(Cat(p, Lock(Workspace)), Lock(Capability)), Lock(Connection))
    BY ONLY <2>1, MoreCat
  <2>3. QED
    BY ONLY <2>2, Zenon DEF Cat, ClaimTarget
<1>5. QED
  BY <1>3, <1>4

\* One row of _terminalize_expired_jobs.
LEMMA TerminalizeOK ==
    ASSUME Documented, NEW p, NEW top \in Nat, top < 2, NEW G, Reaches(p, top, G),
           GivesNothingBack(p), NEW r \in RunIds
    PROVE  Reaches(p \o Terminalize(r), 3, {Run(r)})
<1>1. Reaches(p \o TryLock(Run(r)), 2, {Run(r)})
  BY RowsAre, ThenTry DEF GivesNothingBack
<1>2. Reaches(p \o TryLock(Run(r)) \o Lock(Job(r)), 2, {Run(r)})
  BY <1>1, RowsAre, ThenUnder
<1>3. Reaches(p \o TryLock(Run(r)) \o Lock(Job(r)) \o KeyShared(Workspace), 3, {Run(r)})
  <2>1. Workspace \in Rows /\ ~Guarded(Workspace) /\ Rank[Workspace] = 3 /\ 2 < Rank[Workspace]
    BY RowsAre
  <2>2. QED
    BY <1>2, <2>1, ThenShare
<1>4. p \o Terminalize(r) = p \o TryLock(Run(r)) \o Lock(Job(r)) \o KeyShared(Workspace)
  <2>1. /\ p \in Bodies /\ TryLock(Run(r)) \in Bodies
        /\ Lock(Job(r)) \in Bodies /\ KeyShared(Workspace) \in Bodies
    BY RowsAre, PartsAre DEF Reaches, Bodies
  <2>2. Cat(p, Cat(Cat(TryLock(Run(r)), Lock(Job(r))), KeyShared(Workspace))) = Cat(Cat(Cat(p, TryLock(Run(r))), Lock(Job(r))), KeyShared(Workspace))
    BY ONLY <2>1, MoreCat
  <2>3. QED
    BY ONLY <2>2, Zenon DEF Cat, Terminalize, InsertEvent
<1>5. QED
  BY <1>3, <1>4

\* The second half of claim_job.
LEMMA LeaseSelectedOK ==
    ASSUME Documented, NEW p, NEW top \in Nat, top < 2, NEW G, Reaches(p, top, G),
           GivesNothingBack(p), NEW r \in RunIds
    PROVE  Reaches(p \o LeaseSelected(r), 3, {Run(r), Workspace})
<1>1. Reaches(p \o TryLock(Run(r)), 2, {Run(r)})
  BY RowsAre, ThenTry DEF GivesNothingBack
<1>2. Reaches(p \o TryLock(Run(r)) \o Lock(Job(r)), 2, {Run(r)})
  BY <1>1, RowsAre, ThenUnder
<1>3. Reaches(p \o TryLock(Run(r)) \o Lock(Job(r)) \o ClaimTarget(r), 3, {Run(r)} \cup {Workspace})
  BY <1>2, ClaimTargetOK
<1>4. ClaimTarget(r) \in Bodies
  BY RowsAre, PartsAre DEF ClaimTarget, Bodies
<1>5. p \o LeaseSelected(r) = p \o TryLock(Run(r)) \o Lock(Job(r)) \o ClaimTarget(r)
  <2>1. /\ p \in Bodies /\ TryLock(Run(r)) \in Bodies /\ Lock(Job(r)) \in Bodies
    BY RowsAre, PartsAre DEF Reaches, Bodies
  <2>2. Cat(p, Cat(Cat(TryLock(Run(r)), Lock(Job(r))), ClaimTarget(r))) = Cat(Cat(Cat(p, TryLock(Run(r))), Lock(Job(r))), ClaimTarget(r))
    BY ONLY <1>4, <2>1, MoreCat
  <2>3. QED
    BY ONLY <2>2, Zenon DEF Cat, LeaseSelected
<1>6. {Run(r)} \cup {Workspace} = {Run(r), Workspace}
  OBVIOUS
<1>7. QED
  BY <1>3, <1>5, <1>6

\* _replay_existing_run
LEMMA ReplayOK ==
    ASSUME Documented, NEW p, NEW top \in Nat, top < 2, NEW G, Reaches(p, top, G), NEW r \in RunIds
    PROVE  Ordered(p \o Replay(r))
<1>1. Reaches(p \o Lock(Run(r)), 2, G \cup {Run(r)})
  BY RowsAre, ThenLock
<1>2. Reaches(p \o Lock(Run(r)) \o Lock(Record(r)), 2, G \cup {Run(r)})
  BY <1>1, RowsAre, ThenUnder
<1>3. Reaches(p \o Lock(Run(r)) \o Lock(Record(r)) \o Lock(Workspace), 3,
              (G \cup {Run(r)}) \cup {Workspace})
  <2>1. Workspace \in Rows /\ ~Guarded(Workspace) /\ Rank[Workspace] = 3 /\ 2 < Rank[Workspace]
    BY RowsAre
  <2>2. QED
    BY <1>2, <2>1, ThenLock
<1>4. Reaches(p \o Lock(Run(r)) \o Lock(Record(r)) \o Lock(Workspace) \o Lock(Nonce), 4,
              ((G \cup {Run(r)}) \cup {Workspace}) \cup {Nonce})
  BY <1>3, RowsAre, ThenLock
<1>5. p \o Replay(r) = p \o Lock(Run(r)) \o Lock(Record(r)) \o Lock(Workspace) \o Lock(Nonce)
  <2>1. /\ p \in Bodies /\ Lock(Run(r)) \in Bodies /\ Lock(Record(r)) \in Bodies
        /\ Lock(Workspace) \in Bodies /\ Lock(Nonce) \in Bodies
    BY RowsAre, PartsAre DEF Reaches, Bodies
  <2>2. Cat(p, Cat(Cat(Cat(Lock(Run(r)), Lock(Record(r))), Lock(Workspace)), Lock(Nonce)))
           = Cat(Cat(Cat(Cat(p, Lock(Run(r))), Lock(Record(r))), Lock(Workspace)), Lock(Nonce))
    BY ONLY <2>1, MoreCat
  <2>3. QED
    BY ONLY <2>2, Zenon DEF Cat, Replay
<1>6. QED
  BY <1>4, <1>5 DEF Reaches

\* The savepoint of create_run: the workspace is locked and given back.
LEMMA LosesRaceOK ==
    ASSUME Documented, NEW r
    PROVE  Reaches(Shared(State) \o LosesRace(r), 1, {})
<1> DEFINE p == Shared(State) \o LosesRace(r)
<1>1. p \in Seq(Steps)
  BY RowsAre, PartsAre DEF LosesRace
<1>2. /\ Len(p) = 3
      /\ p[1] = [op |-> "lock", row |-> State, mode |-> "share"]
      /\ p[2] = [op |-> "lock", row |-> Workspace, mode |-> "update"]
      /\ p[3] = [op |-> "release", row |-> Workspace, mode |-> "update"]
  BY DEF Shared, LosesRace, Lock, Release
<1> HIDE DEF p
<1>3. /\ ~Guarded(State) /\ ~Guarded(Workspace) /\ Rank[State] = 1 /\ Rank[Workspace] = 3
  BY RowsAre
<1>4. Ordered(p)
  <2>1. Placed(p, 1)
    BY <1>2, <1>3 DEF Placed
  <2>2. Placed(p, 2)
    BY <1>2, <1>3 DEF Placed
  <2>3. Placed(p, 3)
    BY <1>2, <1>3 DEF Placed
  <2>4. \A k \in 1 .. Len(p) : k = 1 \/ k = 2 \/ k = 3
    BY <1>2
  <2>5. \A k \in 1 .. Len(p) : Placed(p, k)
    BY <2>1, <2>2, <2>3, <2>4
  <2>6. QED
    BY <1>1, <2>5, EachPlaced
<1>5. Below(p, 1)
  <2>1. ~KeptUntil(p, 2, Len(p) + 1) /\ ~KeptUntil(p, 3, Len(p) + 1)
    BY <1>2 DEF KeptUntil
  <2>2. \A k \in 1 .. Len(p) : k = 1 \/ k = 2 \/ k = 3
    BY <1>2
  <2>3. QED
    BY <1>2, <1>3, <2>1, <2>2 DEF Below
<1>6. QED
  BY <1>1, <1>4, <1>5 DEF Reaches, p

\* A method may begin with any row that has no guard.
LEMMA FirstLock ==
    ASSUME NEW row \in Rows, ~Guarded(row), 0 < Rank[row]
    PROVE  Reaches(Lock(row), Rank[row], {row}) /\ Reaches(TryLock(row), Rank[row], {row})
<1>1. << >> \o Lock(row) = Lock(row) /\ << >> \o TryLock(row) = TryLock(row)
  BY PartsAre, Begins
<1>2. Reaches(<< >> \o Lock(row), Rank[row], {} \cup {row})
  BY Nothing, ThenLock
<1>3. \A i \in 1 .. Len(<< >>) : << >>[i].op # "release"
  OBVIOUS
<1>4. Reaches(<< >> \o TryLock(row), Rank[row], {row})
  BY <1>3, Nothing, ThenTry
<1>5. {} \cup {row} = {row}
  OBVIOUS
<1>6. QED
  BY <1>1, <1>2, <1>4, <1>5, Zenon

\* The locks of a run, after the state's and on their own.
LEMMA RunThenJob ==
    ASSUME Documented, NEW r \in RunIds
    PROVE  /\ Reaches(Shared(State) \o Lock(Run(r)) \o Lock(Job(r)), 2, {Run(r)})
           /\ Reaches(Lock(Run(r)), 2, {Run(r)})
           /\ Reaches(TryLock(Run(r)) \o Lock(Job(r)), 2, {Run(r)})
<1>1. Run(r) \in Rows /\ ~Guarded(Run(r)) /\ Rank[Run(r)] = 2 /\ 1 < Rank[Run(r)] /\ 0 < Rank[Run(r)]
  BY RowsAre
<1>2. Job(r) \in Rows /\ Guarded(Job(r)) /\ Guard[Job(r)] \in {Run(r)}
  BY RowsAre
<1>3. Reaches(Lock(Run(r)), 2, {Run(r)}) /\ Reaches(TryLock(Run(r)), 2, {Run(r)})
  BY <1>1, FirstLock
<1>4. Reaches(Shared(State) \o Lock(Run(r)), 2, {} \cup {Run(r)})
  BY <1>1, StateFirst, ThenLock
<1>5. {} \cup {Run(r)} = {Run(r)}
  OBVIOUS
<1>6. Reaches(Shared(State) \o Lock(Run(r)), 2, {Run(r)})
  BY <1>4, <1>5, Zenon
<1>7. QED
  BY <1>2, <1>3, <1>6, ThenUnder

\* heartbeat, complete_lease and _fence_attempt.
LEMMA LeaseMethodsOK ==
    ASSUME Documented, NEW r \in RunIds
    PROVE  /\ Ordered(Shared(State) \o Lock(Run(r)) \o Lock(Job(r)))
           /\ Ordered(Shared(State) \o Lock(Run(r)) \o Lock(Job(r)) \o InsertEvent)
           /\ Ordered(Shared(State) \o Lock(Run(r)) \o Lock(Job(r)) \o ClaimTarget(r))
<1> DEFINE p == Shared(State) \o Lock(Run(r)) \o Lock(Job(r))
<1>1. Reaches(p, 2, {Run(r)})
  BY RunThenJob
<1>2. Workspace \in Rows /\ ~Guarded(Workspace) /\ 2 < Rank[Workspace]
  BY RowsAre
<1> HIDE DEF p
<1>3. Reaches(p \o InsertEvent, Rank[Workspace], {Run(r)})
  BY <1>1, <1>2, ThenShare DEF InsertEvent
<1>4. Reaches(p \o ClaimTarget(r), 3, {Run(r)} \cup {Workspace})
  BY <1>1, ClaimTargetOK
<1>5. Ordered(p) /\ Ordered(p \o InsertEvent) /\ Ordered(p \o ClaimTarget(r))
  BY <1>1, <1>3, <1>4 DEF Reaches
<1>6. QED
  BY <1>5, Zenon DEF p

\* create_run with a new key.
LEMMA AdmitsOK ==
    ASSUME Documented
    PROVE  Ordered(Shared(State) \o Lock(Workspace) \o Lock(Nonce) \o KeyShared(Capability)
                       \o KeyShared(Connection))
<1> DEFINE p == Shared(State) \o Lock(Workspace)
<1> DEFINE q == p \o Lock(Nonce)
<1> DEFINE u == q \o KeyShared(Capability)
<1> DEFINE G == ({} \cup {Workspace}) \cup {Nonce}
<1>1. /\ Workspace \in Rows /\ ~Guarded(Workspace) /\ Rank[Workspace] = 3 /\ 1 < Rank[Workspace]
      /\ Nonce \in Rows /\ ~Guarded(Nonce) /\ Rank[Nonce] = 4 /\ 3 < Rank[Nonce]
  BY RowsAre
<1>2. /\ Capability \in Rows /\ Guarded(Capability) /\ Guard[Capability] \in G
      /\ Connection \in Rows /\ Guarded(Connection) /\ Guard[Connection] \in G
  BY RowsAre
<1>3. Reaches(p, 3, {} \cup {Workspace})
  BY <1>1, StateFirst, ThenLock
<1> HIDE DEF p
<1>4. Reaches(q, 4, G)
  BY <1>1, <1>3, ThenLock
<1> HIDE DEF q, G
<1>5. Reaches(u, 4, G)
  BY <1>2, <1>4, ThenUnder
<1> HIDE DEF u
<1>6. Reaches(u \o KeyShared(Connection), 4, G)
  BY <1>2, <1>5, ThenUnder
<1>7. Ordered(u \o KeyShared(Connection))
  BY <1>6 DEF Reaches
<1>8. QED
  BY <1>7, Zenon DEF p, q, u

\* cancel_run
LEMMA CancelOK ==
    ASSUME Documented, NEW r \in RunIds
    PROVE  Ordered(Cancel(r))
<1> DEFINE p == Lock(Run(r)) \o Lock(Workspace)
<1>1. Workspace \in Rows /\ ~Guarded(Workspace) /\ 2 < Rank[Workspace]
  BY RowsAre
<1>2. Job(r) \in Rows /\ Guarded(Job(r)) /\ Guard[Job(r)] \in {Run(r)} \cup {Workspace}
  BY RowsAre
<1>3. Reaches(p, Rank[Workspace], {Run(r)} \cup {Workspace})
  BY <1>1, RunThenJob, ThenLock
<1> HIDE DEF p
<1>4. Reaches(p \o Lock(Job(r)), Rank[Workspace], {Run(r)} \cup {Workspace})
  BY <1>2, <1>3, ThenUnder
<1>5. Ordered(p \o Lock(Job(r)))
  BY <1>4 DEF Reaches
<1>6. QED
  BY <1>5, Zenon DEF p, Cancel

\* The registry's methods, in either order below the workspace.
LEMMA ConfigurationOK ==
    ASSUME Documented, NEW a \in {Capability, Connection, RefreshJob},
           NEW b \in {Capability, Connection, RefreshJob},
           NEW c \in {Capability, Connection, RefreshJob}
    PROVE  /\ Ordered(Lock(Workspace) \o Lock(a) \o Lock(b))
           /\ Ordered(Lock(Workspace) \o Lock(a) \o Lock(b) \o Lock(c))
<1>1. Workspace \in Rows /\ ~Guarded(Workspace) /\ 0 < Rank[Workspace]
  BY RowsAre
<1>2. /\ a \in Rows /\ Guarded(a) /\ Guard[a] \in {Workspace}
      /\ b \in Rows /\ Guarded(b) /\ Guard[b] \in {Workspace}
      /\ c \in Rows /\ Guarded(c) /\ Guard[c] \in {Workspace}
  BY RowsAre
<1>3. Reaches(Lock(Workspace) \o Lock(a), Rank[Workspace], {Workspace})
  BY <1>1, <1>2, FirstLock, ThenUnder
<1>4. Reaches(Lock(Workspace) \o Lock(a) \o Lock(b), Rank[Workspace], {Workspace})
  BY <1>2, <1>3, ThenUnder
<1>5. Reaches(Lock(Workspace) \o Lock(a) \o Lock(b) \o Lock(c), Rank[Workspace], {Workspace})
  BY <1>2, <1>4, ThenUnder
<1>6. QED
  BY <1>4, <1>5, Zenon DEF Reaches

\* expire_retained_content and delete_expired_run_metadata.
LEMMA MaintenanceOK ==
    ASSUME Documented, NEW r \in RunIds
    PROVE  /\ Ordered(Terminalize(r))
           /\ Ordered(TryLock(Run(r)) \o Lock(Job(r)) \o Lock(Record(r)) \o Lock(Nonce))
<1> DEFINE p == TryLock(Run(r)) \o Lock(Job(r))
<1>1. Reaches(p, 2, {Run(r)})
  BY RunThenJob
<1>2. /\ Workspace \in Rows /\ ~Guarded(Workspace) /\ 2 < Rank[Workspace]
      /\ Nonce \in Rows /\ ~Guarded(Nonce) /\ 2 < Rank[Nonce]
      /\ Record(r) \in Rows /\ Guarded(Record(r)) /\ Guard[Record(r)] \in {Run(r)}
  BY RowsAre
<1> HIDE DEF p
<1>3. Reaches(p \o InsertEvent, Rank[Workspace], {Run(r)})
  BY <1>1, <1>2, ThenShare DEF InsertEvent
<1>4. Reaches(p \o Lock(Record(r)), 2, {Run(r)})
  BY <1>1, <1>2, ThenUnder
<1>5. Reaches(p \o Lock(Record(r)) \o Lock(Nonce), Rank[Nonce], {Run(r)} \cup {Nonce})
  BY <1>2, <1>4, ThenLock
<1>6. Ordered(p \o InsertEvent) /\ Ordered(p \o Lock(Record(r)) \o Lock(Nonce))
  BY <1>3, <1>5 DEF Reaches
<1>7. QED
  BY <1>6, Zenon DEF p, Terminalize

\* The methods that begin with the state and go on to a run.
LEMMA StateThenRunOK ==
    ASSUME Documented, NEW r \in RunIds
    PROVE  /\ Ordered(Shared(State) \o LeaseSelected(r))
           /\ Ordered(Shared(State) \o Terminalize(r))
           /\ Ordered(Shared(State) \o Replay(r))
           /\ Ordered(Shared(State) \o LosesRace(r) \o Replay(r))
<1>1. Reaches(Shared(State), 1, {}) /\ GivesNothingBack(Shared(State))
  BY StateFirst
<1>2. Reaches(Shared(State) \o LosesRace(r), 1, {})
  BY LosesRaceOK
<1>3. Reaches(Shared(State) \o LeaseSelected(r), 3, {Run(r), Workspace})
  BY <1>1, LeaseSelectedOK
<1>4. Reaches(Shared(State) \o Terminalize(r), 3, {Run(r)})
  BY <1>1, TerminalizeOK
<1>5. Ordered(Shared(State) \o Replay(r))
  BY <1>1, ReplayOK
<1>6. Ordered(Shared(State) \o LosesRace(r) \o Replay(r))
  BY <1>2, ReplayOK
<1>7. QED
  BY <1>3, <1>4, <1>5, <1>6, Zenon DEF Reaches

\* Every method but that poll locks its rows in the documented order.
LEMMA MethodsOrdered ==
    ASSUME Documented, NEW p \in ServicePrograms \ ReconcilesAndClaims
    PROVE  Ordered(p)
<1>1. CASE p \in Claims \/ p \in Reconciles
  BY <1>1, StateThenRunOK, Zenon DEF Claims, Reconciles
<1>2. CASE p \in LeaseMethods \/ p \in Fences
  BY <1>2, LeaseMethodsOK, Zenon DEF LeaseMethods, Fences
<1>3. CASE p \in Admits
  BY <1>3, AdmitsOK, Zenon DEF Admits
<1>4. CASE p \in Replays
  BY <1>4, StateThenRunOK, Zenon DEF Replays
<1>5. CASE p \in Cancels
  BY <1>5, CancelOK, Zenon DEF Cancels
<1>6. CASE p \in ConfigurationChanges
  BY <1>6, ConfigurationOK, Zenon DEF ConfigurationChanges
<1>7. CASE p \in Restores
  <2>1. Ordered(Lock(State))
    <3>1. State \in Rows /\ ~Guarded(State) /\ 0 < Rank[State]
      BY RowsAre
    <3>2. QED
      BY <3>1, FirstLock DEF Reaches
  <2>2. QED
    BY <1>7, <2>1, StateThenRunOK, Zenon DEF Restores
<1>8. CASE p \in Maintenance
  BY <1>8, MaintenanceOK, Zenon DEF Maintenance
<1>9. QED
  BY <1>1, <1>2, <1>3, <1>4, <1>5, <1>6, <1>7, <1>8, Zenon DEF ServicePrograms

-----------------------------------------------------------------------------
(* The services. *)

\* The documented ranks go up to five.
LEMMA RanksBounded == ASSUME Documented PROVE \A row \in Rows : Rank[row] <= 5
<1>1. Rows = AllRows /\ \A row \in AllRows : Rank[row] \in {1, 2, 3, 4, 5}
  BY DEF Documented, Rows, DocumentedRank
<1>2. \A n \in {1, 2, 3, 4, 5} : n <= 5
  OBVIOUS
<1>3. QED
  BY <1>1, <1>2

\* A poll that settles one run and leases another keeps to the order, but locks the
\* workspace twice.
LEMMA PollInOrder ==
    ASSUME Documented, NEW p \in ReconcilesAndClaims
    PROVE  InOrder(p)
<1>1. PICK r \in RunIds, q \in RunIds : p = Shared(State) \o Terminalize(r) \o LeaseSelected(q)
  BY DEF ReconcilesAndClaims
<1>2. /\ Len(p) = 9
      /\ p[1] = [op |-> "lock", row |-> State, mode |-> "share"]
      /\ p[2] = [op |-> "try", row |-> Run(r), mode |-> "update"]
      /\ p[3] = [op |-> "lock", row |-> Job(r), mode |-> "update"]
      /\ p[4] = [op |-> "lock", row |-> Workspace, mode |-> "keyshare"]
      /\ p[5] = [op |-> "try", row |-> Run(q), mode |-> "update"]
      /\ p[6] = [op |-> "lock", row |-> Job(q), mode |-> "update"]
      /\ p[7] = [op |-> "lock", row |-> Workspace, mode |-> "update"]
      /\ p[8] = [op |-> "lock", row |-> Capability, mode |-> "update"]
      /\ p[9] = [op |-> "lock", row |-> Connection, mode |-> "update"]
  BY <1>1 DEF Shared, Terminalize, InsertEvent, LeaseSelected, ClaimTarget, Lock, TryLock, KeyShared
<1>3. QED
  <2>1. /\ ~Guarded(State) /\ ~Guarded(Workspace) /\ ~Guarded(Run(r)) /\ ~Guarded(Run(q))
        /\ Guard[Job(r)] = Run(r) /\ Guard[Job(q)] = Run(q)
        /\ Guard[Capability] = Workspace /\ Guard[Connection] = Workspace
        /\ Guarded(Job(r)) /\ Guarded(Job(q)) /\ Guarded(Capability) /\ Guarded(Connection)
        /\ Rank[State] = 1 /\ Rank[Workspace] = 3 /\ Rank[Run(r)] = 2 /\ Rank[Run(q)] = 2
    BY RowsAre
  <2>2. \A k \in 1 .. 9 : p[k].op # "release"
    BY <1>2
  <2>3. \A k \in 1 .. 9 : \A i \in 1 .. k - 1 : i \in 1 .. 9 /\ KeptUntil(p, i, k)
    BY <2>2 DEF KeptUntil
  <2>4. UnderGuard(p, 3)
    <3>1. p[2].row = Guard[p[3].row] /\ p[2].mode = "update" /\ p[3].op = "lock"
      BY <1>2, <2>1
    <3>2. QED
      BY <2>3, <3>1 DEF UnderGuard
  <2>5. UnderGuard(p, 6)
    <3>1. p[5].row = Guard[p[6].row] /\ p[5].mode = "update" /\ p[6].op = "lock"
      BY <1>2, <2>1
    <3>2. QED
      BY <2>3, <3>1 DEF UnderGuard
  <2>6. UnderGuard(p, 8) /\ UnderGuard(p, 9)
    <3>1. /\ p[7].row = Guard[p[8].row] /\ p[7].row = Guard[p[9].row] /\ p[7].mode = "update"
          /\ p[8].op = "lock" /\ p[9].op = "lock"
      BY <1>2, <2>1
    <3>2. QED
      BY <2>3, <3>1 DEF UnderGuard
  <2>7. ASSUME NEW k \in 1 .. 9, ~Guarded(p[k].row) PROVE k \in {1, 2, 4, 5, 7}
    BY <1>2, <2>1, <2>7
  <2>8. ASSUME NEW k \in 1 .. 9, Guarded(p[k].row) PROVE UnderGuard(p, k)
    <3>1. k \in {3, 6, 8, 9}
      BY <1>2, <2>1, <2>8
    <3>2. QED
      BY <2>4, <2>5, <2>6, <3>1
  <2>9. ASSUME NEW k \in 1 .. 9, p[k].op = "lock", ~Guarded(p[k].row),
               NEW i \in 1 .. k - 1, ~Guarded(p[i].row)
        PROVE  Rank[p[i].row] < Rank[p[k].row] \/ p[i].row = p[k].row
    <3>1. k \in {1, 4, 7} /\ i \in {1, 2, 4, 5, 7}
      BY <1>2, <2>3, <2>7, <2>9
    <3>2. QED
      BY <1>2, <2>1, <3>1
  <2>10. QED
    BY <1>2, <2>2, <2>8, <2>9 DEF InOrder

\* Whatever the number of sessions and runs: of all the transactions the services and the
\* cancel route run, only a cancel route, or two polls that settle one run and lease
\* another, close a cycle of waits.
THEOREM KnownDeadlocks ==
    ASSUME Documented, Programs = AllPrograms
    PROVE  Spec => []DeadlocksAreKnown
<1>1. IInv => DeadlocksAreKnown
  <2> SUFFICES ASSUME IInv, NEW C \in SUBSET Sessions, WaitCycle(C),
                      \A s \in C : program[s] \notin CancelRoutes
               PROVE  \E s, t \in C : /\ s # t
                                      /\ program[s] \in ReconcilesAndClaims
                                      /\ program[t] \in ReconcilesAndClaims
    BY DEF DeadlocksAreKnown
  <2>1. \A s \in C : program[s] \in ServicePrograms
    BY ProgramType DEF IInv, WaitCycle, WaitsFor, AllPrograms
  <2>2. \A s \in C : program[s] \in ReconcilesAndClaims \/ Ordered(program[s])
    BY <2>1, MethodsOrdered
  <2>3. \A s \in C : InOrder(program[s])
    BY <2>2, PollInOrder DEF Ordered
  <2>4. PICK s \in C, t \in C : s # t /\ ~LocksOnce(program[s]) /\ ~LocksOnce(program[t])
    BY <2>3, RanksBounded, CycleUpgrades
  <2>5. QED
    BY <2>2, <2>4 DEF Ordered
<1>2. QED
  BY <1>1, Inductive, PTL
=============================================================================
