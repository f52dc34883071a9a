----------------------- MODULE InvocationWorker_proofs -----------------------
(***************************************************************************)
(* Proofs about InvocationWorker, for any number of runs and workers: the  *)
(* worker program keeps to the ledger's operations, no run is called       *)
(* twice, and what the ledger says of a settled run is what happened at    *)
(* the upstream server.                                                    *)
(***************************************************************************)
EXTENDS InvocationWorker, RunLedger_proofs

(* What any step may do to a row. *)

\* The run was dispatched, whatever became of it since, or it was deleted.
PastFence(x) ==
    \/ x.status \in {"deleted", "dispatch_fenced", "succeeded", "indeterminate"}
    \/ x.status = "failed" /\ x.safeErrorCode \in ToolFailureCodes

\* The run is admitted, within the time a run may take.
Admitted(x, y) ==
    /\ x.status = "absent" /\ y.status = "queued"
    /\ y.deadline <= y.createdAt + MaxRunTime

\* An active run is worked upon.
Advanced(x, y) ==
    /\ Active(x) /\ Active(y)
    /\ x.status = "dispatch_fenced" => y.status = "dispatch_fenced"
    /\ y.leaseEpoch \in {x.leaseEpoch, x.leaseEpoch + 1}
    /\ y.createdAt = x.createdAt /\ y.deadline = x.deadline

RowMoves(x, y) == Passive(x, y) \/ Admitted(x, y) \/ Advanced(x, y) \/ Ended(x, y)

\* No answer of the upstream server enters the row.
Unanswered(x, y) ==
    Answered(y) => y.status = x.status /\ y.safeErrorCode = x.safeErrorCode

\* Rows that no worker works upon take no answer: a quiet step, a settlement or a deletion.
LEMMA PassiveUnanswered ==
    ASSUME NEW x, NEW y, Passive(x, y)
    PROVE  Unanswered(x, y)
<1>1. CASE Settling(x, y)
  BY <1>1 DEF Settling, Unanswered, Quiet, Answered
<1>2. CASE Removed(x, y)
  <2>1. y.status = "deleted"
    BY <1>2 DEF Removed, NoRow
  <2>2. QED
    BY <2>1 DEF Unanswered, Answered
<1>3. QED
  BY <1>1, <1>2 DEF Passive

\* What the holder of a lease does to its run.
LEMMA HolderMoves ==
    ASSUME LedgerInv, NEW l \in leases, LeaseStep(l)
    PROVE  /\ RowMoves(ledger[l.run], ledger'[l.run])
           /\ \A q \in Runs \ {l.run} : ledger'[q] = ledger[q]
<1> DEFINE x == ledger[l.run]
           y == ledger'[l.run]
<1>1. /\ \A q \in Runs \ {l.run} : ledger'[q] = ledger[q]
      /\ l.run \in Runs /\ Active(x) /\ x \in Rows
  BY HolderSteps, RowFacts
<1>2. ASSUME Heartbeat(l) PROVE RowMoves(x, y)
  <2>1. Moved(x, y, x.status, x.leaseEpoch)
    BY <1>2, HolderSteps
  <2>2. QED
    BY <1>1, <2>1 DEF Moved, RowMoves, Advanced, Active
<1>3. ASSUME NEW renew \in BOOLEAN, FenceSession(l, renew) PROVE RowMoves(x, y)
  <2>1. x.status = "preparing" /\ Moved(x, y, "session_fenced", x.leaseEpoch)
    BY <1>3, HolderSteps
  <2>2. QED
    BY <1>1, <2>1 DEF Moved, RowMoves, Advanced, Active, ActiveStatuses, UndispatchedStatuses
<1>4. ASSUME FenceDispatch(l) PROVE RowMoves(x, y)
  <2>1. Moved(x, y, "dispatch_fenced", x.leaseEpoch)
    BY <1>4, HolderSteps
  <2>2. QED
    BY <1>1, <2>1 DEF Moved, RowMoves, Advanced, Active, ActiveStatuses
<1>5. ASSUME NEW s, NEW code, CompleteLease(l, s, code) PROVE RowMoves(x, y)
  <2>1. Ended(x, y)
    BY <1>5, HolderSteps
  <2>2. QED
    BY <2>1 DEF RowMoves
<1>6. ASSUME CompleteLate(l) PROVE RowMoves(x, y)
  <2>1. Settling(x, y)
    BY <1>6, HolderSteps
  <2>2. QED
    BY <2>1 DEF RowMoves, Passive
<1> HIDE DEF x, y
<1>7. RowMoves(x, y)
  BY <1>2, <1>3, <1>4, <1>5, <1>6 DEF LeaseStep
<1>8. QED
  BY <1>1, <1>7 DEF x, y

\* What any operation of the ledger does to any row.
LEMMA EveryRowMoves ==
    ASSUME LedgerInv, [Next]_vars, NEW r \in Runs
    PROVE  RowMoves(ledger[r], ledger'[r])
<1>1. ASSUME NEW s \in Runs, NEW d \in 1 .. MaxClock + MaxRunTime, CreateRun(s, d)
      PROVE  RowMoves(ledger[r], ledger'[r])
  <2>1. /\ ledger[s].status = "absent" /\ d <= now + MaxRunTime
        /\ ledger' = [ledger EXCEPT ![s] = AdmittedRow(d)] /\ ledger \in [Runs -> Rows]
    BY <1>1, RowFacts DEF CreateRun
  <2>2. AdmittedRow(d).status = "queued" /\ AdmittedRow(d).createdAt = now
        /\ AdmittedRow(d).deadline = d
    BY DEF AdmittedRow, NoRow
  <2>3. Admitted(ledger[s], ledger'[s])
    BY <2>1, <2>2 DEF Admitted
  <2>4. r # s => ledger'[r] = ledger[r]
    BY <2>1
  <2>5. QED
    BY <2>3, <2>4 DEF RowMoves, Passive, Settling, Quiet
<1>2. ASSUME NEW w \in Workers, NEW t \in ClockReads, NEW skipped \in SUBSET Runs,
             ClaimJob(w, t, skipped)
      PROVE  RowMoves(ledger[r], ledger'[r])
  <2>1. CASE Settling(ledger[r], ledger'[r])
    BY <2>1 DEF RowMoves, Passive
  <2>2. ASSUME NEW l \in JobLease, Leased(l), r = l.run PROVE RowMoves(ledger[r], ledger'[r])
    BY <2>2 DEF Leased, Moved, RowMoves, Advanced, Active, ActiveStatuses, UndispatchedStatuses
  <2>3. QED
    BY <1>2, <2>1, <2>2, ClaimSteps DEF Leased
<1>3. ASSUME NEW l \in leases, LeaseStep(l) PROVE RowMoves(ledger[r], ledger'[r])
  <2>1. /\ RowMoves(ledger[l.run], ledger'[l.run])
        /\ \A q \in Runs \ {l.run} : ledger'[q] = ledger[q]
    BY <1>3, HolderMoves
  <2>2. QED
    BY <2>1 DEF RowMoves, Passive, Settling, Quiet
<1>4. CASE \/ \E s \in Runs : CancelRun(s)
           \/ RestoreStep \/ MaintenanceStep \/ TargetStep \/ Tick \/ UNCHANGED vars
  BY <1>4, PassiveSteps DEF RowMoves
<1>5. QED
  BY <1>1, <1>2, <1>3, <1>4 DEF Next

\* A run never comes back to before its admission or its dispatch; while it exists its
\* lease epoch only rises.
LEMMA RowHistory ==
    ASSUME NEW x \in Rows, NEW y \in Rows, RowMoves(x, y)
    PROVE  /\ x.status # "absent" => y.status # "absent"
           /\ PastFence(x) => PastFence(y)
           /\ x.status # "absent" => y.status = "deleted" \/ x.leaseEpoch <= y.leaseEpoch
           /\ x.status = "deleted" => y.status = "deleted"
           /\ Active(y) => \/ Active(x) /\ y.deadline = x.deadline /\ y.createdAt = x.createdAt
                           \/ y.deadline <= y.createdAt + MaxRunTime
<1>1. x.leaseEpoch \in Nat /\ y.leaseEpoch \in Nat
  BY DEF Rows
<1>2. CASE Quiet(x, y)
  BY <1>1, <1>2 DEF Quiet, PastFence, Active
<1>3. CASE Ended(x, y)
  <2>1. /\ x.status \in ActiveStatuses /\ y.status \in TerminalStatuses
        /\ HonestEnd(x, y.status, y.safeErrorCode) /\ y.leaseEpoch = x.leaseEpoch
    BY <1>3 DEF Ended, Active, Terminal
  <2>2. QED
    BY <1>1, <2>1 DEF HonestEnd, PastFence, Active, ActiveStatuses, UndispatchedStatuses,
                      TerminalStatuses
<1>4. CASE Removed(x, y)
  <2>1. y.status = "deleted"
    BY <1>4 DEF Removed, NoRow
  <2>2. QED
    BY <2>1 DEF PastFence, Active, ActiveStatuses, UndispatchedStatuses
<1>5. CASE Admitted(x, y)
  BY <1>5 DEF Admitted, PastFence
<1>6. CASE Advanced(x, y)
  BY <1>1, <1>6 DEF Advanced, PastFence, Active, ActiveStatuses, UndispatchedStatuses
<1>7. QED
  BY <1>2, <1>3, <1>4, <1>5, <1>6 DEF RowMoves, Passive, Settling
-----------------------------------------------------------------------------
(* The inductive invariant of the workers. *)

\* An outcome that claims an answer is the answer that was received.
Reported(s, code, a) ==
    /\ s = "succeeded" => a = "succeeded"
    /\ s = "failed" /\ code \in ToolFailureCodes =>
         a = code \/ (a = "succeeded" /\ code = "invalid_tool_result")

Sending(w) == worker[w].pc \in {"dispatching", "waiting"}

\* Lease epochs name leases: no two leases of a run share one, and none is ahead of
\* the row.
LeaseEpochs ==
    /\ \A l \in leases :
         /\ ledger[l.run].status # "absent"
         /\ ledger[l.run].status = "deleted" \/ l.leaseEpoch <= ledger[l.run].leaseEpoch
    /\ \A l, m \in leases : l.run = m.run /\ l.leaseEpoch = m.leaseEpoch => l = m

OwnLease == \A w \in Workers : worker[w].pc # "idle" => worker[w].lease.worker = w

\* A call is made only past the dispatch fence, and an answer only follows a call.
CallsFollow ==
    /\ \A r \in Runs : /\ calls[r] # 0 => PastFence(ledger[r])
                       /\ answers[r] # NoAnswer => calls[r] # 0
    /\ \A w \in Workers : Sending(w) => /\ PastFence(ledger[worker[w].lease.run])
                                        /\ answers[worker[w].lease.run] = NoAnswer
    /\ \A w \in Workers : worker[w].pc = "dispatching" => calls[worker[w].lease.run] = 0
    /\ \A w \in Workers : worker[w].pc = "waiting" => calls[worker[w].lease.run] # 0

\* What a worker is about to record, and what is recorded, was answered.
AnswersRecorded ==
    /\ \A w \in Workers : worker[w].pc # "idle" =>
         Reported(worker[w].outcome.status, worker[w].outcome.code,
                  answers[worker[w].lease.run])
    /\ \A r \in Runs : Reported(ledger[r].status, ledger[r].safeErrorCode, answers[r])

\* A run's deadline is fixed at its admission.
DeadlinesFixed ==
    \A r \in Runs : Active(ledger[r]) =>
        ledger[r].deadline <= ledger[r].createdAt + MaxRunTime

WorkerInv ==
    /\ LedgerInv
    /\ AtMostOneCall
    /\ LeaseEpochs
    /\ OwnLease
    /\ CallsFollow
    /\ AnswersRecorded
    /\ DeadlinesFixed

WorkerPcs == {"idle", "loading", "preparing", "session", "dispatching", "waiting",
              "renewing", "completing"}

\* Facts every step of a worker uses.
LEMMA WorkerFacts ==
    ASSUME WorkerInv
    PROVE  /\ ledger \in [Runs -> Rows]
           /\ worker \in [Workers -> [pc : WorkerPcs, lease : leases \cup {NoLease},
                                      outcome : Outcomes \cup {NoOutcome}]]
           /\ calls \in [Runs -> Nat]
           /\ answers \in [Runs -> {NoAnswer, "succeeded"} \cup ToolFailureCodes]
           /\ NoLease \notin leases
           /\ leases \subseteq JobLease
           /\ \A w \in Workers : worker[w].pc # "idle" =>
                /\ worker[w].lease \in leases /\ worker[w].lease.worker = w
                /\ worker[w].lease.run \in Runs
                /\ worker[w].lease.leaseEpoch \in Nat
<1>1. NoLease \notin JobLease
  BY DEF NoLease, JobLease
<1>2. leases \subseteq JobLease /\ ledger \in [Runs -> Rows]
  BY DEF WorkerInv, LedgerInv, TypeOK
<1>3. WorkerTypeOK /\ OwnLease
  BY DEF WorkerInv, AtMostOneCall
<1>4. \A l \in leases : l.run \in Runs /\ l.leaseEpoch \in Nat
  BY <1>2 DEF JobLease
<1>5. \A w \in Workers : worker[w].pc # "idle" => worker[w].lease \in leases
  BY <1>3 DEF WorkerTypeOK
<1>6. QED
  BY <1>1, <1>2, <1>3, <1>4, <1>5 DEF WorkerTypeOK, OwnLease, WorkerPcs

\* The parts of the invariant that only the ledger and the leases can disturb.
LEMMA LeasesKept ==
    ASSUME WorkerInv, LedgerInv', [Next]_vars, leases' = leases
    PROVE  LeaseEpochs' /\ DeadlinesFixed'
<1>1. \A r \in Runs : /\ ledger[r] \in Rows /\ ledger'[r] \in Rows
                      /\ RowMoves(ledger[r], ledger'[r])
  BY EveryRowMoves DEF WorkerInv, LedgerInv, TypeOK
<1>2. \A l \in leases : l.run \in Runs /\ l.leaseEpoch \in Nat
  BY WorkerFacts DEF JobLease
<1>3. LeaseEpochs'
  <2>1. ASSUME NEW l \in leases
        PROVE  /\ ledger'[l.run].status # "absent"
               /\ ledger'[l.run].status = "deleted" \/ l.leaseEpoch <= ledger'[l.run].leaseEpoch
    <3>1. /\ ledger[l.run].status # "absent"
          /\ ledger[l.run].status = "deleted" \/ l.leaseEpoch <= ledger[l.run].leaseEpoch
      BY DEF WorkerInv, LeaseEpochs
    <3>2. ledger[l.run].leaseEpoch \in Nat /\ ledger'[l.run].leaseEpoch \in Nat
      BY <1>1, <1>2 DEF Rows
    <3>3. QED
      BY <1>1, <1>2, <3>1, <3>2, RowHistory
  <2>2. QED
    BY <2>1 DEF WorkerInv, LeaseEpochs
<1>4. DeadlinesFixed'
  BY <1>1, RowHistory DEF WorkerInv, DeadlinesFixed
<1>5. QED
  BY <1>3, <1>4

\* A poll gives a lease whose epoch no lease of the run had.
LEMMA LeaseGranted ==
    ASSUME WorkerInv, LedgerInv', NEW w \in Workers, NEW t \in ClockReads,
           NEW skipped \in SUBSET Runs, ClaimJob(w, t, skipped)
    PROVE  /\ LeaseEpochs' /\ DeadlinesFixed'
           /\ \/ leases' = leases
              \/ \E l \in JobLease : l.worker = w /\ leases' = leases \cup {l}
<1>1. [Next]_vars
  BY DEF Next
<1>2. CASE leases' = leases
  BY <1>1, <1>2, LeasesKept
<1>3. ASSUME NEW l \in JobLease, l.worker = w, leases' = leases \cup {l}, Leased(l)
      PROVE  LeaseEpochs' /\ DeadlinesFixed'
  <2>1. \A r \in Runs : /\ ledger[r] \in Rows /\ ledger'[r] \in Rows
                        /\ RowMoves(ledger[r], ledger'[r])
                        /\ ledger[r].leaseEpoch \in Nat /\ ledger'[r].leaseEpoch \in Nat
    BY <1>1, EveryRowMoves DEF WorkerInv, LedgerInv, TypeOK, Rows
  <2>2. \A m \in leases' : m.run \in Runs /\ m.leaseEpoch \in Nat
    BY <1>3, WorkerFacts DEF JobLease
  <2>3. /\ l.run \in Runs /\ ledger[l.run].status \in UndispatchedStatuses
        /\ l.leaseEpoch = ledger[l.run].leaseEpoch + 1
        /\ ledger'[l.run].status = "preparing" /\ ledger'[l.run].leaseEpoch = l.leaseEpoch
    BY <1>3 DEF Leased, Moved
  <2>4. ASSUME NEW m \in leases
        PROVE  /\ ledger[m.run].status # "absent"
               /\ ledger[m.run].status = "deleted" \/ m.leaseEpoch <= ledger[m.run].leaseEpoch
    BY DEF WorkerInv, LeaseEpochs
  <2>5. ASSUME NEW m \in leases'
        PROVE  /\ ledger'[m.run].status # "absent"
               /\ ledger'[m.run].status = "deleted" \/ m.leaseEpoch <= ledger'[m.run].leaseEpoch
    <3>1. CASE m = l
      BY <2>2, <2>3, <3>1
    <3>2. CASE m \in leases
      BY <2>1, <2>2, <2>4, <3>2, RowHistory
    <3>3. QED
      BY <1>3, <3>1, <3>2
  <2>6. ASSUME NEW m \in leases, m.run = l.run PROVE m.leaseEpoch # l.leaseEpoch
    <3>1. m.leaseEpoch <= ledger[l.run].leaseEpoch
      BY <2>3, <2>4, <2>6 DEF UndispatchedStatuses
    <3>2. QED
      BY <2>1, <2>2, <2>3, <2>6, <3>1
  <2>7. \A k, m \in leases : k.run = m.run /\ k.leaseEpoch = m.leaseEpoch => k = m
    BY DEF WorkerInv, LeaseEpochs
  <2>8. \A k, m \in leases' : k.run = m.run /\ k.leaseEpoch = m.leaseEpoch => k = m
    BY <1>3, <2>6, <2>7
  <2>9. DeadlinesFixed'
    BY <2>1, RowHistory DEF WorkerInv, DeadlinesFixed
  <2>10. QED
    BY <2>5, <2>8, <2>9 DEF LeaseEpochs
<1>4. LedgerInv
  BY DEF WorkerInv
<1>5. QED
  BY <1>2, <1>3, <1>4, ClaimSteps

\* Where a worker may go while no call leaves and no answer arrives.
Turn(w) ==
    LET z == worker'[w]
        r == z.lease.run IN
    \/ z = Idle
    \/ /\ z \in [pc : WorkerPcs \ {"idle", "waiting"}, lease : leases',
                 outcome : Outcomes \cup {NoOutcome}]
       /\ z.lease.worker = w
       /\ Reported(z.outcome.status, z.outcome.code, answers[r])
       /\ z.pc = "session" => ~PastFence(ledger[r])
       /\ z.pc = "dispatching" =>
            /\ ~PastFence(ledger[r]) /\ PastFence(ledger'[r])
            /\ ledger'[r].status # "deleted" /\ ledger'[r].leaseEpoch = z.lease.leaseEpoch

\* While no call leaves and no answer arrives, the workers keep the invariant.
LEMMA TurnOK ==
    ASSUME WorkerInv, LedgerInv', LeaseEpochs', DeadlinesFixed', [Next]_vars,
           leases \subseteq leases', UNCHANGED <<calls, answers>>,
           worker' = [w \in Workers |-> worker'[w]],
           \A w \in Workers : worker'[w] = worker[w] \/ Turn(w),
           \A r \in Runs : Reported(ledger'[r].status, ledger'[r].safeErrorCode, answers[r])
    PROVE  WorkerInv'
<1>1. /\ ledger \in [Runs -> Rows] /\ ledger' \in [Runs -> Rows]
      /\ \A r \in Runs : RowMoves(ledger[r], ledger'[r])
  BY EveryRowMoves DEF WorkerInv, LedgerInv, TypeOK
<1>2. \A r \in Runs : PastFence(ledger[r]) => PastFence(ledger'[r])
  BY <1>1, RowHistory
<1>3. NoLease \notin leases' /\ \A l \in leases' : l.run \in Runs /\ l.leaseEpoch \in Nat
  <2>1. leases' \subseteq JobLease
    BY DEF LedgerInv, TypeOK
  <2>2. QED
    BY <2>1 DEF JobLease, NoLease
<1>4. \A w \in Workers : /\ worker'[w] \in [pc : WorkerPcs, lease : leases' \cup {NoLease},
                                            outcome : Outcomes \cup {NoOutcome}]
                         /\ worker'[w].pc = "idle" <=> worker'[w].lease = NoLease
                         /\ worker'[w].pc # "idle" => worker'[w].lease.worker = w
                                                      /\ worker'[w].lease \in leases'
                                                      /\ worker'[w].lease.run \in Runs
  <2> SUFFICES ASSUME NEW w \in Workers
               PROVE  /\ worker'[w] \in [pc : WorkerPcs, lease : leases' \cup {NoLease},
                                         outcome : Outcomes \cup {NoOutcome}]
                      /\ worker'[w].pc = "idle" <=> worker'[w].lease = NoLease
                      /\ worker'[w].pc # "idle" => worker'[w].lease.worker = w
                                                   /\ worker'[w].lease \in leases'
    BY <1>3
  <2>1. CASE worker'[w] = worker[w]
    <3>1. WorkerTypeOK /\ OwnLease
      BY DEF WorkerInv, AtMostOneCall
    <3>2. QED
      BY <2>1, <3>1 DEF WorkerTypeOK, OwnLease, WorkerPcs
  <2>2. CASE worker'[w] = Idle
    BY <2>2 DEF Idle, WorkerPcs
  <2>3. CASE worker'[w] # worker[w] /\ worker'[w] # Idle
    <3>1. /\ worker'[w] \in [pc : WorkerPcs \ {"idle", "waiting"}, lease : leases',
                             outcome : Outcomes \cup {NoOutcome}]
          /\ worker'[w].lease.worker = w
      BY <2>3 DEF Turn
    <3>2. QED
      BY <1>3, <3>1
  <2>4. QED
    BY <2>1, <2>2, <2>3
<1>5. WorkerTypeOK' /\ OwnLease'
  <2>1. /\ calls \in [Runs -> Nat]
        /\ answers \in [Runs -> {NoAnswer, "succeeded"} \cup ToolFailureCodes]
    BY WorkerFacts
  <2>2. worker' \in [Workers -> [pc : WorkerPcs, lease : leases' \cup {NoLease},
                                 outcome : Outcomes \cup {NoOutcome}]]
    BY <1>4
  <2>3. QED
    BY <1>4, <2>1, <2>2 DEF WorkerTypeOK, OwnLease, WorkerPcs
<1>6. ASSUME NEW w \in Workers, worker'[w].pc \in {"session", "dispatching", "waiting"}
      PROVE  \/ worker'[w] = worker[w] /\ worker[w].lease \in leases
             \/ Turn(w) /\ ~PastFence(ledger[worker'[w].lease.run])
                        /\ worker'[w].pc \in {"session", "dispatching"}
                        /\ (worker'[w].pc = "dispatching" =>
                              /\ PastFence(ledger'[worker'[w].lease.run])
                              /\ ledger'[worker'[w].lease.run].status # "deleted"
                              /\ ledger'[worker'[w].lease.run].leaseEpoch
                                   = worker'[w].lease.leaseEpoch)
  <2>1. worker'[w].pc # "idle" /\ worker'[w] # Idle
    BY <1>6 DEF Idle
  <2>2. CASE worker'[w] = worker[w]
    BY <2>1, <2>2, WorkerFacts
  <2>3. CASE Turn(w)
    BY <1>6, <2>1, <2>3 DEF Turn
  <2>4. QED
    BY <2>2, <2>3
<1>7. ASSUME NEW v \in Workers, NEW w \in Workers,
             worker'[v].pc \in {"dispatching", "waiting"},
             worker'[w].pc \in {"session", "dispatching", "waiting"},
             worker'[v].lease.run = worker'[w].lease.run
      PROVE  v = w \/ (worker'[w].pc = "session"
                       /\ worker'[w].lease.leaseEpoch < worker'[v].lease.leaseEpoch)
  <2> DEFINE r == worker'[v].lease.run
  <2>1. r \in Runs /\ worker'[v].lease \in leases' /\ worker'[w].lease \in leases'
        /\ worker'[v].lease.worker = v /\ worker'[w].lease.worker = w
    BY <1>4, <1>7
  <2>2. CASE worker'[v] = worker[v]
    <3>1. PastFence(ledger[r])
      BY <1>7, <2>2 DEF WorkerInv, CallsFollow, Sending
    <3>2. worker'[w] = worker[w]
      BY <1>6, <1>7, <3>1
    <3>3. QED
      BY <1>7, <2>2, <3>2 DEF WorkerInv, AtMostOneCall
  <2>3. CASE worker'[v] # worker[v]
    <3>1. /\ ~PastFence(ledger[r]) /\ worker'[v].pc = "dispatching"
          /\ ledger'[r].status # "deleted"
          /\ ledger'[r].leaseEpoch = worker'[v].lease.leaseEpoch
      BY <1>6, <1>7, <2>3
    <3>2. worker'[w].lease.leaseEpoch <= ledger'[r].leaseEpoch
      BY <1>7, <2>1, <3>1 DEF LeaseEpochs
    <3>3. v = w \/ worker'[w].lease.leaseEpoch # worker'[v].lease.leaseEpoch
      BY <1>7, <2>1 DEF LeaseEpochs
    <3>4. v = w \/ worker'[w].lease.leaseEpoch < worker'[v].lease.leaseEpoch
      <4>1. worker'[w].lease.leaseEpoch \in Nat /\ worker'[v].lease.leaseEpoch \in Nat
        BY <1>3, <2>1
      <4>2. QED
        BY <3>1, <3>2, <3>3, <4>1
    <3>5. worker'[w].pc # "waiting"
      <4>1. SUFFICES ASSUME worker'[w].pc = "waiting" PROVE FALSE
        OBVIOUS
      <4>2. worker'[w] = worker[w]
        BY <1>6, <4>1
      <4>3. PastFence(ledger[r])
        BY <1>7, <4>1, <4>2 DEF WorkerInv, CallsFollow, Sending
      <4>4. QED
        BY <3>1, <4>3
    <3>6. v = w \/ worker'[w].pc # "dispatching"
      <4>1. SUFFICES ASSUME worker'[w].pc = "dispatching", v # w PROVE FALSE
        OBVIOUS
      <4>2. CASE worker'[w] = worker[w]
        <5>1. PastFence(ledger[r])
          BY <1>7, <4>1, <4>2 DEF WorkerInv, CallsFollow, Sending
        <5>2. QED
          BY <3>1, <5>1
      <4>3. CASE worker'[w] # worker[w]
        <5>1. ledger'[r].leaseEpoch = worker'[w].lease.leaseEpoch
          BY <1>6, <1>7, <4>1, <4>3
        <5>2. QED
          BY <3>1, <3>3, <4>1, <5>1
      <4>4. QED
        BY <4>2, <4>3
    <3>7. QED
      BY <1>7, <3>4, <3>5, <3>6
  <2>4. QED
    BY <2>2, <2>3
<1>8. AtMostOneCall'
  <2>1. \A r \in Runs : calls'[r] <= 1
    BY DEF WorkerInv, AtMostOneCall
  <2>2. QED
    BY <1>5, <1>7, <2>1 DEF AtMostOneCall
<1>9. CallsFollow'
  <2>1. \A r \in Runs : /\ calls'[r] # 0 => PastFence(ledger'[r])
                        /\ answers'[r] # NoAnswer => calls'[r] # 0
    BY <1>2 DEF WorkerInv, CallsFollow
  <2>2. ASSUME NEW w \in Workers, worker'[w].pc \in {"dispatching", "waiting"}
        PROVE  /\ PastFence(ledger'[worker'[w].lease.run])
               /\ answers'[worker'[w].lease.run] = NoAnswer
               /\ worker'[w].pc = "dispatching" => calls'[worker'[w].lease.run] = 0
               /\ worker'[w].pc = "waiting" => calls'[worker'[w].lease.run] # 0
    <3>1. worker'[w].lease.run \in Runs
      BY <1>4, <2>2
    <3>2. CASE worker'[w] = worker[w]
      BY <1>2, <2>2, <3>1, <3>2 DEF WorkerInv, CallsFollow, Sending
    <3>3. CASE worker'[w] # worker[w]
      <4>1. /\ ~PastFence(ledger[worker'[w].lease.run])
            /\ PastFence(ledger'[worker'[w].lease.run])
            /\ worker'[w].pc = "dispatching"
        BY <1>6, <2>2, <3>3
      <4>2. QED
        BY <3>1, <4>1 DEF WorkerInv, CallsFollow
    <3>4. QED
      BY <3>2, <3>3
  <2>3. QED
    BY <2>1, <2>2 DEF CallsFollow, Sending
<1>10. AnswersRecorded'
  <2>1. ASSUME NEW w \in Workers, worker'[w].pc # "idle"
        PROVE  Reported(worker'[w].outcome.status, worker'[w].outcome.code,
                        answers[worker'[w].lease.run])
    <3>1. CASE worker'[w] = worker[w]
      BY <2>1, <3>1 DEF WorkerInv, AnswersRecorded
    <3>2. CASE Turn(w)
      <4>1. worker'[w] # Idle
        BY <2>1 DEF Idle
      <4>2. QED
        BY <3>2, <4>1 DEF Turn
    <3>3. QED
      BY <3>1, <3>2
  <2>2. QED
    BY <2>1 DEF AnswersRecorded
<1>11. QED
  BY <1>5, <1>8, <1>9, <1>10 DEF WorkerInv
-----------------------------------------------------------------------------
(* One lemma per step of the worker program. *)

\* A worker changes its own record only.
LEMMA OneWorker ==
    ASSUME WorkerInv, NEW w \in Workers, NEW z, worker' = [worker EXCEPT ![w] = z]
    PROVE  /\ worker' = [v \in Workers |-> worker'[v]]
           /\ worker'[w] = z
           /\ \A v \in Workers : v # w => worker'[v] = worker[v]
BY WorkerFacts

\* The three ways a worker goes on: under its lease, with an outcome, or not at all.
LEMMA WorkerMoves ==
    ASSUME WorkerInv, NEW w \in Workers, NEW pc, NEW s, NEW code
    PROVE  /\ Go(w, pc) => worker' = [worker EXCEPT ![w] =
                [pc |-> pc, lease |-> worker[w].lease, outcome |-> worker[w].outcome]]
           /\ Report(w, s, code) => worker' = [worker EXCEPT ![w] =
                [pc |-> "renewing", lease |-> worker[w].lease,
                 outcome |-> [status |-> s, code |-> code]]]
           /\ Return(w) => worker' = [worker EXCEPT ![w] = Idle]
BY WorkerFacts DEF Go, Report, Return

\* Moving on under the same lease, without crossing a fence.
LEMMA GoTurn ==
    ASSUME WorkerInv, NEW w \in Workers, worker[w].pc # "idle", leases' = leases,
           NEW pc \in {"preparing", "renewing", "completing"}, Go(w, pc)
    PROVE  Turn(w)
<1>1. worker'[w] = [pc |-> pc, lease |-> worker[w].lease, outcome |-> worker[w].outcome]
  BY WorkerMoves, OneWorker
<1>2. /\ worker[w].lease \in leases /\ worker[w].lease.worker = w
      /\ worker[w].outcome \in Outcomes \cup {NoOutcome}
  BY WorkerFacts
<1>3. Reported(worker[w].outcome.status, worker[w].outcome.code, answers[worker[w].lease.run])
  BY DEF WorkerInv, AnswersRecorded
<1>4. QED
  BY <1>1, <1>2, <1>3 DEF Turn, WorkerPcs

\* Reporting an outcome that claims no more than what was answered.
LEMMA ReportTurn ==
    ASSUME WorkerInv, NEW w \in Workers, worker[w].pc # "idle", leases' = leases,
           NEW s, NEW code, [status |-> s, code |-> code] \in Outcomes,
           Reported(s, code, answers[worker[w].lease.run]), Report(w, s, code)
    PROVE  Turn(w)
<1>1. worker'[w] = [pc |-> "renewing", lease |-> worker[w].lease,
                    outcome |-> [status |-> s, code |-> code]]
  BY WorkerMoves, OneWorker
<1>2. worker[w].lease \in leases /\ worker[w].lease.worker = w
  BY WorkerFacts
<1>3. QED
  BY <1>1, <1>2 DEF Turn, WorkerPcs

\* Failures before the dispatch claim no answer.
LEMMA EarlyFailures ==
    ASSUME NEW a, NEW code \in {"preparation_failed", "session_initialization_failed"}
    PROVE  [status |-> "failed", code |-> code] \in Outcomes /\ Reported("failed", code, a)
BY DEF Outcomes, Reported, ToolFailureCodes

\* An unknown outcome claims no answer.
LEMMA UnknownOutcome ==
    ASSUME NEW a
    PROVE  /\ [status |-> "indeterminate", code |-> "upstream_outcome_unknown"] \in Outcomes
           /\ Reported("indeterminate", "upstream_outcome_unknown", a)
BY DEF Outcomes, Reported

\* A step of one worker that leaves the ledger's leases, the calls and the answers.
LEMMA WorkerTurnOK ==
    ASSUME WorkerInv, [Next]_vars, leases' = leases, UNCHANGED <<calls, answers>>,
           NEW w \in Workers, NEW z, worker' = [worker EXCEPT ![w] = z], Turn(w),
           \A r \in Runs : \/ Unanswered(ledger[r], ledger'[r])
                           \/ Reported(ledger'[r].status, ledger'[r].safeErrorCode, answers[r])
    PROVE  WorkerInv'
<1>1. LedgerInv'
  BY NextOK DEF WorkerInv
<1>2. LeaseEpochs' /\ DeadlinesFixed'
  BY <1>1, LeasesKept
<1>3. \A r \in Runs : Reported(ledger'[r].status, ledger'[r].safeErrorCode, answers[r])
  BY DEF Unanswered, Reported, Answered, WorkerInv, AnswersRecorded
<1>4. QED
  BY <1>1, <1>2, <1>3, OneWorker, TurnOK

\* Nothing changes in the ledger.
LEMMA LedgerIdle ==
    ASSUME UNCHANGED vars
    PROVE  /\ [Next]_vars /\ leases' = leases
           /\ \A r \in Runs : Unanswered(ledger[r], ledger'[r])
BY DEF vars, Unanswered

\* Returning from run_once is a turn of one worker that makes it idle.
LEMMA ReturnTurn ==
    ASSUME WorkerInv, NEW w \in Workers, Return(w)
    PROVE  Turn(w) /\ worker' = [worker EXCEPT ![w] = Idle]
<1>1. worker' = [worker EXCEPT ![w] = Idle]
  BY DEF Return
<1>2. worker'[w] = Idle
  BY <1>1, OneWorker
<1>3. QED
  BY <1>1, <1>2 DEF Turn

\* claim_and_run
LEMMA PollOK ==
    ASSUME WorkerInv, NEW w \in Workers, NEW t \in ClockReads, NEW skipped \in SUBSET Runs,
           Poll(w, t, skipped)
    PROVE  WorkerInv'
<1>1. /\ At(w, "idle") /\ ClaimJob(w, t, skipped) /\ UNCHANGED <<calls, answers>>
      /\ worker' = IF leases' = leases THEN worker
                   ELSE [worker EXCEPT ![w] =
                          [pc |-> "loading", lease |-> CHOOSE l \in leases' \ leases : TRUE,
                           outcome |-> NoOutcome]]
  BY DEF Poll
<1>2. [Next]_vars
  BY <1>1 DEF Next
<1>3. LedgerInv /\ LedgerInv'
  BY <1>2, NextOK DEF WorkerInv
<1>4. /\ LeaseEpochs' /\ DeadlinesFixed'
      /\ \/ leases' = leases
         \/ \E l \in JobLease : l.worker = w /\ leases' = leases \cup {l}
  BY <1>1, <1>3, LeaseGranted
<1>5. \A r \in Runs : Reported(ledger'[r].status, ledger'[r].safeErrorCode, answers[r])
  <2>1. ASSUME NEW r \in Runs PROVE Unanswered(ledger[r], ledger'[r])
    <3>1. CASE Settling(ledger[r], ledger'[r])
      BY <3>1, PassiveUnanswered DEF Passive
    <3>2. ASSUME NEW l \in JobLease, Leased(l), r = l.run PROVE Unanswered(ledger[r], ledger'[r])
      BY <3>2 DEF Leased, Moved, Unanswered, Answered
    <3>3. QED
      BY <1>1, <1>3, <3>1, <3>2, ClaimSteps DEF Leased
  <2>2. QED
    BY <2>1 DEF Unanswered, Reported, Answered, WorkerInv, AnswersRecorded
<1>6. CASE leases' = leases
  <2>1. worker' = worker
    BY <1>1, <1>6
  <2>2. worker' = [v \in Workers |-> worker'[v]]
    BY <2>1, WorkerFacts
  <2>3. QED
    BY <1>1, <1>2, <1>3, <1>4, <1>5, <1>6, <2>1, <2>2, TurnOK
<1>7. ASSUME NEW l \in JobLease, l.worker = w, leases' = leases \cup {l}, leases' # leases
      PROVE  WorkerInv'
  <2>1. (CHOOSE m \in leases' \ leases : TRUE) = l
    BY <1>7
  <2>2. worker' = [worker EXCEPT ![w] = [pc |-> "loading", lease |-> l, outcome |-> NoOutcome]]
    BY <1>1, <1>7, <2>1
  <2>3. worker'[w] = [pc |-> "loading", lease |-> l, outcome |-> NoOutcome]
    BY <2>2, OneWorker
  <2>4. Turn(w)
    <3>1. Reported("none", NoCode, answers[l.run])
      BY DEF Reported
    <3>2. NoOutcome.status = "none" /\ NoOutcome.code = NoCode
      BY DEF NoOutcome
    <3>3. QED
      BY <1>7, <2>3, <3>1, <3>2 DEF Turn, WorkerPcs
  <2>5. /\ worker' = [v \in Workers |-> worker'[v]]
        /\ \A v \in Workers : worker'[v] = worker[v] \/ Turn(v)
    BY <2>2, <2>4, OneWorker
  <2>6. QED
    BY <1>1, <1>2, <1>3, <1>4, <1>5, <1>7, <2>5, TurnOK
<1>8. QED
  BY <1>4, <1>6, <1>7

\* _load_target
LEMMA LoadTargetOK ==
    ASSUME WorkerInv, NEW w \in Workers, LoadTarget(w)
    PROVE  WorkerInv'
<1>1. worker[w].pc # "idle" /\ UNCHANGED vars /\ UNCHANGED <<calls, answers>>
  BY DEF LoadTarget, At
<1>2. CASE Go(w, "preparing")
  <2>1. Turn(w)
    BY <1>1, <1>2, GoTurn, LedgerIdle
  <2>2. QED
    BY <1>1, <1>2, <2>1, WorkerMoves, WorkerTurnOK, LedgerIdle
<1>3. CASE Report(w, "failed", "preparation_failed")
  <2>1. Turn(w)
    BY <1>1, <1>3, ReportTurn, EarlyFailures, LedgerIdle
  <2>2. QED
    BY <1>1, <1>3, <2>1, WorkerMoves, WorkerTurnOK, LedgerIdle
<1>4. QED
  BY <1>2, <1>3 DEF LoadTarget

\* A session failure, wherever it comes from, under any step of the ledger that brings
\* no answer.
LEMMA SessionFailureOK ==
    ASSUME WorkerInv, [Next]_vars, leases' = leases, UNCHANGED <<calls, answers>>,
           \A r \in Runs : Unanswered(ledger[r], ledger'[r]),
           NEW w \in Workers, worker[w].pc # "idle",
           Report(w, "failed", "session_initialization_failed")
    PROVE  WorkerInv'
<1>1. Turn(w)
  BY ReportTurn, EarlyFailures
<1>2. QED
  BY <1>1, WorkerMoves, WorkerTurnOK

\* A worker that gives up its lease.
LEMMA ReturnOK ==
    ASSUME WorkerInv, [Next]_vars, leases' = leases, UNCHANGED <<calls, answers>>,
           \A r \in Runs : Unanswered(ledger[r], ledger'[r]),
           NEW w \in Workers, Return(w)
    PROVE  WorkerInv'
BY ReturnTurn, WorkerTurnOK

\* A fence crosses no answer into the ledger.
LEMMA FenceMoves ==
    ASSUME WorkerInv, NEW w \in Workers, worker[w].pc # "idle"
    PROVE  LET l == worker[w].lease
               x == ledger[l.run]
               y == ledger'[l.run] IN
           /\ FenceSession(l, TRUE) \/ FenceDispatch(l) \/ Heartbeat(l) =>
                /\ [Next]_vars /\ leases' = leases
                /\ \A r \in Runs : Unanswered(ledger[r], ledger'[r])
           /\ FenceSession(l, TRUE) => ~PastFence(x)
           /\ FenceDispatch(l) =>
                /\ ~PastFence(x) /\ PastFence(y) /\ y.status # "deleted"
                /\ y.leaseEpoch = l.leaseEpoch
<1> DEFINE l == worker[w].lease
           x == ledger[l.run]
           y == ledger'[l.run]
<1>1. l \in leases /\ LedgerInv
  BY WorkerFacts DEF WorkerInv
<1> HIDE DEF l
<1>2. ASSUME LeaseStep(l)
      PROVE  /\ [Next]_vars /\ leases' = leases
             /\ \A q \in Runs \ {l.run} : ledger'[q] = ledger[q]
             /\ x.leaseEpoch = l.leaseEpoch
  <2>1. /\ \A q \in Runs \ {l.run} : ledger'[q] = ledger[q]
        /\ leases' = leases /\ LeaseHeld(l)
    BY <1>1, <1>2, HolderSteps
  <2>2. QED
    BY <1>1, <1>2, <2>1 DEF Next, LeaseHeld
<1>3. ASSUME FenceSession(l, TRUE)
      PROVE  LeaseStep(l) /\ Unanswered(x, y) /\ ~PastFence(x)
  <2>1. x.status = "preparing" /\ Moved(x, y, "session_fenced", x.leaseEpoch)
    BY <1>1, <1>3, HolderSteps
  <2>2. QED
    BY <1>3, <2>1 DEF LeaseStep, Moved, Unanswered, Answered, PastFence
<1>4. ASSUME FenceDispatch(l)
      PROVE  /\ LeaseStep(l) /\ Unanswered(x, y) /\ ~PastFence(x) /\ PastFence(y)
             /\ y.status # "deleted" /\ y.leaseEpoch = x.leaseEpoch
  <2>1. x.status = "session_fenced" /\ Moved(x, y, "dispatch_fenced", x.leaseEpoch)
    BY <1>1, <1>4, HolderSteps
  <2>2. QED
    BY <1>4, <2>1 DEF LeaseStep, Moved, Unanswered, Answered, PastFence
<1>5. ASSUME Heartbeat(l)
      PROVE  LeaseStep(l) /\ Unanswered(x, y)
  <2>1. Moved(x, y, x.status, x.leaseEpoch) /\ y.safeErrorCode = x.safeErrorCode
    BY <1>1, <1>5, HolderSteps
  <2>2. QED
    BY <1>5, <2>1 DEF LeaseStep, Moved, Unanswered
<1>6. ASSUME Unanswered(x, y), \A q \in Runs \ {l.run} : ledger'[q] = ledger[q]
      PROVE  \A r \in Runs : Unanswered(ledger[r], ledger'[r])
  BY <1>6 DEF Unanswered
<1> HIDE DEF x, y
<1>7. QED
  BY <1>2, <1>3, <1>4, <1>5, <1>6 DEF l, x, y

\* before_session
LEMMA FenceSessionStepOK ==
    ASSUME WorkerInv, NEW w \in Workers, FenceSessionStep(w)
    PROVE  WorkerInv'
<1> DEFINE l == worker[w].lease
<1>1. worker[w].pc # "idle" /\ UNCHANGED <<calls, answers>>
  BY DEF FenceSessionStep, At
<1>2. CASE FenceSession(l, TRUE) /\ Go(w, "session")
  <2>1. /\ [Next]_vars /\ leases' = leases
        /\ \A r \in Runs : Unanswered(ledger[r], ledger'[r])
        /\ ~PastFence(ledger[l.run])
    BY <1>1, <1>2, FenceMoves
  <2>2. worker' = [worker EXCEPT ![w] =
                    [pc |-> "session", lease |-> l, outcome |-> worker[w].outcome]]
    BY <1>2, WorkerMoves
  <2>3. worker'[w] = [pc |-> "session", lease |-> l, outcome |-> worker[w].outcome]
    BY <2>2, OneWorker
  <2>4. Turn(w)
    <3>1. /\ l \in leases /\ l.worker = w
          /\ worker[w].outcome \in Outcomes \cup {NoOutcome}
      BY <1>1, WorkerFacts
    <3>2. Reported(worker[w].outcome.status, worker[w].outcome.code, answers[l.run])
      BY <1>1 DEF WorkerInv, AnswersRecorded
    <3>3. QED
      BY <2>1, <2>3, <3>1, <3>2 DEF Turn, WorkerPcs
  <2>5. QED
    BY <1>1, <2>1, <2>2, <2>4, WorkerTurnOK
<1>3. CASE FenceSession(l, TRUE) /\ Report(w, "failed", "session_initialization_failed")
  BY <1>1, <1>3, FenceMoves, SessionFailureOK
<1>4. CASE UNCHANGED vars /\ Report(w, "failed", "session_initialization_failed")
  BY <1>1, <1>4, LedgerIdle, SessionFailureOK
<1>5. CASE UNCHANGED vars /\ Return(w)
  BY <1>1, <1>5, LedgerIdle, ReturnOK
<1>6. QED
  BY <1>2, <1>3, <1>4, <1>5 DEF FenceSessionStep

\* A database session that fails mid-way leaves the ledger as it was.
LEMMA SessionFailsOK ==
    ASSUME WorkerInv, NEW w \in Workers, SessionFails(w)
    PROVE  WorkerInv'
<1>1. worker[w].pc # "idle" /\ UNCHANGED vars /\ UNCHANGED <<calls, answers>>
  BY DEF SessionFails, At
<1>2. QED
  BY <1>1, LedgerIdle, SessionFailureOK DEF SessionFails

\* before_dispatch
LEMMA FenceDispatchStepOK ==
    ASSUME WorkerInv, NEW w \in Workers, FenceDispatchStep(w)
    PROVE  WorkerInv'
<1> DEFINE l == worker[w].lease
<1>1. worker[w].pc # "idle" /\ UNCHANGED <<calls, answers>>
  BY DEF FenceDispatchStep, At
<1>2. CASE FenceDispatch(l) /\ Go(w, "dispatching")
  <2>1. /\ [Next]_vars /\ leases' = leases
        /\ \A r \in Runs : Unanswered(ledger[r], ledger'[r])
        /\ ~PastFence(ledger[l.run]) /\ PastFence(ledger'[l.run])
        /\ ledger'[l.run].status # "deleted" /\ ledger'[l.run].leaseEpoch = l.leaseEpoch
    BY <1>1, <1>2, FenceMoves
  <2>2. worker' = [worker EXCEPT ![w] =
                    [pc |-> "dispatching", lease |-> l, outcome |-> worker[w].outcome]]
    BY <1>2, WorkerMoves
  <2>3. worker'[w] = [pc |-> "dispatching", lease |-> l, outcome |-> worker[w].outcome]
    BY <2>2, OneWorker
  <2>4. Turn(w)
    <3>1. /\ l \in leases /\ l.worker = w
          /\ worker[w].outcome \in Outcomes \cup {NoOutcome}
      BY <1>1, WorkerFacts
    <3>2. Reported(worker[w].outcome.status, worker[w].outcome.code, answers[l.run])
      BY <1>1 DEF WorkerInv, AnswersRecorded
    <3>3. QED
      BY <2>1, <2>3, <3>1, <3>2 DEF Turn, WorkerPcs
  <2>5. QED
    BY <1>1, <2>1, <2>2, <2>4, WorkerTurnOK
<1>3. CASE FenceDispatch(l) /\ Report(w, "failed", "session_initialization_failed")
  BY <1>1, <1>3, FenceMoves, SessionFailureOK
<1>4. CASE UNCHANGED vars /\ Return(w)
  BY <1>1, <1>4, LedgerIdle, ReturnOK
<1>5. QED
  BY <1>2, <1>3, <1>4 DEF FenceDispatchStep

\* _renew_lease
LEMMA RenewLeaseOK ==
    ASSUME WorkerInv, NEW w \in Workers, RenewLease(w)
    PROVE  WorkerInv'
<1> DEFINE l == worker[w].lease
<1>1. worker[w].pc # "idle" /\ UNCHANGED <<calls, answers>>
  BY DEF RenewLease, At
<1>2. CASE Heartbeat(l) /\ Go(w, "completing")
  <2>1. /\ [Next]_vars /\ leases' = leases
        /\ \A r \in Runs : Unanswered(ledger[r], ledger'[r])
    BY <1>1, <1>2, FenceMoves
  <2>2. Turn(w)
    BY <1>1, <1>2, <2>1, GoTurn
  <2>3. QED
    BY <1>1, <1>2, <2>1, <2>2, WorkerMoves, WorkerTurnOK
<1>3. CASE UNCHANGED vars /\ Return(w)
  BY <1>1, <1>3, LedgerIdle, ReturnOK
<1>4. QED
  BY <1>2, <1>3 DEF RenewLease

\* complete_invocation_success or complete_lease
LEMMA CompleteOK ==
    ASSUME WorkerInv, NEW w \in Workers, Complete(w)
    PROVE  WorkerInv'
<1> DEFINE l == worker[w].lease
           o == worker[w].outcome
           x == ledger[l.run]
           y == ledger'[l.run]
<1>1. worker[w].pc # "idle" /\ UNCHANGED <<calls, answers>>
  BY DEF Complete, At
<1>2. l \in leases /\ LedgerInv /\ o \in Outcomes \cup {NoOutcome}
  BY <1>1, WorkerFacts DEF WorkerInv
<1>3. Reported(o.status, o.code, answers[l.run])
  BY <1>1 DEF WorkerInv, AnswersRecorded
<1>4. CASE CompleteLease(l, o.status, o.code) /\ Return(w)
  <2>1. /\ ValidWorkerCompletion(x, o.status, o.code)
        /\ y.status = o.status /\ y.safeErrorCode = o.code
    BY <1>2, <1>4, HolderSteps
  <2>2. o.status \in TerminalStatuses /\ o.code \in RunFailureCodes \cup {NoCode}
    BY <2>1 DEF ValidWorkerCompletion, TerminalStatuses, RunFailureCodes
  <2>3. LeaseStep(l)
    BY <1>4, <2>2 DEF LeaseStep
  <2>4. /\ \A q \in Runs \ {l.run} : ledger'[q] = ledger[q]
        /\ leases' = leases
    BY <1>2, <2>3, HolderSteps
  <2>5. [Next]_vars
    BY <1>2, <2>3 DEF Next
  <2>6. \A r \in Runs : \/ Unanswered(ledger[r], ledger'[r])
                        \/ Reported(ledger'[r].status, ledger'[r].safeErrorCode, answers[r])
    BY <1>3, <2>1, <2>4 DEF Unanswered
  <2>7. Turn(w) /\ worker' = [worker EXCEPT ![w] = Idle]
    BY <1>4, ReturnTurn
  <2>8. QED
    BY <1>1, <2>4, <2>5, <2>6, <2>7, WorkerTurnOK
<1>5. CASE CompleteLate(l) /\ Return(w)
  <2>1. Settling(x, y) /\ LeaseStep(l)
    BY <1>2, <1>5, HolderSteps DEF LeaseStep
  <2>2. /\ \A q \in Runs \ {l.run} : ledger'[q] = ledger[q]
        /\ leases' = leases
    BY <1>2, <2>1, HolderSteps
  <2>3. [Next]_vars
    BY <1>2, <2>1 DEF Next
  <2>4. Unanswered(x, y)
    BY <2>1, PassiveUnanswered DEF Passive
  <2>5. \A r \in Runs : Unanswered(ledger[r], ledger'[r])
    BY <2>2, <2>4 DEF Unanswered
  <2>6. QED
    BY <1>1, <1>5, <2>2, <2>3, <2>5, ReturnOK
<1>6. CASE o.status = "succeeded" /\ Report(w, "failed", "invalid_tool_result") /\ UNCHANGED vars
  <2>1. [status |-> "failed", code |-> "invalid_tool_result"] \in Outcomes
    BY DEF Outcomes, ToolFailureCodes
  <2>2. Reported("failed", "invalid_tool_result", answers[l.run])
    BY <1>3, <1>6 DEF Reported
  <2>3. Turn(w)
    BY <1>1, <1>6, <2>1, <2>2, ReportTurn, LedgerIdle
  <2>4. QED
    BY <1>1, <1>6, <2>3, WorkerMoves, WorkerTurnOK, LedgerIdle
<1>7. CASE UNCHANGED vars /\ Return(w)
  BY <1>1, <1>7, LedgerIdle, ReturnOK
<1>8. QED
  BY <1>4, <1>5, <1>6, <1>7 DEF Complete

\* The death of a worker.
LEMMA CrashOK ==
    ASSUME WorkerInv, NEW w \in Workers, Crash(w)
    PROVE  WorkerInv'
BY LedgerIdle, ReturnOK DEF Crash

\* Users, operators, cleanup, the registry and the clock.
LEMMA EnvironmentOK ==
    ASSUME WorkerInv, [Next]_vars, leases' = leases, UNCHANGED workerVars,
           \A r \in Runs : Unanswered(ledger[r], ledger'[r])
    PROVE  WorkerInv'
<1>1. LedgerInv'
  BY NextOK DEF WorkerInv
<1>2. LeaseEpochs' /\ DeadlinesFixed'
  BY <1>1, LeasesKept
<1>3. \A r \in Runs : Reported(ledger'[r].status, ledger'[r].safeErrorCode, answers[r])
  BY DEF Unanswered, Reported, Answered, WorkerInv, AnswersRecorded
<1>4. UNCHANGED <<calls, answers>> /\ worker' = worker
      /\ worker' = [v \in Workers |-> worker'[v]]
  BY WorkerFacts DEF workerVars
<1>5. QED
  BY <1>1, <1>2, <1>3, <1>4, TurnOK

\* The parts of the invariant that neither calls nor answers touch.
LEMMA LedgerStays ==
    ASSUME WorkerInv, UNCHANGED vars
    PROVE  LedgerInv' /\ LeaseEpochs' /\ DeadlinesFixed'
<1>1. LedgerInv'
  BY LedgerIdle, NextOK DEF WorkerInv
<1>2. QED
  BY <1>1, LedgerIdle, LeasesKept

\* A call leaves: the worker that dispatches is the only one to do so for its run.
LEMMA CallLeavesOK ==
    ASSUME WorkerInv, NEW w \in Workers, worker[w].pc = "dispatching",
           calls' = [calls EXCEPT ![worker[w].lease.run] = @ + 1], Go(w, "waiting"),
           UNCHANGED vars, UNCHANGED answers
    PROVE  WorkerInv'
<1> DEFINE l == worker[w].lease
           r == worker[w].lease.run
<1>1. LedgerInv' /\ LeaseEpochs' /\ DeadlinesFixed' /\ ledger' = ledger /\ leases' = leases
  BY LedgerStays DEF vars
<1>2. /\ l \in leases /\ r \in Runs /\ l.worker = w
      /\ worker[w].outcome \in Outcomes \cup {NoOutcome}
      /\ calls \in [Runs -> Nat] /\ NoLease \notin leases
  BY WorkerFacts
<1>3. /\ worker' = [v \in Workers |-> worker'[v]]
      /\ worker'[w] = [pc |-> "waiting", lease |-> l, outcome |-> worker[w].outcome]
      /\ \A v \in Workers : v # w => worker'[v] = worker[v]
  <2>1. worker' = [worker EXCEPT ![w] =
                    [pc |-> "waiting", lease |-> l, outcome |-> worker[w].outcome]]
    BY WorkerMoves
  <2>2. QED
    BY <2>1, OneWorker
<1>4. /\ calls[r] = 0 /\ calls'[r] = 1 /\ answers[r] = NoAnswer /\ PastFence(ledger[r])
      /\ \A q \in Runs : q # r => calls'[q] = calls[q]
      /\ calls' \in [Runs -> Nat]
  <2>1. calls[r] = 0 /\ answers[r] = NoAnswer /\ PastFence(ledger[r])
    BY DEF WorkerInv, CallsFollow, Sending
  <2>2. QED
    BY <1>2, <2>1
<1>5. \A v \in Workers : v # w /\ worker[v].pc \in {"dispatching", "waiting"} =>
        worker[v].lease.run # r
  BY DEF WorkerInv, AtMostOneCall
<1>6. /\ \A v \in Workers : worker'[v].lease = worker[v].lease
      /\ \A v \in Workers : worker'[v].pc = worker[v].pc \/ (v = w /\ worker'[v].pc = "waiting")
  BY <1>3
<1>7. WorkerTypeOK' /\ OwnLease'
  <2>1. WorkerTypeOK /\ OwnLease
    BY DEF WorkerInv, AtMostOneCall
  <2>2. worker' \in [Workers -> [pc : WorkerPcs, lease : leases \cup {NoLease},
                                 outcome : Outcomes \cup {NoOutcome}]]
    BY <1>2, <1>3, <2>1, WorkerFacts DEF WorkerPcs
  <2>3. \A v \in Workers : worker'[v].pc = "idle" <=> worker'[v].lease = NoLease
    BY <1>2, <1>3, <2>1 DEF WorkerTypeOK
  <2>4. \A v \in Workers : worker'[v].pc # "idle" => worker'[v].lease.worker = v
    BY <1>2, <1>3, <2>1 DEF OwnLease
  <2>5. answers \in [Runs -> {NoAnswer, "succeeded"} \cup ToolFailureCodes]
    BY <2>1 DEF WorkerTypeOK
  <2>6. QED
    BY <1>1, <1>4, <2>2, <2>3, <2>4, <2>5 DEF WorkerTypeOK, OwnLease, WorkerPcs
<1>8. AtMostOneCall'
  <2>1. \A q \in Runs : calls'[q] <= 1
    BY <1>4 DEF WorkerInv, AtMostOneCall
  <2>2. ASSUME NEW u \in Workers, NEW v \in Workers,
               worker'[u].pc \in {"dispatching", "waiting"},
               worker'[v].pc \in {"session", "dispatching", "waiting"},
               worker'[u].lease.run = worker'[v].lease.run
        PROVE  u = v \/ (worker'[v].pc = "session"
                         /\ worker'[v].lease.leaseEpoch < worker'[u].lease.leaseEpoch)
    <3>1. /\ worker[u].pc \in {"dispatching", "waiting"}
          /\ worker[v].pc \in {"session", "dispatching", "waiting"}
          /\ worker[u].lease.run = worker[v].lease.run
      BY <1>6, <2>2
    <3>2. u = v \/ (worker[v].pc = "session"
                    /\ worker[v].lease.leaseEpoch < worker[u].lease.leaseEpoch)
      BY <3>1 DEF WorkerInv, AtMostOneCall
    <3>3. QED
      BY <1>6, <3>2
  <2>3. QED
    BY <1>7, <2>1, <2>2 DEF AtMostOneCall
<1>9. CallsFollow'
  <2>1. \A q \in Runs : /\ calls'[q] # 0 => PastFence(ledger[q])
                        /\ answers[q] # NoAnswer => calls'[q] # 0
    BY <1>4 DEF WorkerInv, CallsFollow
  <2>2. ASSUME NEW v \in Workers, worker'[v].pc \in {"dispatching", "waiting"}
        PROVE  /\ PastFence(ledger[worker'[v].lease.run])
               /\ answers[worker'[v].lease.run] = NoAnswer
               /\ worker'[v].pc = "dispatching" => calls'[worker'[v].lease.run] = 0
               /\ worker'[v].pc = "waiting" => calls'[worker'[v].lease.run] # 0
    <3>1. CASE v = w
      BY <1>3, <1>4, <3>1
    <3>2. CASE v # w
      <4>1. worker[v].lease.run # r /\ worker[v].lease.run \in Runs
        BY <1>3, <1>5, <2>2, <3>2, WorkerFacts
      <4>2. QED
        BY <1>3, <1>4, <2>2, <3>2, <4>1 DEF WorkerInv, CallsFollow, Sending
    <3>3. QED
      BY <3>1, <3>2
  <2>3. QED
    BY <1>1, <2>1, <2>2 DEF CallsFollow, Sending
<1>10. AnswersRecorded'
  <2>1. \A v \in Workers : worker'[v].pc # "idle" =>
           worker[v].pc # "idle" /\ worker'[v].outcome = worker[v].outcome
    BY <1>3
  <2>2. QED
    BY <1>1, <1>6, <2>1 DEF WorkerInv, AnswersRecorded
<1>11. QED
  BY <1>1, <1>7, <1>8, <1>9, <1>10 DEF WorkerInv

\* session.call_tool
LEMMA CallToolOK ==
    ASSUME WorkerInv, NEW w \in Workers, CallTool(w)
    PROVE  WorkerInv'
<1>1. worker[w].pc = "dispatching" /\ UNCHANGED vars /\ UNCHANGED answers
  BY DEF CallTool, At
<1>2. CASE calls' = [calls EXCEPT ![worker[w].lease.run] = @ + 1] /\ Go(w, "waiting")
  BY <1>1, <1>2, CallLeavesOK
<1>3. CASE Report(w, "indeterminate", "upstream_outcome_unknown") /\ UNCHANGED calls
  <2>1. Turn(w)
    BY <1>1, <1>3, ReportTurn, UnknownOutcome, LedgerIdle
  <2>2. QED
    BY <1>1, <1>3, <2>1, WorkerMoves, WorkerTurnOK, LedgerIdle
<1>4. QED
  BY <1>2, <1>3 DEF CallTool

\* An answer arrives, at the only worker that waits for one of its run.
LEMMA AnswerArrivesOK ==
    ASSUME WorkerInv, NEW w \in Workers, worker[w].pc = "waiting",
           NEW a \in {"succeeded"} \cup ToolFailureCodes, NEW s, NEW code,
           answers' = [answers EXCEPT ![worker[w].lease.run] = a],
           [status |-> s, code |-> code] \in Outcomes, Reported(s, code, a),
           Report(w, s, code), UNCHANGED vars, UNCHANGED calls
    PROVE  WorkerInv'
<1> DEFINE l == worker[w].lease
           r == worker[w].lease.run
<1>1. LedgerInv' /\ LeaseEpochs' /\ DeadlinesFixed' /\ ledger' = ledger /\ leases' = leases
  BY LedgerStays DEF vars
<1>2. /\ l \in leases /\ r \in Runs /\ l.worker = w
      /\ answers \in [Runs -> {NoAnswer, "succeeded"} \cup ToolFailureCodes]
      /\ NoLease \notin leases
  BY WorkerFacts
<1>3. /\ worker' = [v \in Workers |-> worker'[v]]
      /\ worker'[w] = [pc |-> "renewing", lease |-> l, outcome |-> [status |-> s, code |-> code]]
      /\ \A v \in Workers : v # w => worker'[v] = worker[v]
  <2>1. worker' = [worker EXCEPT ![w] = [pc |-> "renewing", lease |-> l,
                                         outcome |-> [status |-> s, code |-> code]]]
    BY WorkerMoves
  <2>2. QED
    BY <2>1, OneWorker
<1>4. /\ calls[r] # 0 /\ answers[r] = NoAnswer /\ answers'[r] = a
      /\ \A q \in Runs : q # r => answers'[q] = answers[q]
      /\ answers' \in [Runs -> {NoAnswer, "succeeded"} \cup ToolFailureCodes]
  <2>1. calls[r] # 0 /\ answers[r] = NoAnswer
    BY DEF WorkerInv, CallsFollow, Sending
  <2>2. QED
    BY <1>2, <2>1
<1>5. \A v \in Workers : v # w /\ worker[v].pc \in {"dispatching", "waiting"} =>
        worker[v].lease.run # r
  BY DEF WorkerInv, AtMostOneCall
<1>6. WorkerTypeOK' /\ OwnLease'
  <2>1. WorkerTypeOK /\ OwnLease
    BY DEF WorkerInv, AtMostOneCall
  <2>2. worker' \in [Workers -> [pc : WorkerPcs, lease : leases \cup {NoLease},
                                 outcome : Outcomes \cup {NoOutcome}]]
    BY <1>2, <1>3, <2>1, WorkerFacts DEF WorkerPcs
  <2>3. \A v \in Workers : worker'[v].pc = "idle" <=> worker'[v].lease = NoLease
    BY <1>2, <1>3, <2>1 DEF WorkerTypeOK
  <2>4. \A v \in Workers : worker'[v].pc # "idle" => worker'[v].lease.worker = v
    BY <1>2, <1>3, <2>1 DEF OwnLease
  <2>5. calls \in [Runs -> Nat]
    BY <2>1 DEF WorkerTypeOK
  <2>6. QED
    BY <1>1, <1>4, <2>2, <2>3, <2>4, <2>5 DEF WorkerTypeOK, OwnLease, WorkerPcs
<1>7. AtMostOneCall'
  <2>1. \A v \in Workers : worker'[v].pc # "renewing" => worker'[v] = worker[v]
    BY <1>3
  <2>2. \A q \in Runs : calls'[q] <= 1
    BY DEF WorkerInv, AtMostOneCall
  <2>3. QED
    BY <1>6, <2>1, <2>2 DEF WorkerInv, AtMostOneCall
<1>8. CallsFollow'
  <2>1. \A q \in Runs : /\ calls[q] # 0 => PastFence(ledger[q])
                        /\ answers'[q] # NoAnswer => calls[q] # 0
    BY <1>4 DEF WorkerInv, CallsFollow
  <2>2. ASSUME NEW v \in Workers, worker'[v].pc \in {"dispatching", "waiting"}
        PROVE  /\ PastFence(ledger[worker'[v].lease.run])
               /\ answers'[worker'[v].lease.run] = NoAnswer
               /\ worker'[v].pc = "dispatching" => calls[worker'[v].lease.run] = 0
               /\ worker'[v].pc = "waiting" => calls[worker'[v].lease.run] # 0
    <3>1. v # w /\ worker'[v] = worker[v]
      BY <1>3, <2>2
    <3>2. worker[v].lease.run # r /\ worker[v].lease.run \in Runs
      BY <1>5, <2>2, <3>1, WorkerFacts
    <3>3. QED
      BY <1>4, <2>2, <3>1, <3>2 DEF WorkerInv, CallsFollow, Sending
  <2>3. QED
    BY <1>1, <2>1, <2>2 DEF CallsFollow, Sending
<1>9. AnswersRecorded'
  <2>1. ASSUME NEW v \in Workers, worker'[v].pc # "idle"
        PROVE  Reported(worker'[v].outcome.status, worker'[v].outcome.code,
                        answers'[worker'[v].lease.run])
    <3>1. CASE v = w
      BY <1>3, <1>4, <3>1
    <3>2. CASE v # w
      <4>1. /\ worker'[v] = worker[v] /\ worker[v].lease.run \in Runs
            /\ Reported(worker[v].outcome.status, worker[v].outcome.code,
                        answers[worker[v].lease.run])
        BY <1>3, <2>1, <3>2, WorkerFacts DEF WorkerInv, AnswersRecorded
      <4>2. CASE worker[v].lease.run = r
        BY <1>4, <4>1, <4>2 DEF Reported, NoAnswer, ToolFailureCodes
      <4>3. CASE worker[v].lease.run # r
        BY <1>4, <4>1, <4>3
      <4>4. QED
        BY <4>2, <4>3
    <3>3. QED
      BY <3>1, <3>2
  <2>2. ASSUME NEW q \in Runs
        PROVE  Reported(ledger[q].status, ledger[q].safeErrorCode, answers'[q])
    <3>1. Reported(ledger[q].status, ledger[q].safeErrorCode, answers[q])
      BY DEF WorkerInv, AnswersRecorded
    <3>2. QED
      BY <1>4, <3>1 DEF Reported, NoAnswer, ToolFailureCodes
  <2>3. QED
    BY <1>1, <2>1, <2>2 DEF AnswersRecorded
<1>10. QED
  BY <1>1, <1>6, <1>7, <1>8, <1>9 DEF WorkerInv

\* The response, or none before the timeout.
LEMMA ReceiveAnswerOK ==
    ASSUME WorkerInv, NEW w \in Workers, ReceiveAnswer(w)
    PROVE  WorkerInv'
<1>1. worker[w].pc = "waiting" /\ UNCHANGED vars /\ UNCHANGED calls
  BY DEF ReceiveAnswer, At
<1>2. CASE /\ answers' = [answers EXCEPT ![worker[w].lease.run] = "succeeded"]
           /\ Report(w, "succeeded", NoCode)
  <2>1. [status |-> "succeeded", code |-> NoCode] \in Outcomes
        /\ Reported("succeeded", NoCode, "succeeded")
    BY DEF Outcomes, Reported
  <2>2. QED
    BY <1>1, <1>2, <2>1, AnswerArrivesOK
<1>3. ASSUME NEW code \in ToolFailureCodes,
             answers' = [answers EXCEPT ![worker[w].lease.run] = code],
             Report(w, "failed", code)
      PROVE  WorkerInv'
  <2>1. [status |-> "failed", code |-> code] \in Outcomes /\ Reported("failed", code, code)
    BY DEF Outcomes, Reported
  <2>2. QED
    BY <1>1, <1>3, <2>1, AnswerArrivesOK
<1>4. CASE Report(w, "indeterminate", "upstream_outcome_unknown") /\ UNCHANGED answers
  <2>1. Turn(w)
    BY <1>1, <1>4, ReportTurn, UnknownOutcome, LedgerIdle
  <2>2. QED
    BY <1>1, <1>4, <2>1, WorkerMoves, WorkerTurnOK, LedgerIdle
<1>5. QED
  BY <1>2, <1>3, <1>4 DEF ReceiveAnswer

\* What EnvironmentStep does to the ledger.
LEMMA EnvironmentSteps ==
    ASSUME LedgerInv, EnvironmentStep
    PROVE  /\ [Next]_vars /\ leases' = leases
           /\ \A r \in Runs : Unanswered(ledger[r], ledger'[r])
<1>1. ASSUME NEW s \in Runs, NEW d \in 1 .. MaxClock + MaxRunTime, CreateRun(s, d)
      PROVE  leases' = leases /\ \A r \in Runs : Unanswered(ledger[r], ledger'[r])
  <2>1. /\ ledger' = [ledger EXCEPT ![s] = AdmittedRow(d)] /\ ledger \in [Runs -> Rows]
        /\ leases' = leases
    BY <1>1, RowFacts DEF CreateRun
  <2>2. AdmittedRow(d).status = "queued"
    BY DEF AdmittedRow, NoRow
  <2>3. QED
    BY <2>1, <2>2 DEF Unanswered, Answered
<1>2. ASSUME \/ \E r \in Runs : CancelRun(r)
             \/ RestoreStep \/ MaintenanceStep \/ TargetStep \/ Tick
      PROVE  leases' = leases /\ \A r \in Runs : Unanswered(ledger[r], ledger'[r])
  <2>1. \A r \in Runs : Unanswered(ledger[r], ledger'[r])
    BY <1>2, PassiveSteps, PassiveUnanswered
  <2>2. leases' = leases
    BY <1>2 DEF CancelRun, RestoreStep, EnterRestoreQuarantine, ReconcileRestoreQuarantine,
                ClearRestoreQuarantine, MaintenanceStep, ExpireRetainedContent,
                ExpireRetainedResults, DeleteExpiredRunMetadata, TargetStep, Tick
  <2>3. QED
    BY <2>1, <2>2
<1>3. [Next]_vars
  BY DEF EnvironmentStep, Next
<1>4. QED
  BY <1>1, <1>2, <1>3 DEF EnvironmentStep

\* Every step of the system keeps the invariant.
LEMMA WorkerNextOK ==
    ASSUME WorkerInv, [WorkerNext]_allVars
    PROVE  WorkerInv'
<1>1. ASSUME NEW w \in Workers, InvocationStep(w) \/ Crash(w)
      PROVE  WorkerInv'
  BY <1>1, LoadTargetOK, FenceSessionStepOK, SessionFailsOK, FenceDispatchStepOK, CallToolOK,
     ReceiveAnswerOK, RenewLeaseOK, CompleteOK, CrashOK DEF InvocationStep
<1>2. CASE EnvironmentStep
  <2>1. UNCHANGED workerVars /\ LedgerInv
    BY <1>2 DEF EnvironmentStep, WorkerInv
  <2>2. QED
    BY <1>2, <2>1, EnvironmentSteps, EnvironmentOK
<1>3. CASE UNCHANGED allVars
  <2>1. UNCHANGED vars /\ UNCHANGED workerVars
    BY <1>3 DEF allVars
  <2>2. QED
    BY <2>1, LedgerIdle, EnvironmentOK
<1>4. QED
  BY <1>1, <1>2, <1>3, PollOK DEF WorkerNext

\* The initial state satisfies the invariant.
LEMMA WorkerInitOK == WorkerInit => WorkerInv
<1> SUFFICES ASSUME WorkerInit PROVE WorkerInv
  OBVIOUS
<1>1. LedgerInv
  BY InitOK DEF WorkerInit
<1>2. /\ leases = {} /\ worker = [w \in Workers |-> Idle]
      /\ calls = [r \in Runs |-> 0] /\ answers = [r \in Runs |-> NoAnswer]
      /\ ledger = [r \in Runs |-> NoRow("absent")]
  BY DEF WorkerInit, Init
<1>3. /\ Idle.pc = "idle" /\ Idle.lease = NoLease
      /\ Idle \in [pc : WorkerPcs, lease : leases \cup {NoLease},
                   outcome : Outcomes \cup {NoOutcome}]
  BY DEF Idle, WorkerPcs
<1>4. WorkerTypeOK
  BY <1>2, <1>3 DEF WorkerTypeOK, WorkerPcs
<1>5. NoRow("absent").status = "absent"
  BY DEF NoRow
<1>6. AtMostOneCall
  BY <1>2, <1>3, <1>4 DEF AtMostOneCall
<1>7. LeaseEpochs /\ OwnLease
  BY <1>2, <1>3 DEF LeaseEpochs, OwnLease
<1>8. CallsFollow
  BY <1>2, <1>3 DEF CallsFollow, Sending
<1>9. AnswersRecorded
  BY <1>2, <1>3, <1>5 DEF AnswersRecorded, Reported
<1>10. DeadlinesFixed
  BY <1>2, <1>5 DEF DeadlinesFixed, Active, ActiveStatuses, UndispatchedStatuses
<1>11. QED
  BY <1>1, <1>6, <1>7, <1>8, <1>9, <1>10 DEF WorkerInv

\* The steps of a worker are steps of the ledger, under a lease that claim_job gave.
LEMMA WorkerStepIsLedgerStep ==
    ASSUME WorkerInv, [WorkerNext]_allVars
    PROVE  [Next]_vars
<1>1. ASSUME NEW w \in Workers, NEW t \in ClockReads, NEW skipped \in SUBSET Runs,
             Poll(w, t, skipped)
      PROVE  Next
  BY <1>1 DEF Poll, Next
<1>2. CASE EnvironmentStep
  BY <1>2, EnvironmentSteps DEF WorkerInv
<1>3. ASSUME NEW w \in Workers, InvocationStep(w) \/ Crash(w)
      PROVE  [Next]_vars
  <2> DEFINE l == worker[w].lease
  <2>1. worker[w].pc # "idle"
    BY <1>3 DEF InvocationStep, Crash, At, LoadTarget, FenceSessionStep, SessionFails,
                FenceDispatchStep, CallTool, ReceiveAnswer, RenewLease, Complete
  <2>2. l \in leases
    BY <2>1, WorkerFacts
  <2>3. ASSUME LeaseStep(l) PROVE Next
    BY <2>2, <2>3 DEF Next
  <2>4. ASSUME NEW s, NEW code, CompleteLease(l, s, code) PROVE LeaseStep(l)
    <3>1. ValidWorkerCompletion(ledger[l.run], s, code)
      BY <2>4 DEF CompleteLease, CompletionAccepted
    <3>2. s \in TerminalStatuses /\ code \in RunFailureCodes \cup {NoCode}
      BY <3>1 DEF ValidWorkerCompletion, TerminalStatuses, RunFailureCodes
    <3>3. QED
      BY <2>4, <3>2 DEF LeaseStep
  <2>5. \/ UNCHANGED vars
        \/ FenceSession(l, TRUE) \/ FenceDispatch(l) \/ Heartbeat(l) \/ CompleteLate(l)
        \/ CompleteLease(l, worker[w].outcome.status, worker[w].outcome.code)
    BY <1>3 DEF InvocationStep, Crash, LoadTarget, FenceSessionStep, SessionFails,
                FenceDispatchStep, CallTool, ReceiveAnswer, RenewLease, Complete
  <2> HIDE DEF l
  <2>6. QED
    BY <2>3, <2>4, <2>5 DEF LeaseStep
<1>4. CASE UNCHANGED allVars
  BY <1>4 DEF allVars
<1>5. QED
  BY <1>1, <1>2, <1>3, <1>4 DEF WorkerNext
-----------------------------------------------------------------------------
\* The worker invariant holds always.
THEOREM WorkerInvariant == WorkerSpec => []WorkerInv
<1>1. WorkerInit => WorkerInv
  BY WorkerInitOK
<1>2. WorkerInv /\ [WorkerNext]_allVars => WorkerInv'
  BY WorkerNextOK
<1>3. QED
  BY <1>1, <1>2, PTL DEF WorkerSpec

\* The worker program uses the ledger only through the ledger's operations, under the
\* leases claim_job gave it, so everything proved of the ledger holds with it.
THEOREM WorkerUsesLedger == WorkerSpec => Spec
<1>1. WorkerInit => Init
  BY DEF WorkerInit
<1>2. WorkerInv /\ [WorkerNext]_allVars => [Next]_vars
  BY WorkerStepIsLedgerStep
<1>3. QED
  BY <1>1, <1>2, WorkerInvariant, PTL DEF WorkerSpec, Spec

\* However workers, crashes, lost leases, restores and users interleave, a run's tool
\* call leaves at most once (fence_dispatch's "one permitted tool call").
THEOREM OneCall == WorkerSpec => []AtMostOneCall
<1>1. WorkerInv => AtMostOneCall
  BY DEF WorkerInv
<1>2. QED
  BY <1>1, WorkerInvariant, PTL

\* What the ledger says of a settled run is what happened at the upstream server: no
\* worker, however late, records an answer that was not received, and no run that was
\* cancelled, timed out or failed before dispatch was or will be sent.
THEOREM Truthful == WorkerSpec => []LedgerTellsTheTruth
<1>1. WorkerInv => LedgerTellsTheTruth
  <2> SUFFICES ASSUME WorkerInv, NEW r \in Runs
               PROVE  LET x == ledger[r] IN
                      /\ x.status = "succeeded" => answers[r] = "succeeded"
                      /\ x.status = "failed" /\ x.safeErrorCode \in ToolFailureCodes =>
                           \/ answers[r] = x.safeErrorCode
                           \/ answers[r] = "succeeded" /\ x.safeErrorCode = "invalid_tool_result"
                      /\ \/ x.status \in {"cancelled", "timed_out"}
                         \/ x.status = "failed" /\ x.safeErrorCode \notin ToolFailureCodes
                         => /\ calls[r] = 0
                            /\ \A w \in Workers :
                                 worker[w].lease # NoLease /\ worker[w].lease.run = r =>
                                     worker[w].pc \notin {"dispatching", "waiting"}
    BY DEF LedgerTellsTheTruth
  <2>1. Reported(ledger[r].status, ledger[r].safeErrorCode, answers[r])
    BY DEF WorkerInv, AnswersRecorded
  <2>2. ASSUME ~PastFence(ledger[r])
        PROVE  /\ calls[r] = 0
               /\ \A w \in Workers : worker[w].lease.run = r =>
                    worker[w].pc \notin {"dispatching", "waiting"}
    BY <2>2 DEF WorkerInv, CallsFollow, Sending
  <2>3. QED
    BY <2>1, <2>2 DEF Reported, PastFence
<1>2. QED
  BY <1>1, WorkerInvariant, PTL

\* A tool call leaves only for a run whose history shows the dispatch fence.
THEOREM FencedCall == WorkerSpec => CallFollowsFence
<1>1. ASSUME WorkerInv, [WorkerNext]_allVars
      PROVE  [\A r \in Runs : calls'[r] # calls[r] =>
                 Dispatches(ledger[r]) # {} \/ ledger[r].status = "deleted"]_allVars
  <2>1. ASSUME NEW w \in Workers, CallTool(w), NEW r \in Runs, calls'[r] # calls[r]
        PROVE  PastFence(ledger[r])
    <3>1. worker[w].lease.run = r /\ worker[w].pc = "dispatching"
      BY <1>1, <2>1, WorkerFacts DEF CallTool, At
    <3>2. QED
      BY <1>1, <3>1 DEF WorkerInv, CallsFollow, Sending
  <2>2. ASSUME NEW r \in Runs, PastFence(ledger[r])
        PROVE  Dispatches(ledger[r]) # {} \/ ledger[r].status = "deleted"
    <3>1. RowHonest(ledger[r])
      BY <1>1 DEF WorkerInv, LedgerInv, RowOK
    <3>2. QED
      BY <2>2, <3>1 DEF PastFence, RowHonest
  <2>3. \/ UNCHANGED allVars \/ UNCHANGED calls
        \/ \E w \in Workers : CallTool(w)
    BY <1>1 DEF WorkerNext, Poll, InvocationStep, Crash, LoadTarget, FenceSessionStep,
                SessionFails, FenceDispatchStep, ReceiveAnswer, RenewLease, Complete,
                EnvironmentStep, workerVars
  <2>4. QED
    BY <2>1, <2>2, <2>3
<1>2. QED
  BY <1>1, WorkerInvariant, PTL DEF WorkerSpec, CallFollowsFence

\* A step of a worker takes it elsewhere.
LEMMA WorkerLeaves ==
    ASSUME WorkerInv, NEW w \in Workers, InvocationStep(w) \/ Crash(w)
    PROVE  worker'[w].pc # worker[w].pc
<1>1. ASSUME NEW pc, Go(w, pc) PROVE worker'[w].pc = pc
  BY <1>1, WorkerFacts DEF Go
<1>2. ASSUME NEW s, NEW code, Report(w, s, code) PROVE worker'[w].pc = "renewing"
  BY <1>2, WorkerFacts DEF Report
<1>3. ASSUME Return(w) PROVE worker'[w].pc = "idle"
  BY <1>3, WorkerFacts DEF Return, Idle
<1>4. CASE LoadTarget(w) \/ FenceSessionStep(w) \/ SessionFails(w) \/ FenceDispatchStep(w)
  BY <1>1, <1>2, <1>3, <1>4
     DEF LoadTarget, FenceSessionStep, SessionFails, FenceDispatchStep, At
<1>5. CASE CallTool(w) \/ ReceiveAnswer(w)
  BY <1>1, <1>2, <1>5 DEF CallTool, ReceiveAnswer, At
<1>6. CASE RenewLease(w) \/ Complete(w) \/ Crash(w)
  BY <1>1, <1>2, <1>3, <1>6 DEF RenewLease, Complete, Crash, At
<1>7. QED
  BY <1>4, <1>5, <1>6 DEF InvocationStep

\* A poll gives up a dispatched run with a live lease only at a clock read at which the
\* lease that was renewed had run out.
GivenUp(x, y) ==
    y.safeErrorCode = "worker_lost_after_dispatch" /\ y.terminalAt \in x.staleReads

\* A dispatched run with a live lease is left alone by polls that see its lease.
LEMMA PollWaits ==
    ASSUME LedgerInv, NEW r \in Runs, ledger[r].status = "dispatch_fenced",
           now < ledger[r].leaseExpiresAt, now < ledger[r].deadline,
           NEW v \in Workers, NEW t \in ClockReads, NEW skipped \in SUBSET Runs,
           ClaimJob(v, t, skipped)
    PROVE  ledger'[r] = ledger[r] \/ GivenUp(ledger[r], ledger'[r])
<1>1. t \in Nat /\ t <= now /\ now \in Nat /\ ledger[r] \in Rows
  BY RowFacts DEF ClockReads
<1>2. ledger[r].leaseExpiresAt \in Nat /\ ledger[r].deadline \in Nat
  BY RowFacts DEF Rows
<1>3. /\ r \notin Overdue(t) /\ r \notin Claimable(t)
      /\ r \in Abandoned(t) => t \in ledger[r].staleReads
  BY <1>1, <1>2 DEF Overdue, Abandoned, Claimable, UndispatchedStatuses, SettledUnseen, Lapsed
<1>4. ASSUME NEW expired \in Batches(Overdue(t) \ skipped, [q \in Runs |-> ledger[q].deadline]),
             NEW abandoned \in Batches((Abandoned(t) \ expired) \ skipped,
                                       [q \in Runs |-> ledger[q].leaseExpiresAt])
      PROVE  \/ Reconciled(r, t, expired, abandoned) = ledger[r]
             \/ GivenUp(ledger[r], Reconciled(r, t, expired, abandoned))
  <2>1. r \notin expired /\ (r \in abandoned => t \in ledger[r].staleReads)
    BY <1>3 DEF Batches
  <2>2. CASE r \notin abandoned
    BY <2>1, <2>2 DEF Reconciled
  <2>3. CASE r \in abandoned
    BY <1>1, <2>1, <2>3 DEF Reconciled, GivenUp, TerminalizeRun, Rows
  <2>4. QED
    BY <2>2, <2>3
<1>5. \A c \in Oldest(Claimable(t) \ skipped) : r # c
  BY <1>3 DEF Oldest
<1>6. QED
  BY <1>4, <1>5 DEF ClaimJob

\* So it is by users, operators, cleanup, the registry and the clock.
LEMMA EnvironmentWaits ==
    ASSUME LedgerInv, DeadlinesFixed, NEW r \in Runs, ledger[r].status = "dispatch_fenced",
           ~execution.quarantined, now < ledger[r].deadline, EnvironmentStep
    PROVE  ledger'[r].status = "dispatch_fenced"
<1>1. /\ ledger \in [Runs -> Rows] /\ ledger[r] \in Rows /\ Active(ledger[r]) /\ now \in Nat
      /\ ~Terminal(ledger[r])
  BY RowFacts DEF Active, ActiveStatuses, Terminal, TerminalStatuses
<1>2. ASSUME NEW s \in Runs, NEW d \in 1 .. MaxClock + MaxRunTime, CreateRun(s, d)
      PROVE  ledger'[r].status = "dispatch_fenced"
  BY <1>1, <1>2 DEF CreateRun
<1>3. ASSUME NEW s \in Runs, CancelRun(s) PROVE ledger'[r].status = "dispatch_fenced"
  <2>1. ledger' = [ledger EXCEPT ![s] = CancelledRow(ledger[s])]
    BY <1>3 DEF CancelRun
  <2>2. ledger[r].deadline \in Nat
    BY <1>1 DEF Rows
  <2>3. CancelledRow(ledger[r]).status = "dispatch_fenced"
    BY <1>1, <2>2 DEF CancelledRow, UndispatchedStatuses, Rows
  <2>4. QED
    BY <1>1, <2>1, <2>3
<1>4. CASE RestoreStep
  BY <1>4 DEF RestoreStep, EnterRestoreQuarantine, ClearRestoreQuarantine,
              ReconcileRestoreQuarantine
<1>5. ASSUME NEW skipped \in SUBSET Runs, ExpireRetainedContent(skipped)
      PROVE  ledger'[r].status = "dispatch_fenced"
  <2>1. ~(ledger[r].createdAt + ArgumentRetention <= now)
    <3>1. ledger[r].deadline <= ledger[r].createdAt + MaxRunTime
      BY <1>1 DEF DeadlinesFixed
    <3>2. ledger[r].deadline \in Nat /\ ledger[r].createdAt \in Nat
      BY <1>1 DEF Rows
    <3>3. QED
      BY <1>1, <3>1, <3>2, RetentionAssumption, TimesAssumption
  <2>2. QED
    BY <1>5, <2>1 DEF ExpireRetainedContent, Batches
<1>6. ASSUME NEW skipped \in SUBSET Runs, ExpireRetainedResults(skipped)
      PROVE  ledger'[r].status = "dispatch_fenced"
  BY <1>1, <1>6 DEF ExpireRetainedResults, Rows
<1>7. ASSUME NEW skipped \in SUBSET Runs, DeleteExpiredRunMetadata(skipped)
      PROVE  ledger'[r].status = "dispatch_fenced"
  <2>1. ledger[r].terminalAt = NoTime
    BY <1>1, RowFacts DEF RowOK, RowContent
  <2>2. QED
    BY <1>7, <2>1 DEF DeleteExpiredRunMetadata, Batches
<1>8. CASE TargetStep \/ Tick
  BY <1>8 DEF TargetStep, Tick
<1>9. QED
  BY <1>2, <1>3, <1>4, <1>5, <1>6, <1>7, <1>8 DEF EnvironmentStep, MaintenanceStep

\* Another worker's lease of the run is not the one that is held.
LEMMA OthersWait ==
    ASSUME WorkerInv, NEW w \in Workers, worker[w].pc # "idle", LeaseHeld(worker[w].lease),
           NEW v \in Workers, v # w, InvocationStep(v) \/ Crash(v)
    PROVE  ledger'[worker[w].lease.run] = ledger[worker[w].lease.run]
<1> DEFINE l == worker[w].lease
           m == worker[v].lease
<1>1. worker[v].pc # "idle"
  BY DEF InvocationStep, Crash, At, LoadTarget, FenceSessionStep, SessionFails,
         FenceDispatchStep, CallTool, ReceiveAnswer, RenewLease, Complete
<1>2. /\ l \in leases /\ m \in leases /\ l.worker = w /\ m.worker = v /\ LedgerInv
      /\ l.run \in Runs
  BY <1>1, WorkerFacts DEF WorkerInv
<1>3. \/ UNCHANGED vars
      \/ FenceSession(m, TRUE) \/ FenceDispatch(m) \/ Heartbeat(m) \/ CompleteLate(m)
      \/ CompleteLease(m, worker[v].outcome.status, worker[v].outcome.code)
  BY DEF InvocationStep, Crash, LoadTarget, FenceSessionStep, SessionFails,
         FenceDispatchStep, CallTool, ReceiveAnswer, RenewLease, Complete
<1>4. ASSUME NEW s, NEW code, CompleteLease(m, s, code) PROVE LeaseStep(m)
  <2>1. ValidWorkerCompletion(ledger[m.run], s, code)
    BY <1>4 DEF CompleteLease, CompletionAccepted
  <2>2. s \in TerminalStatuses /\ code \in RunFailureCodes \cup {NoCode}
    BY <2>1 DEF ValidWorkerCompletion, TerminalStatuses, RunFailureCodes
  <2>3. QED
    BY <1>4, <2>2 DEF LeaseStep
<1>5. UNCHANGED vars \/ LeaseStep(m)
  BY <1>3, <1>4 DEF LeaseStep
<1>6. ASSUME LeaseHeld(m) PROVE m.run # l.run
  BY <1>2, <1>6 DEF LeaseHeld, WorkerInv, LeaseEpochs
<1>7. ASSUME LeaseStep(m) PROVE ledger'[l.run] = ledger[l.run]
  <2>1. LeaseHeld(m) /\ \A q \in Runs \ {m.run} : ledger'[q] = ledger[q]
    BY <1>2, <1>7, HolderSteps
  <2>2. QED
    BY <1>2, <1>6, <2>1
<1>8. QED
  BY <1>5, <1>7 DEF vars

\* A dispatched run whose lease and deadline are live is ended by its own worker or by
\* a restore, never by another worker, a user or a cleanup, and by a poll only when the
\* lease ran out before its renewal committed.
THEOREM Awaited == WorkerSpec => AnswerIsAwaited
<1> DEFINE Waits(w) ==
             LET l == worker[w].lease IN
             /\ worker[w].pc \in {"dispatching", "waiting", "renewing", "completing"}
             /\ l # NoLease
             /\ LeaseUsable(l)
             /\ ledger[l.run].status = "dispatch_fenced"
             => \/ ledger'[l.run].status = "dispatch_fenced"
                \/ worker'[w] # worker[w]
                \/ /\ ledger'[l.run].safeErrorCode = "worker_lost_after_dispatch"
                   /\ ledger'[l.run].terminalAt \in ledger[l.run].staleReads
<1>1. ASSUME WorkerInv, [WorkerNext]_allVars, NEW w \in Workers
      PROVE  Waits(w) \/ UNCHANGED allVars
  <2> DEFINE l == worker[w].lease
  <2>1. SUFFICES ASSUME worker[w].pc # "idle", LeaseUsable(l),
                        ledger[l.run].status = "dispatch_fenced", worker'[w] = worker[w],
                        WorkerNext
                 PROVE  \/ ledger'[l.run].status = "dispatch_fenced"
                        \/ GivenUp(ledger[l.run], ledger'[l.run])
    BY <1>1 DEF GivenUp
  <2>2. /\ l.run \in Runs /\ LeaseHeld(l) /\ ~execution.quarantined
        /\ now < ledger[l.run].leaseExpiresAt /\ now < ledger[l.run].deadline
    BY <1>1, <2>1, WorkerFacts DEF LeaseUsable
  <2>3. ASSUME NEW v \in Workers, NEW t \in ClockReads, NEW skipped \in SUBSET Runs,
               Poll(v, t, skipped)
        PROVE  ledger'[l.run] = ledger[l.run] \/ GivenUp(ledger[l.run], ledger'[l.run])
    BY <1>1, <2>1, <2>2, <2>3, PollWaits DEF Poll, WorkerInv
  <2>4. ASSUME NEW v \in Workers, InvocationStep(v) \/ Crash(v)
        PROVE  ledger'[l.run] = ledger[l.run]
    BY <1>1, <2>1, <2>2, <2>4, WorkerLeaves, OthersWait
  <2>5. CASE EnvironmentStep
    BY <1>1, <2>1, <2>2, <2>5, EnvironmentWaits DEF WorkerInv
  <2>6. QED
    BY <2>1, <2>3, <2>4, <2>5 DEF WorkerNext
<1>2. ASSUME WorkerInv, [WorkerNext]_allVars
      PROVE  [\A w \in Workers : Waits(w)]_allVars
  BY <1>1, <1>2
<1>3. QED
  BY <1>2, WorkerInvariant, PTL DEF WorkerSpec, AnswerIsAwaited
=============================================================================
