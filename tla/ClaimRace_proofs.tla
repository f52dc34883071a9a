---------------------------- MODULE ClaimRace_proofs ----------------------------
(***************************************************************************)
(* Proofs about ClaimRace, for any number of sessions, leases and instants: *)
(* polls whose queries read stale snapshots still keep one open attempt    *)
(* per leased job, dispatch a run at most once, and implement RunLifecycle. *)
(***************************************************************************)
EXTENDS ClaimRace, SequenceTheorems, FiniteSetTheorems, TLAPS

(* The inductive invariant: the rows, then the transactions. *)

Runs == [status : {"absent"} \cup Undispatched \cup {"dispatch_fenced"} \cup Ended,
         code : Codes, terminalAt : Nat, terminalEvents : Nat]

Attempts == [status : Active \cup Ended, dispatched : BOOLEAN]

Polls == {"expired", "abandoned", "claim"}

RowsOK ==
    /\ run \in Runs
    /\ job \in Jobs
    /\ job.status = "leased" <=> job.expires > 0
    /\ attempts \in Seq(Attempts)
    /\ ActiveAttempts = IF job.status = "leased" THEN {job.epoch} ELSE {}
    /\ Len(attempts) = job.epoch
    /\ job.status = "leased" => attempts[job.epoch].status = run.status

\* The run and its job are created, queued, leased and settled together.
RunFollowsJob ==
    /\ run.status = "absent" <=> job.status = "none"
    /\ run.status = "queued" <=> job.status = "queued"
    /\ run.status \in Active <=> job.status = "leased"
    /\ run.status \in Ended => job.status = run.status

\* Only the latest attempt of a run that is past its dispatch fence was dispatched.
LatestDispatched ==
    \A i \in DOMAIN attempts :
        attempts[i].dispatched => i = job.epoch /\ run.status \in {"dispatch_fenced"} \cup Ended

\* A poll found a run that exists; a lease method holds the run's lock, so that what it
\* read when it took the lock still holds.
TransactionOK(s) ==
    LET t == txn[s] IN
    /\ t.found => t.step \in Polls /\ run.status # "absent"
    /\ t.step \in LeaseMethods <=> holder = s
    /\ holder = s => /\ job.status = "leased" /\ job.epoch = t.epoch
                     /\ t.step \in {"fence_session", "fence_dispatch"} =>
                          run.status = FenceFrom(t.step)

RaceInv ==
    /\ now \in 1 .. MaxClock
    /\ RowsOK /\ RunFollowsJob /\ LatestDispatched
    /\ holder \in Sessions \cup {NoSession}
    /\ txn \in [Sessions -> Transactions]
    /\ \A s \in Sessions : TransactionOK(s)

\* What a step may do to the run, seen as RunLifecycle sees it.
PhaseMoves(p, q) ==
    \/ q = p
    \/ p = "absent" /\ q = "waiting"
    \/ p = "waiting" /\ q \in {"dispatched", "cancelled", "timed_out", "failed_before_dispatch"}
    \/ p = "dispatched" /\ q \in {"succeeded", "failed_after_dispatch", "indeterminate"}
-----------------------------------------------------------------------------
(* Lemmas about the rows. *)

\* The steps of a transaction.
LEMMA Steps == {Queries[q] : q \in DOMAIN Queries} = Polls
BY DEF Queries, Polls

\* The attempts are a function on 1 .. job.epoch.
LEMMA RowFacts ==
    ASSUME RowsOK
    PROVE  /\ job.epoch \in Nat /\ job.expires \in Nat
           /\ DOMAIN attempts = 1 .. job.epoch
           /\ \A i \in DOMAIN attempts : attempts[i] \in Attempts
BY LenProperties, ElementOfSeq DEF RowsOK, Jobs

\* A sequence of attempts, written as a function.
LEMMA AttemptSequence ==
    ASSUME NEW n \in Nat, NEW f \in [1 .. n -> Attempts]
    PROVE  f \in Seq(Attempts) /\ Len(f) = n /\ DOMAIN f = 1 .. n
<1>1. f \in Seq(Attempts) /\ DOMAIN f = 1 .. n
  BY SeqDef
<1>2. QED
  BY <1>1, LenProperties

\* The open attempt changes its status and no other does.
LEMMA MoveAttemptOK ==
    ASSUME RowsOK, NEW s \in Active \cup Ended, MoveAttempt(s)
    PROVE  /\ attempts' \in Seq(Attempts) /\ Len(attempts') = job.epoch
           /\ DOMAIN attempts' = DOMAIN attempts
           /\ \A i \in DOMAIN attempts :
                IF i \in ActiveAttempts
                THEN /\ attempts'[i].status = s
                     /\ attempts'[i].dispatched =>
                          attempts[i].dispatched \/ s = "dispatch_fenced"
                ELSE attempts'[i] = attempts[i]
<1> DEFINE moved(i) == [status |-> s,
                        dispatched |-> attempts[i].dispatched \/ s = "dispatch_fenced"]
           f == [i \in DOMAIN attempts |-> IF i \in ActiveAttempts THEN moved(i) ELSE attempts[i]]
<1>1. /\ job.epoch \in Nat /\ DOMAIN attempts = 1 .. job.epoch
      /\ \A i \in DOMAIN attempts : attempts[i] \in Attempts
  BY RowFacts
<1>2. \A i \in DOMAIN attempts :
         /\ moved(i) \in Attempts /\ moved(i).status = s
         /\ moved(i).dispatched => attempts[i].dispatched \/ s = "dispatch_fenced"
  BY <1>1 DEF Attempts
<1>3. attempts' = f
  BY DEF MoveAttempt
<1> HIDE DEF moved
<1>4. f \in [1 .. job.epoch -> Attempts]
  BY <1>1, <1>2
<1>5. attempts' \in Seq(Attempts) /\ Len(attempts') = job.epoch /\ DOMAIN attempts' = 1 .. job.epoch
  BY <1>1, <1>3, <1>4, AttemptSequence
<1>6. QED
  BY <1>1, <1>2, <1>3, <1>5

\* What Phase shows of each status.
LEMMA PhaseOf ==
    /\ run.status = "absent" => Phase = "absent"
    /\ run.status \in Undispatched => Phase = "waiting"
    /\ run.status = "dispatch_fenced" => Phase = "dispatched"
    /\ run.status = "failed" /\ run.code = "tool_call_failed" => Phase = "failed_after_dispatch"
    /\ run.status = "failed" /\ run.code # "tool_call_failed" => Phase = "failed_before_dispatch"
    /\ run.status \in {"succeeded", "cancelled", "timed_out", "indeterminate"} =>
         Phase = run.status
BY DEF Phase, Undispatched

\* A run may be settled as s with this code: again as it was settled before, or by what
\* its dispatch fence allows.
MaySettle(s, code) ==
    \/ run.status = s /\ s # "failed"
    \/ /\ run.status \in Undispatched
       /\ s \in {"cancelled", "timed_out"} \/ (s = "failed" /\ code # "tool_call_failed")
    \/ /\ run.status = "dispatch_fenced"
       /\ s \in {"succeeded", "indeterminate"} \/ (s = "failed" /\ code = "tool_call_failed")

RowsInv == RowsOK /\ RunFollowsJob /\ LatestDispatched

\* _terminalize_run settles the run, its job and its open attempt together.
LEMMA TerminalizeOK ==
    ASSUME RowsInv, NEW s \in Ended, NEW code \in Codes, NEW at \in Nat,
           TerminalizeRun(s, code, at), MaySettle(s, code)
    PROVE  /\ RowsInv' /\ PhaseMoves(Phase, Phase')
           /\ run'.status = s /\ job'.status = s
<1>1. /\ run' = [status |-> s, code |-> code, terminalAt |-> at,
                 terminalEvents |-> run.terminalEvents + 1]
      /\ job' = [job EXCEPT !.status = s, !.expires = 0] /\ MoveAttempt(s)
  BY DEF TerminalizeRun
<1>2. run \in Runs /\ run.terminalEvents \in Nat /\ run.terminalEvents + 1 \in Nat
  BY DEF RowsInv, RowsOK, Runs
<1>3. run' \in Runs /\ run'.status = s /\ run'.code = code
  BY <1>1, <1>2 DEF Runs
<1>4. job' \in Jobs /\ job'.status = s /\ job'.expires = 0 /\ job'.epoch = job.epoch
  BY <1>1 DEF RowsInv, RowsOK, Jobs
<1>5. s \notin Active /\ s # "leased" /\ s \notin {"absent", "none", "queued"}
  BY DEF Ended, Active
<1>6. /\ attempts' \in Seq(Attempts) /\ Len(attempts') = job.epoch
      /\ DOMAIN attempts' = DOMAIN attempts
      /\ \A i \in DOMAIN attempts :
                IF i \in ActiveAttempts
                THEN /\ attempts'[i].status = s
                     /\ attempts'[i].dispatched =>
                          attempts[i].dispatched \/ s = "dispatch_fenced"
                ELSE attempts'[i] = attempts[i]
  BY <1>1, MoveAttemptOK DEF RowsInv
<1>7. ActiveAttempts' = {}
  BY <1>5, <1>6 DEF ActiveAttempts
<1>8. RowsOK'
  BY <1>3, <1>4, <1>5, <1>6, <1>7 DEF RowsOK
<1>9. RunFollowsJob'
  BY <1>3, <1>4, <1>5 DEF RunFollowsJob
<1>10. LatestDispatched'
  <2>1. s # "dispatch_fenced"
    BY DEF Ended
  <2>2. QED
    BY <1>3, <1>4, <1>6, <2>1 DEF RowsInv, LatestDispatched
<1>11. PhaseMoves(Phase, Phase')
  <2>1. /\ s = "failed" /\ code = "tool_call_failed" => Phase' = "failed_after_dispatch"
        /\ s = "failed" /\ code # "tool_call_failed" => Phase' = "failed_before_dispatch"
        /\ s \in {"succeeded", "cancelled", "timed_out", "indeterminate"} => Phase' = s
    BY <1>3 DEF Phase, Undispatched
  <2>2. QED
    BY <2>1, PhaseOf DEF MaySettle, PhaseMoves, Ended
<1>12. QED
  BY <1>3, <1>4, <1>8, <1>9, <1>10, <1>11 DEF RowsInv
-----------------------------------------------------------------------------
(* Lemmas about the transactions. *)

\* Session s has transaction t now, and the others what they had.
Replaced(s, t) == txn' = [txn EXCEPT ![s] = t]

\* t, as the transaction of session s, fits the rows and the lock of the next state.
Fits(s, t) ==
    /\ t \in Transactions
    /\ t.found => t.step \in Polls /\ run'.status # "absent"
    /\ t.step \in LeaseMethods <=> holder' = s
    /\ holder' = s => /\ job'.status = "leased" /\ job'.epoch = t.epoch
                      /\ t.step \in {"fence_session", "fence_dispatch"} =>
                           run'.status = FenceFrom(t.step)

\* A step of session s leaves the other sessions' transactions as good as they were,
\* unless it changes rows that one of them has locked.
LEMMA OneTransaction ==
    ASSUME RaceInv, NEW s \in Sessions, NEW t, Replaced(s, t), Fits(s, t),
           run'.status # "absent" \/ UNCHANGED run,
           \A u \in Sessions : u # s => (holder' = u <=> holder = u),
           \A u \in Sessions : u # s /\ holder = u => UNCHANGED <<run, job>>
    PROVE  txn' \in [Sessions -> Transactions] /\ \A u \in Sessions : TransactionOK(u)'
<1>1. txn' \in [Sessions -> Transactions] /\ txn'[s] = t
  BY DEF RaceInv, Replaced, Fits
<1>2. \A u \in Sessions : u # s => txn'[u] = txn[u]
  BY DEF RaceInv, Replaced
<1>3. TransactionOK(s)'
  BY <1>1 DEF TransactionOK, Fits
<1>4. ASSUME NEW u \in Sessions, u # s PROVE TransactionOK(u)'
  <2>1. TransactionOK(u)
    BY DEF RaceInv
  <2>2. QED
    BY <1>2, <1>4, <2>1 DEF TransactionOK
<1>5. QED
  BY <1>1, <1>3, <1>4

\* A step of no session, which changes rows only when nobody has locked them.
LEMMA NoTransaction ==
    ASSUME RaceInv, UNCHANGED <<holder, txn>>,
           run'.status # "absent" \/ UNCHANGED run,
           (\A u \in Sessions : holder # u) \/ UNCHANGED <<run, job>>
    PROVE  txn' \in [Sessions -> Transactions] /\ \A u \in Sessions : TransactionOK(u)'
<1>1. ASSUME NEW u \in Sessions PROVE TransactionOK(u)'
  <2>1. TransactionOK(u)
    BY DEF RaceInv
  <2>2. QED
    BY <2>1 DEF TransactionOK
<1>2. QED
  BY <1>1 DEF RaceInv

\* Rows that stay stay consistent, and the run is seen to stay.
LEMMA RowsStay ==
    ASSUME RaceInv, UNCHANGED <<run, job, attempts>>
    PROVE  RowsInv' /\ PhaseMoves(Phase, Phase')
<1>1. Phase' = Phase
  BY DEF Phase
<1>2. QED
  BY <1>1 DEF RaceInv, RowsInv, RowsOK, ActiveAttempts, RunFollowsJob, LatestDispatched,
              PhaseMoves

\* The idle transaction, and the one of a poll that begins.
LEMMA IdleOK ==
    /\ Idle \in Transactions /\ Idle.found = FALSE /\ Idle.step = "idle"
    /\ "idle" \notin LeaseMethods /\ "idle" \notin Polls
    /\ \A q \in Polls : q \notin LeaseMethods
BY Steps DEF Idle, Transactions, NoJob, Jobs, LeaseMethods, Polls

\* A session that goes idle without the lock fits any rows.
LEMMA IdleFits ==
    ASSUME NEW s \in Sessions, holder' # s
    PROVE  Fits(s, Idle)
BY IdleOK DEF Fits

\* The poll goes on to its next query, or ends.
LEMMA GoesOnOK ==
    ASSUME RaceInv, NEW s \in Sessions, txn[s].step \in Polls, GoesOn(s), holder' # s
    PROVE  \E t : Replaced(s, t) /\ Fits(s, t)
<1> DEFINE t == txn[s]
           n == Following(t)
<1>1. t \in Transactions /\ Replaced(s, n)
  BY DEF RaceInv, GoesOn, Replaced
<1>2. CASE NextStep(t.step) = "idle"
  <2>1. n = Idle
    BY <1>2 DEF Following
  <2>2. QED
    BY <1>1, <2>1, IdleFits
<1>3. CASE NextStep(t.step) # "idle"
  <2>1. NextStep(t.step) \in Polls
    BY <1>3 DEF NextStep, Polls
  <2>2. n = [t EXCEPT !.step = NextStep(t.step), !.found = FALSE, !.snap = NoJob]
    BY <1>3 DEF Following
  <2>3. NoJob \in Jobs
    BY DEF NoJob, Jobs
  <2>4. n \in Transactions /\ n.found = FALSE /\ n.step \in Polls
    BY <1>1, <2>1, <2>2, <2>3, Steps DEF Transactions
  <2>5. Fits(s, n)
    BY <2>4, IdleOK DEF Fits
  <2>6. QED
    BY <1>1, <2>5
<1>4. QED
  BY <1>2, <1>3

\* Facts every step uses.
LEMMA RaceFacts ==
    ASSUME RaceInv
    PROVE  /\ now \in Nat /\ now > 0 /\ RowsInv /\ job.epoch \in Nat /\ job.epoch + 1 \in Nat
           /\ \A s \in Sessions : /\ txn[s] \in Transactions /\ txn[s].at \in Nat
                                   /\ TransactionOK(s) /\ s # NoSession
           /\ LeaseTime \in Nat \ {0} /\ Deadline \in Nat \ {0}
<1>1. now \in Nat /\ now > 0
  BY DEF RaceInv
<1>2. \A s \in Sessions : txn[s] \in Transactions /\ TransactionOK(s)
  BY DEF RaceInv
<1>3. \A s \in Sessions : txn[s].at \in Nat
  BY <1>2 DEF Transactions
<1>4. QED
  BY <1>1, <1>2, <1>3, TimesAssumption, SessionsAssumption, RowFacts DEF RaceInv, RowsInv
-----------------------------------------------------------------------------
(* Every step. *)

\* create_run
LEMMA CreateRunOK ==
    ASSUME RaceInv, CreateRun
    PROVE  RaceInv' /\ PhaseMoves(Phase, Phase')
<1>1. /\ run.status = "absent" /\ run' = [run EXCEPT !.status = "queued"]
      /\ job' = [job EXCEPT !.status = "queued"] /\ UNCHANGED <<now, attempts, holder, txn>>
  BY DEF CreateRun
<1>2. run' \in Runs /\ run'.status = "queued"
  BY <1>1 DEF RaceInv, RowsOK, Runs, Undispatched
<1>3. /\ job' \in Jobs /\ job'.status = "queued" /\ job'.epoch = job.epoch
      /\ job'.expires = job.expires /\ job.status = "none"
  BY <1>1 DEF RaceInv, RowsOK, RunFollowsJob, Jobs
<1>4. ActiveAttempts' = {}
  BY <1>1, <1>3 DEF RaceInv, RowsOK, ActiveAttempts
<1>5. RowsOK' /\ RunFollowsJob'
  BY <1>1, <1>2, <1>3, <1>4 DEF RaceInv, RowsOK, RunFollowsJob, Active, Ended
<1>6. LatestDispatched'
  BY <1>1 DEF RaceInv, LatestDispatched, Ended
<1>7. \A u \in Sessions : holder # u
  BY <1>3, RaceFacts DEF TransactionOK
<1>8. txn' \in [Sessions -> Transactions] /\ \A u \in Sessions : TransactionOK(u)'
  BY <1>1, <1>2, <1>7, NoTransaction
<1>9. PhaseMoves(Phase, Phase')
  BY <1>1, <1>2, PhaseOf DEF PhaseMoves, Phase, Undispatched
<1>10. QED
  BY <1>1, <1>5, <1>6, <1>8, <1>9 DEF RaceInv

\* cancel_run
LEMMA CancelRunOK ==
    ASSUME RaceInv, CancelRun
    PROVE  RaceInv' /\ PhaseMoves(Phase, Phase')
<1>1. /\ run.status \in Undispatched /\ holder = NoSession /\ UNCHANGED <<now, holder, txn>>
  BY DEF CancelRun
<1>2. RowsInv' /\ PhaseMoves(Phase, Phase') /\ run'.status # "absent"
  <2>1. CASE TerminalizeRun("timed_out", "deadline_exceeded", now)
    BY <1>1, <2>1, RaceFacts, TerminalizeOK DEF MaySettle, Ended, Codes
  <2>2. CASE TerminalizeRun("cancelled", "cancelled_before_dispatch", now)
    BY <1>1, <2>2, RaceFacts, TerminalizeOK DEF MaySettle, Ended, Codes
  <2>3. QED
    BY <2>1, <2>2 DEF CancelRun
<1>3. txn' \in [Sessions -> Transactions] /\ \A u \in Sessions : TransactionOK(u)'
  BY <1>1, <1>2, RaceFacts, NoTransaction
<1>4. QED
  BY <1>1, <1>2, <1>3 DEF RaceInv, RowsInv

\* A poll begins, a query takes its snapshot, and a row is skipped: the rows stay.
LEMMA PollOK ==
    ASSUME RaceInv, NEW s \in Sessions, OpenPoll(s) \/ Select(s) \/ SkipRow(s)
    PROVE  RaceInv' /\ PhaseMoves(Phase, Phase')
<1>1. UNCHANGED <<now, run, job, attempts, holder>>
  BY DEF OpenPoll, Select, SkipRow
<1>2. txn[s] \in Transactions /\ TransactionOK(s)
  BY RaceFacts
<1>3. \E t : Replaced(s, t) /\ Fits(s, t)
  <2>1. CASE OpenPoll(s)
    <3> DEFINE t == [Idle EXCEPT !.step = "expired", !.at = now]
    <3>1. Replaced(s, t) /\ txn[s].step = "idle"
      BY <2>1 DEF OpenPoll, Replaced
    <3>2. t \in Transactions /\ t.found = FALSE /\ t.step = "expired"
      BY IdleOK, RaceFacts, Steps DEF Transactions, Polls
    <3>3. holder' # s
      BY <1>1, <1>2, <3>1, IdleOK DEF TransactionOK
    <3>4. Fits(s, t)
      BY <3>2, <3>3, IdleOK DEF Fits, Polls
    <3>5. QED
      BY <3>1, <3>4
  <2>2. CASE Select(s)
    <3>1. txn[s].step \in Polls
      BY <2>2 DEF Select, Polls
    <3>2. holder' # s
      BY <1>1, <1>2, <3>1, IdleOK DEF TransactionOK
    <3>3. CASE GoesOn(s)
      BY <3>1, <3>2, <3>3, GoesOnOK
    <3>4. CASE /\ JobMatches(txn[s].step, job, txn[s].at)
               /\ txn' = [txn EXCEPT ![s].found = TRUE, ![s].snap = job]
      <4> DEFINE t == [txn[s] EXCEPT !.found = TRUE, !.snap = job]
      <4>1. Replaced(s, t)
        BY <3>4 DEF Replaced, RaceInv
      <4>2. t \in Transactions /\ t.step = txn[s].step
        BY <1>2 DEF Transactions, RaceInv, RowsOK
      <4>3. run'.status # "absent"
        BY <1>1, <3>4 DEF JobMatches, RaceInv, RunFollowsJob
      <4>4. Fits(s, t)
        BY <3>1, <3>2, <4>2, <4>3, IdleOK DEF Fits
      <4>5. QED
        BY <4>1, <4>4
    <3>5. QED
      BY <2>2, <3>3, <3>4 DEF Select
  <2>3. CASE SkipRow(s)
    <3>1. txn[s].step \in Polls /\ GoesOn(s)
      BY <1>2, <2>3 DEF SkipRow, TransactionOK
    <3>2. holder' # s
      BY <1>1, <1>2, <3>1, IdleOK DEF TransactionOK
    <3>3. QED
      BY <3>1, <3>2, GoesOnOK
  <2>4. QED
    BY <2>1, <2>2, <2>3
<1>4. txn' \in [Sessions -> Transactions] /\ \A u \in Sessions : TransactionOK(u)'
  BY <1>1, <1>3, OneTransaction
<1>5. RowsInv' /\ PhaseMoves(Phase, Phase')
  BY <1>1, RowsStay
<1>6. QED
  BY <1>1, <1>4, <1>5 DEF RaceInv, RowsInv

\* Reconciling the run a stale query found: what the flush does not refuse is a settlement
\* that agrees with the dispatch fence.
LEMMA ReconcileOK ==
    ASSUME RaceInv, NEW s \in Sessions, ReconcileExpired(s) \/ ReconcileAbandoned(s)
    PROVE  RaceInv' /\ PhaseMoves(Phase, Phase')
<1>1. /\ txn[s].found /\ holder = NoSession /\ UNCHANGED <<now, holder>>
      /\ txn[s].step \in Polls /\ run.status # "absent"
  BY RaceFacts DEF ReconcileExpired, ReconcileAbandoned, Reconcile, TransactionOK
<1>2. PICK status, code :
         /\ status \in Ended /\ code \in Codes
         /\ \/ status = TimeoutStatus /\ code = "deadline_exceeded"
            \/ run.status = "dispatch_fenced" /\ status = "indeterminate"
         /\ IF RejectsUpdate(status, txn[s].snap) THEN RollsBack(s)
            ELSE TerminalizeRun(status, code, txn[s].at) /\ GoesOn(s)
  <2>1. CASE ReconcileExpired(s)
    BY <2>1 DEF ReconcileExpired, Reconcile, TimeoutStatus, Ended, Codes
  <2>2. CASE ReconcileAbandoned(s)
    BY <2>2 DEF ReconcileAbandoned, Reconcile, RunMatches, Ended, Codes
  <2>3. QED
    BY <2>1, <2>2
<1>3. \A u \in Sessions : holder # u /\ holder' # u
  BY <1>1, RaceFacts
<1>4. CASE RejectsUpdate(status, txn[s].snap)
  <2>1. Replaced(s, Idle) /\ UNCHANGED <<run, job, attempts>>
    BY <1>2, <1>4 DEF RollsBack, Replaced
  <2>2. Fits(s, Idle)
    BY <1>3, IdleFits
  <2>3. txn' \in [Sessions -> Transactions] /\ \A u \in Sessions : TransactionOK(u)'
    BY <1>3, <2>1, <2>2, OneTransaction
  <2>4. QED
    BY <1>1, <2>1, <2>3, RowsStay DEF RaceInv, RowsInv
<1>5. CASE ~RejectsUpdate(status, txn[s].snap)
  <2>1. TerminalizeRun(status, code, txn[s].at) /\ GoesOn(s)
    BY <1>2, <1>5
  <2>2. MaySettle(status, code)
    <3>1. run.status \in Undispatched \cup {"dispatch_fenced"} \cup Ended
      BY <1>1 DEF RaceInv, RowsOK, Runs
    <3>2. run.status \in Ended => run.status = status
      BY <1>5 DEF RejectsUpdate, HasEnded
    <3>3. status \in {"timed_out", "indeterminate"} /\
          (status = "timed_out" => run.status # "dispatch_fenced") /\
          (status = "indeterminate" => run.status = "dispatch_fenced")
      BY <1>2 DEF TimeoutStatus
    <3>4. QED
      BY <3>1, <3>2, <3>3 DEF MaySettle
  <2>3. RowsInv' /\ PhaseMoves(Phase, Phase') /\ run'.status = status
    BY <1>2, <2>1, <2>2, RaceFacts, TerminalizeOK
  <2>4. run'.status # "absent"
    BY <1>2, <2>3 DEF Ended
  <2>5. \E t : Replaced(s, t) /\ Fits(s, t)
    BY <1>1, <1>3, <2>1, GoesOnOK
  <2>6. txn' \in [Sessions -> Transactions] /\ \A u \in Sessions : TransactionOK(u)'
    BY <1>3, <2>4, <2>5, OneTransaction
  <2>7. QED
    BY <1>1, <2>3, <2>6 DEF RaceInv, RowsInv
<1>6. QED
  BY <1>4, <1>5

\* The attempts after a claim: the previous holder's is failed, the new one is open.
LEMMA NewAttemptsOK ==
    ASSUME RowsInv, attempts' = NewAttempts
    PROVE  /\ attempts' \in Seq(Attempts) /\ Len(attempts') = job.epoch + 1
           /\ DOMAIN attempts' = 1 .. job.epoch + 1
           /\ attempts'[job.epoch + 1] = [status |-> "preparing", dispatched |-> FALSE]
           /\ \A i \in DOMAIN attempts : /\ attempts'[i].status \notin Active
                                         /\ attempts'[i].dispatched = attempts[i].dispatched
<1> DEFINE failed(i) == [attempts[i] EXCEPT !.status = "failed"]
           old == [i \in DOMAIN attempts |->
                     IF job.status = "leased" /\ i \in ActiveAttempts THEN failed(i) ELSE attempts[i]]
           new == [status |-> "preparing", dispatched |-> FALSE]
<1>1. /\ job.epoch \in Nat /\ DOMAIN attempts = 1 .. job.epoch
      /\ \A i \in DOMAIN attempts : attempts[i] \in Attempts
      /\ ActiveAttempts = IF job.status = "leased" THEN {job.epoch} ELSE {}
  BY RowFacts DEF RowsInv, RowsOK
<1>2. \A i \in DOMAIN attempts : /\ failed(i) \in Attempts /\ failed(i).status = "failed"
                                 /\ failed(i).dispatched = attempts[i].dispatched
  BY <1>1 DEF Attempts, Ended
<1>3. new \in Attempts
  BY DEF Attempts, Active
<1>4. attempts' = Append(old, new)
  BY DEF NewAttempts
<1> HIDE DEF failed, new
<1>5. old \in [1 .. job.epoch -> Attempts]
  BY <1>1, <1>2
<1>6. \A i \in DOMAIN attempts : old[i].status \notin Active /\ old[i].dispatched = attempts[i].dispatched
  BY <1>1, <1>2 DEF ActiveAttempts, Active
<1> HIDE DEF old
<1>7. old \in Seq(Attempts) /\ Len(old) = job.epoch
  BY <1>1, <1>5, AttemptSequence
<1>8. /\ attempts' \in Seq(Attempts) /\ Len(attempts') = job.epoch + 1
      /\ \A i \in 1 .. job.epoch : attempts'[i] = old[i]
      /\ attempts'[job.epoch + 1] = new
  BY <1>3, <1>4, <1>7, AppendProperties
<1>9. DOMAIN attempts' = 1 .. job.epoch + 1
  BY <1>8, LenProperties
<1>10. QED
  BY <1>1, <1>6, <1>8, <1>9 DEF new

\* The job a claim leases.
LeasedJob == [status |-> "leased", epoch |-> job.epoch + 1, expires |-> Earlier(now + LeaseTime, Deadline)]

\* The rest of claim_job, on the run it locked, whatever its query saw of the job.
LEMMA ClaimOK ==
    ASSUME RaceInv, NEW s \in Sessions, Claim(s)
    PROVE  RaceInv' /\ PhaseMoves(Phase, Phase')
<1>1. /\ holder = NoSession /\ UNCHANGED <<now, holder>> /\ run.status \in Undispatched
      /\ Replaced(s, Idle)
  BY DEF Claim, RunMatches, Replaced
<1>2. \A u \in Sessions : holder # u /\ holder' # u
  BY <1>1, RaceFacts
<1>3. RowsInv' /\ PhaseMoves(Phase, Phase') /\ run'.status # "absent"
  <2>1. CASE TerminalizeRun("timed_out", "deadline_exceeded", now)
    BY <1>1, <2>1, RaceFacts, TerminalizeOK DEF MaySettle, Ended, Codes
  <2>2. CASE TerminalizeRun("failed", "preparation_failed", now)
    BY <1>1, <2>2, RaceFacts, TerminalizeOK DEF MaySettle, Ended, Codes
  <2>3. CASE job' = LeasedJob /\ attempts' = NewAttempts /\ run' = [run EXCEPT !.status = "preparing"]
    <3>1. run' \in Runs /\ run'.status = "preparing"
      BY <2>3 DEF RaceInv, RowsOK, Runs, Undispatched
    <3>2. Earlier(now + LeaseTime, Deadline) \in Nat /\ Earlier(now + LeaseTime, Deadline) > 0
      BY RaceFacts DEF Earlier
    <3>3. /\ job' \in Jobs /\ job'.status = "leased" /\ job'.epoch = job.epoch + 1
          /\ job'.expires > 0
      BY <2>3, <3>2, RaceFacts DEF LeasedJob, Jobs
    <3>4. /\ attempts' \in Seq(Attempts) /\ Len(attempts') = job.epoch + 1
          /\ DOMAIN attempts' = 1 .. job.epoch + 1
          /\ attempts'[job.epoch + 1] = [status |-> "preparing", dispatched |-> FALSE]
          /\ \A i \in DOMAIN attempts : /\ attempts'[i].status \notin Active
                                        /\ attempts'[i].dispatched = attempts[i].dispatched
      BY <2>3, RaceFacts, NewAttemptsOK
    <3>5. DOMAIN attempts = 1 .. job.epoch /\ job.epoch \in Nat
      BY RaceFacts, RowFacts DEF RowsInv
    <3>6. ActiveAttempts' = {job.epoch + 1}
      BY <3>4, <3>5 DEF ActiveAttempts, Active
    <3>7. RowsOK'
      BY <3>1, <3>3, <3>4, <3>6 DEF RowsOK
    <3>8. RunFollowsJob'
      BY <3>1, <3>3 DEF RunFollowsJob, Active, Ended
    <3>9. LatestDispatched'
      <4>1. \A i \in DOMAIN attempts : ~attempts[i].dispatched
        BY <1>1 DEF RaceInv, LatestDispatched, Undispatched, Ended
      <4>2. \A i \in DOMAIN attempts' : ~attempts'[i].dispatched
        BY <3>4, <3>5, <4>1
      <4>3. QED
        BY <4>2 DEF LatestDispatched
    <3>10. Phase = "waiting" /\ Phase' = "waiting"
      BY <1>1, <3>1, PhaseOf DEF Phase, Undispatched
    <3>11. QED
      BY <3>1, <3>7, <3>8, <3>9, <3>10 DEF RowsInv, PhaseMoves
  <2>4. QED
    BY <2>1, <2>2, <2>3 DEF Claim, LeasedJob
<1>4. txn' \in [Sessions -> Transactions] /\ \A u \in Sessions : TransactionOK(u)'
  BY <1>1, <1>2, <1>3, IdleFits, OneTransaction
<1>5. QED
  BY <1>1, <1>3, <1>4 DEF RaceInv, RowsInv

\* A lease method takes the row lock and reads the lease.
LEMMA OpenLeaseMethodOK ==
    ASSUME RaceInv, NEW s \in Sessions, NEW e \in 1 .. MaxEpoch, NEW m \in LeaseMethods,
           OpenLeaseMethod(s, e, m)
    PROVE  RaceInv' /\ PhaseMoves(Phase, Phase')
<1> DEFINE t == [Idle EXCEPT !.step = m, !.at = now, !.epoch = e]
<1>1. /\ holder = NoSession /\ LeaseAccepted(e, m) /\ holder' = s /\ Replaced(s, t)
      /\ UNCHANGED <<now, run, job, attempts>>
  BY DEF OpenLeaseMethod, Replaced
<1>2. e \in Nat
  BY TimesAssumption
<1>3. t \in Transactions /\ t.found = FALSE /\ t.step = m /\ t.epoch = e
  BY <1>2, IdleOK, RaceFacts DEF Transactions
<1>4. Fits(s, t)
  BY <1>1, <1>3 DEF Fits, LeaseAccepted
<1> HIDE DEF t
<1>5. \A u \in Sessions : u # s => (holder' = u <=> holder = u)
  BY <1>1, RaceFacts
<1>6. txn' \in [Sessions -> Transactions] /\ \A u \in Sessions : TransactionOK(u)'
  BY <1>1, <1>4, <1>5, OneTransaction
<1>7. QED
  BY <1>1, <1>6, RowsStay DEF RaceInv, RowsInv

\* A fence moves the run and its open attempt together.
LEMMA FenceOK ==
    ASSUME RaceInv, NEW m \in {"fence_session", "fence_dispatch"}, job.status = "leased",
           run.status = FenceFrom(m), run' = [run EXCEPT !.status = FenceTo(m)],
           MoveAttempt(FenceTo(m)), UNCHANGED job
    PROVE  RowsInv' /\ PhaseMoves(Phase, Phase') /\ run'.status = FenceTo(m)
<1>1. /\ FenceTo(m) \in {"session_fenced", "dispatch_fenced"} /\ FenceTo(m) \in Active
      /\ run.status \in Undispatched
      /\ FenceTo(m) = "session_fenced" \/ FenceTo(m) = "dispatch_fenced"
  BY DEF FenceTo, FenceFrom, Active, Undispatched
<1>2. run' \in Runs /\ run'.status = FenceTo(m)
  BY <1>1 DEF RaceInv, RowsOK, Runs, Undispatched
<1>3. /\ attempts' \in Seq(Attempts) /\ Len(attempts') = job.epoch
      /\ DOMAIN attempts' = DOMAIN attempts
      /\ \A i \in DOMAIN attempts :
                IF i \in ActiveAttempts
                THEN /\ attempts'[i].status = FenceTo(m)
                     /\ attempts'[i].dispatched =>
                          attempts[i].dispatched \/ FenceTo(m) = "dispatch_fenced"
                ELSE attempts'[i] = attempts[i]
  BY <1>1, MoveAttemptOK DEF RaceInv
<1>4. ActiveAttempts = {job.epoch} /\ job.epoch \in DOMAIN attempts
  <2>1. ActiveAttempts = {job.epoch}
    BY DEF RaceInv, RowsOK
  <2>2. QED
    BY <2>1 DEF ActiveAttempts
<1>5. ActiveAttempts' = {job.epoch}
  BY <1>1, <1>3, <1>4 DEF ActiveAttempts
<1>6. RowsOK'
  BY <1>2, <1>3, <1>4, <1>5 DEF RaceInv, RowsOK
<1>7. RunFollowsJob'
  BY <1>1, <1>2 DEF RaceInv, RunFollowsJob, Active, Ended
<1>8. LatestDispatched'
  <2>1. \A i \in DOMAIN attempts : ~attempts[i].dispatched
    BY <1>1 DEF RaceInv, LatestDispatched, Undispatched, Ended
  <2>2. QED
    BY <1>2, <1>3, <1>4, <2>1 DEF LatestDispatched
<1>9. PhaseMoves(Phase, Phase')
  BY <1>1, <1>2, PhaseOf DEF Phase, PhaseMoves, Undispatched
<1>10. QED
  BY <1>2, <1>6, <1>7, <1>8, <1>9 DEF RowsInv

\* A lease method commits what it decided under the lock it still holds.
LEMMA CommitLeaseMethodOK ==
    ASSUME RaceInv, NEW s \in Sessions, CommitLeaseMethod(s)
    PROVE  RaceInv' /\ PhaseMoves(Phase, Phase')
<1> DEFINE t == txn[s]
<1>1. /\ holder = s /\ holder' = NoSession /\ Replaced(s, Idle) /\ now' = now
  BY DEF CommitLeaseMethod, Replaced
<1>2. /\ job.status = "leased" /\ t.at \in Nat
      /\ t.step \in {"fence_session", "fence_dispatch"} => run.status = FenceFrom(t.step)
      /\ run.status \in Active
  BY <1>1, RaceFacts DEF TransactionOK, RaceInv, RunFollowsJob
<1>3. RowsInv' /\ PhaseMoves(Phase, Phase') /\ run'.status # "absent"
  <2>1. CASE /\ job' = [job EXCEPT !.expires = Earlier(t.at + LeaseTime, Deadline)]
             /\ UNCHANGED <<run, attempts>>
    <3>1. Earlier(t.at + LeaseTime, Deadline) \in Nat /\ Earlier(t.at + LeaseTime, Deadline) > 0
      BY <1>2, RaceFacts DEF Earlier
    <3>2. /\ job' \in Jobs /\ job'.status = job.status /\ job'.epoch = job.epoch
          /\ job'.expires > 0
      BY <2>1, <3>1 DEF RaceInv, RowsOK, Jobs
    <3>3. RowsInv'
      BY <1>2, <2>1, <3>2 DEF RaceInv, RowsInv, RowsOK, ActiveAttempts, RunFollowsJob,
                              LatestDispatched
    <3>4. Phase' = Phase
      BY <2>1 DEF Phase
    <3>5. QED
      BY <1>2, <2>1, <3>3, <3>4 DEF PhaseMoves, Active
  <2>2. CASE /\ t.step \in {"fence_session", "fence_dispatch"}
             /\ run' = [run EXCEPT !.status = FenceTo(t.step)]
             /\ MoveAttempt(FenceTo(t.step)) /\ UNCHANGED job
    <3>1. RowsInv' /\ PhaseMoves(Phase, Phase') /\ run'.status = FenceTo(t.step)
      BY <1>2, <2>2, FenceOK
    <3>2. QED
      BY <3>1 DEF FenceTo
  <2>3. CASE Complete(t.at)
    <3>1. \E st \in Ended, code \in Codes : TerminalizeRun(st, code, t.at) /\ MaySettle(st, code)
      BY <1>2, <2>3 DEF Complete, TimeoutStatus, MaySettle, Ended, Codes, Active, Undispatched
    <3>2. PICK st \in Ended, code \in Codes : TerminalizeRun(st, code, t.at) /\ MaySettle(st, code)
      BY <3>1
    <3>3. RowsInv' /\ PhaseMoves(Phase, Phase') /\ run'.status = st
      BY <1>2, <3>2, RaceFacts, TerminalizeOK
    <3>4. QED
      BY <3>3 DEF Ended
  <2>4. QED
    BY <2>1, <2>2, <2>3 DEF CommitLeaseMethod
<1>4. \A u \in Sessions : holder' # u /\ (u # s => holder # u)
  BY <1>1, RaceFacts
<1>5. txn' \in [Sessions -> Transactions] /\ \A u \in Sessions : TransactionOK(u)'
  BY <1>1, <1>3, <1>4, IdleFits, OneTransaction
<1>6. QED
  BY <1>1, <1>3, <1>5 DEF RaceInv, RowsInv

\* Every step preserves the invariant and moves the run as its lifecycle allows.
LEMMA RaceStepOK ==
    ASSUME RaceInv, [Next]_vars
    PROVE  RaceInv' /\ PhaseMoves(Phase, Phase')
<1>1. CASE Tick \/ UNCHANGED vars
  <2>1. UNCHANGED <<run, job, attempts, holder, txn>> /\ now' \in 1 .. MaxClock
    BY <1>1, TimesAssumption DEF Tick, vars, RaceInv
  <2>2. txn' \in [Sessions -> Transactions] /\ \A u \in Sessions : TransactionOK(u)'
    BY <2>1, NoTransaction
  <2>3. QED
    BY <2>1, <2>2, RowsStay DEF RaceInv, RowsInv
<1>2. QED
  BY <1>1, CreateRunOK, CancelRunOK, PollOK, ReconcileOK, ClaimOK, OpenLeaseMethodOK,
     CommitLeaseMethodOK DEF Next

\* An empty ledger.
LEMMA RaceInitOK == Init => RaceInv
<1> SUFFICES ASSUME Init PROVE RaceInv
  OBVIOUS
<1>1. RowsOK /\ RunFollowsJob /\ LatestDispatched
  <2>1. run \in Runs /\ run.status = "absent" /\ job \in Jobs /\ job.status = "none"
        /\ job.expires = 0 /\ job.epoch = 0
    BY DEF Init, Runs, Codes, NoJob, Jobs
  <2>2. attempts = << >> /\ attempts \in Seq(Attempts) /\ Len(attempts) = 0 /\ DOMAIN attempts = {}
    BY DEF Init
  <2>3. ActiveAttempts = {}
    BY <2>2 DEF ActiveAttempts
  <2>4. QED
    BY <2>1, <2>2, <2>3 DEF RowsOK, RunFollowsJob, LatestDispatched, Active, Ended
<1>2. txn \in [Sessions -> Transactions] /\ \A s \in Sessions : txn[s] = Idle
  BY IdleOK DEF Init
<1>3. \A s \in Sessions : TransactionOK(s)
  BY <1>2, IdleOK, SessionsAssumption DEF Init, TransactionOK
<1>4. now \in 1 .. MaxClock /\ holder \in Sessions \cup {NoSession}
  BY TimesAssumption DEF Init
<1>5. QED
  BY <1>1, <1>2, <1>3, <1>4 DEF RaceInv
-----------------------------------------------------------------------------
(* The theorems. *)

\* The inductive invariant holds in every reachable state.
THEOREM RaceInvariant == Spec => []RaceInv
<1>1. RaceInv /\ [Next]_vars => RaceInv'
  BY RaceStepOK
<1>2. QED
  BY <1>1, RaceInitOK, PTL DEF Spec

\* Whatever a poll's queries missed between snapshot and lock, a leased job has exactly one
\* open attempt, its latest, and at most one attempt of a run passed the dispatch fence.
THEOREM AttemptsFollow == Spec => []AttemptsFollowJob
<1>1. RaceInv => AttemptsFollowJob
  <2> SUFFICES ASSUME RaceInv PROVE AttemptsFollowJob
    OBVIOUS
  <2>1. TypeOK
    BY DEF RaceInv, RowsOK, TypeOK, Runs, Attempts
  <2>2. Cardinality({i \in DOMAIN attempts : attempts[i].dispatched}) <= 1
    <3> DEFINE D == {i \in DOMAIN attempts : attempts[i].dispatched}
    <3>1. D \subseteq {job.epoch}
      BY DEF RaceInv, LatestDispatched
    <3>2. IsFiniteSet({job.epoch}) /\ Cardinality({job.epoch}) = 1
      BY FS_Singleton
    <3>3. Cardinality(D) <= Cardinality({job.epoch})
      BY <3>1, <3>2, FS_Subset
    <3>4. QED
      BY <3>2, <3>3
  <2>3. QED
    BY <2>1, <2>2 DEF RaceInv, RowsOK, AttemptsFollowJob
<1>2. QED
  BY <1>1, RaceInvariant, PTL

\* The run, as RunLifecycle sees it.
shown == [r \in {1} |-> Phase]

\* A phase that moves is a step of RunLifecycle.
LEMMA PhaseStep ==
    ASSUME RaceInv, PhaseMoves(Phase, Phase')
    PROVE  Lifecycle!Next \/ shown' = shown
<1>1. CASE Phase' = Phase
  BY <1>1 DEF shown
<1>2. CASE Phase = "absent" /\ Phase' = "waiting"
  <2>1. Lifecycle!InProgress = {}
    BY <1>2 DEF Lifecycle!InProgress
  <2>2. Lifecycle!Cardinality({}) = Cardinality({})
    BY DEF Lifecycle!Cardinality, Cardinality
  <2>3. Cardinality({}) < 1
    BY FS_EmptySet
  <2>4. shown' = [shown EXCEPT ![1] = "waiting"] /\ shown[1] = "absent"
    BY <1>2 DEF shown
  <2>5. Lifecycle!Admit(1)
    BY <2>1, <2>2, <2>3, <2>4 DEF Lifecycle!Admit, shown
  <2>6. QED
    BY <2>5 DEF Lifecycle!Next
<1>3. CASE Phase = "waiting" /\ Phase' = "dispatched"
  <2>1. shown' = [shown EXCEPT ![1] = "dispatched"] /\ shown[1] = "waiting"
    BY <1>3 DEF shown
  <2>2. Lifecycle!Dispatch(1)
    BY <2>1 DEF Lifecycle!Dispatch, shown
  <2>3. QED
    BY <2>2 DEF Lifecycle!Next
<1>4. CASE \/ Phase = "waiting" /\ Phase' \in {"cancelled", "timed_out", "failed_before_dispatch"}
           \/ /\ Phase = "dispatched"
              /\ Phase' \in {"succeeded", "failed_after_dispatch", "indeterminate"}
  <2>1. /\ shown' \in [{1} -> Lifecycle!Phases] /\ shown'[1] = Phase' /\ shown[1] = Phase
    BY <1>4 DEF shown, Lifecycle!Phases, Lifecycle!Settled, Lifecycle!UndispatchedEnds,
                Lifecycle!DispatchedEnds
  <2>2. Lifecycle!Settle
    BY <1>4, <2>1 DEF Lifecycle!Settle, shown, Lifecycle!UndispatchedEnds,
                      Lifecycle!DispatchedEnds
  <2>3. QED
    BY <2>2 DEF Lifecycle!Next
<1>5. QED
  BY <1>1, <1>2, <1>3, <1>4 DEF PhaseMoves

\* Taken apart into statements, the polls and lease methods implement the lifecycle of a
\* run: it is dispatched at most once and settled according to whether it was.
THEOREM RaceRefinement == Spec => ImplementsLifecycle
<1>1. Init => Lifecycle!Init
  BY DEF Init, Lifecycle!Init, Phase, Undispatched
<1>2. RaceInv /\ [Next]_vars => [Lifecycle!Next]_shown
  BY RaceStepOK, PhaseStep
<1>3. QED
  BY <1>1, <1>2, RaceInvariant, PTL DEF Spec, ImplementsLifecycle, Lifecycle!Spec, shown
=============================================================================
