----------------------------- MODULE ClaimRace -----------------------------
(***************************************************************************)
(* RunLedger lets claim_job happen in one step, which may miss the latest  *)
(* change of a row.  In PostgreSQL it is several: each of its three        *)
(* queries reads runs and jobs from the snapshot of its own statement,     *)
(* locks only the run (FOR UPDATE OF runs SKIP LOCKED), and at READ        *)
(* COMMITTED checks its conditions again on the row it locked, against the *)
(* job the snapshot saw.  A transaction that changes the job and commits   *)
(* between the snapshot and the lock is not noticed.  This module follows  *)
(* one run through polls taken apart that way, and through lease methods   *)
(* that read the clock and commit later.  A row changes for everybody when *)
(* its transaction flushes: a snapshot taken between the flush and the     *)
(* commit is one taken before the flush.                                   *)
(* Quarantine and the execution epoch are RunLedger's and left out.        *)
(***************************************************************************)
EXTENDS Naturals, Sequences, FiniteSets, TLC

CONSTANTS
    Sessions,      \* database sessions of workers
    NoSession,     \* nobody holds the run's row lock
    LeaseTime,     \* worker_lease_duration_seconds
    Deadline,      \* the run's deadline
    MaxClock,      \* bound: the last instant of the clock
    MaxEpoch       \* bound: leases of the run

ASSUME SessionsAssumption == NoSession \notin Sessions
ASSUME TimesAssumption ==
    /\ LeaseTime \in Nat \ {0} /\ Deadline \in Nat \ {0}
    /\ MaxClock \in Nat \ {0} /\ MaxEpoch \in Nat \ {0}

VARIABLES
    now,        \* the database clock
    run,        \* the Run row and the number of its terminal events
    job,        \* the Job row
    attempts,   \* the status of each attempt; an attempt's index is its lease epoch
    holder,     \* the session that holds the run's row lock
    txn         \* each session's transaction

vars == <<now, run, job, attempts, holder, txn>>

Undispatched == {"queued", "preparing", "session_fenced"}
Ended == {"succeeded", "failed", "cancelled", "timed_out", "indeterminate"}
Active == {"preparing", "session_fenced", "dispatch_fenced"}

Codes == {"none", "deadline_exceeded", "cancelled_before_dispatch", "tool_call_failed",
          "worker_lost_after_dispatch", "upstream_outcome_unknown", "preparation_failed"}

Jobs == [status : {"none", "queued", "leased"} \cup Ended, epoch : Nat, expires : Nat]

NoJob == [status |-> "none", epoch |-> 0, expires |-> 0]

\* The queries of one poll, in order, and the methods of a lease.
Queries == <<"expired", "abandoned", "claim">>

LeaseMethods == {"heartbeat", "fence_session", "fence_dispatch", "complete"}

\* at: the transaction's clock read; found: its query returned the run; snap: the job
\* as that query saw it; epoch: the lease presented.
Transactions ==
    [step : {"idle"} \cup {Queries[q] : q \in DOMAIN Queries} \cup LeaseMethods,
     at : Nat, found : BOOLEAN, snap : Jobs, epoch : Nat]

Idle == [step |-> "idle", at |-> 0, found |-> FALSE, snap |-> NoJob, epoch |-> 0]

\* The types of the rows, with ck_job_active_lease: the lease columns are set exactly
\* while the job is leased.
TypeOK ==
    /\ now \in 1 .. MaxClock
    /\ run \in [status : {"absent"} \cup Undispatched \cup {"dispatch_fenced"} \cup Ended,
                code : Codes, terminalAt : Nat, terminalEvents : Nat]
    /\ job \in Jobs
    /\ job.status = "leased" <=> job.expires > 0
    /\ attempts \in Seq([status : Active \cup Ended, dispatched : BOOLEAN])
    /\ holder \in Sessions \cup {NoSession}
    /\ txn \in [Sessions -> Transactions]

Init ==
    /\ now = 1
    /\ run = [status |-> "absent", code |-> "none", terminalAt |-> 0, terminalEvents |-> 0]
    /\ job = NoJob
    /\ attempts = << >>
    /\ holder = NoSession
    /\ txn = [s \in Sessions |-> Idle]
-----------------------------------------------------------------------------
(* Rows. *)

Earlier(a, b) == IF a <= b THEN a ELSE b

HasEnded == run.status \in Ended

ActiveAttempts == {i \in DOMAIN attempts : attempts[i].status \in Active}

MoveAttempt(s) ==
    attempts' = [i \in DOMAIN attempts |->
                    IF i \in ActiveAttempts
                    THEN [status |-> s,
                          dispatched |-> attempts[i].dispatched \/ s = "dispatch_fenced"]
                    ELSE attempts[i]]

\* Mutant: the lease columns are not cleared.
TerminalizeRun_KeepsLease(s, code, at) ==
    /\ run' = [status |-> s, code |-> code, terminalAt |-> at,
               terminalEvents |-> run.terminalEvents + 1]
    /\ job' = [job EXCEPT !.status = s]
    /\ MoveAttempt(s)

\* _terminalize_run
TerminalizeRun(s, code, at) ==
    /\ run' = [status |-> s, code |-> code, terminalAt |-> at,
               terminalEvents |-> run.terminalEvents + 1]
    /\ job' = [job EXCEPT !.status = s, !.expires = 0]
    /\ MoveAttempt(s)

TimeoutStatus == IF run.status = "dispatch_fenced" THEN "indeterminate" ELSE "timed_out"

NextStep(step) == CASE step = "expired" -> "abandoned" [] step = "abandoned" -> "claim"
                    [] OTHER -> "idle"

\* The query returned nothing, or skipped the row it found: the poll goes on.
Following(t) ==
    IF NextStep(t.step) = "idle" THEN Idle
    ELSE [t EXCEPT !.step = NextStep(t.step), !.found = FALSE, !.snap = NoJob]

GoesOn(s) == txn' = [txn EXCEPT ![s] = Following(txn[s])]

RollsBack(s) ==
    /\ txn' = [txn EXCEPT ![s] = Idle]
    /\ UNCHANGED <<run, job, attempts>>
-----------------------------------------------------------------------------
(* create_run and cancel_run, which lock the run and read its rows fresh. *)

CreateRun ==
    /\ run.status = "absent"
    /\ now < Deadline
    /\ run' = [run EXCEPT !.status = "queued"]
    /\ job' = [job EXCEPT !.status = "queued"]
    /\ UNCHANGED <<now, attempts, holder, txn>>

CancelRun ==
    /\ run.status \in Undispatched
    /\ holder = NoSession
    /\ IF Deadline <= now THEN TerminalizeRun("timed_out", "deadline_exceeded", now)
       ELSE TerminalizeRun("cancelled", "cancelled_before_dispatch", now)
    /\ UNCHANGED <<now, holder, txn>>
-----------------------------------------------------------------------------
(* A poll. *)

OpenPoll(s) ==
    /\ txn[s].step = "idle"
    /\ txn' = [txn EXCEPT ![s] = [Idle EXCEPT !.step = "expired", !.at = now]]
    /\ UNCHANGED <<now, run, job, attempts, holder>>

\* The conditions a query puts on the job it joins.
JobMatches(step, j, at) ==
    \/ step = "expired" /\ j.status \in {"queued", "leased"} /\ Deadline <= at
    \/ step = "abandoned" /\ j.status = "leased" /\ j.expires <= at
    \/ /\ step = "claim" /\ at < Deadline
       /\ \/ j.status = "queued"
          \/ j.status = "leased" /\ j.expires <= at

\* Mutant: the run's status is not among the conditions.
RunMatches_Any(step) == TRUE

\* The conditions it puts on the run, which the lock checks again.
RunMatches(step) ==
    \/ step = "expired"
    \/ step = "abandoned" /\ run.status = "dispatch_fenced"
    \/ step = "claim" /\ run.status \in Undispatched

\* The snapshot of one query's statement.
Select(s) ==
    LET t == txn[s] IN
    /\ t.step \in {"expired", "abandoned", "claim"} /\ ~t.found
    /\ IF JobMatches(t.step, job, t.at) /\ RunMatches(t.step)
       THEN txn' = [txn EXCEPT ![s].found = TRUE, ![s].snap = job]
       ELSE GoesOn(s)
    /\ UNCHANGED <<now, run, job, attempts, holder>>

\* SKIP LOCKED, or the row it locked no longer matches.
SkipRow(s) ==
    LET t == txn[s] IN
    /\ t.found
    /\ holder # NoSession \/ ~RunMatches(t.step)
    /\ GoesOn(s)
    /\ UNCHANGED <<now, run, job, attempts, holder>>

\* Mutant: the model does not reject a change of a terminal status.
RejectsUpdate_Never(s, snap) == snap.status = "queued" /\ job.status = "leased"

\* The flush fails: _reject_terminal_status_update and its trigger refuse to change a
\* terminal status; and a job loaded as queued has no lease columns to clear, so a job
\* leased since would break ck_job_active_lease.
RejectsUpdate(s, snap) ==
    \/ HasEnded /\ run.status # s
    \/ snap.status = "queued" /\ job.status = "leased"

\* _terminalize_expired_jobs and _terminalize_abandoned_dispatches, for the locked run
\* and the job of the snapshot.
Reconcile(s, status, code) ==
    /\ txn[s].found
    /\ holder = NoSession
    /\ RunMatches(txn[s].step)
    /\ IF RejectsUpdate(status, txn[s].snap)
       THEN RollsBack(s)
       ELSE TerminalizeRun(status, code, txn[s].at) /\ GoesOn(s)
    /\ UNCHANGED <<now, holder>>

ReconcileExpired(s) ==
    txn[s].step = "expired" /\ Reconcile(s, TimeoutStatus, "deadline_exceeded")

ReconcileAbandoned(s) ==
    /\ txn[s].step = "abandoned"
    /\ Reconcile(s, "indeterminate", "worker_lost_after_dispatch")

\* Mutant: the previous attempt is left open.
NewAttempts_Open == Append(attempts, [status |-> "preparing", dispatched |-> FALSE])

\* The previous holder's attempt is failed, whether or not its lease has expired.
NewAttempts ==
    Append([i \in DOMAIN attempts |->
               IF job.status = "leased" /\ i \in ActiveAttempts
               THEN [attempts[i] EXCEPT !.status = "failed"] ELSE attempts[i]],
           [status |-> "preparing", dispatched |-> FALSE])

\* The rest of claim_job: the job is read again under the run's lock, and so is the
\* clock; the lease of a job found leased is not looked at again.
Claim(s) ==
    /\ txn[s].step = "claim" /\ txn[s].found
    /\ holder = NoSession
    /\ RunMatches("claim")
    /\ \/ /\ Deadline <= now
          /\ TerminalizeRun("timed_out", "deadline_exceeded", now)
       \/ /\ now < Deadline   \* the target is no longer current
          /\ TerminalizeRun("failed", "preparation_failed", now)
       \/ /\ now < Deadline
          /\ job.epoch < MaxEpoch
          /\ job' = [status |-> "leased", epoch |-> job.epoch + 1,
                     expires |-> Earlier(now + LeaseTime, Deadline)]
          /\ attempts' = NewAttempts
          /\ run' = [run EXCEPT !.status = "preparing"]
    /\ txn' = [txn EXCEPT ![s] = Idle]
    /\ UNCHANGED <<now, holder>>
-----------------------------------------------------------------------------
(* The methods of a lease, from the row locks and the clock read to the commit. *)

FenceFrom(method) == IF method = "fence_session" THEN "preparing" ELSE "session_fenced"

FenceTo(method) == IF method = "fence_session" THEN "session_fenced" ELSE "dispatch_fenced"

\* heartbeat, _fence_attempt and complete_lease: the lease presented is the job's. Only
\* complete_lease accepts it after the deadline, and then settles the run by it.
LeaseAccepted(e, method) ==
    /\ job.status = "leased" /\ job.epoch = e
    /\ \/ now < job.expires /\ now < Deadline
       \/ method = "complete" /\ Deadline <= now
    /\ method \in {"fence_session", "fence_dispatch"} => run.status = FenceFrom(method)

OpenLeaseMethod(s, e, method) ==
    /\ txn[s].step = "idle"
    /\ holder = NoSession
    /\ LeaseAccepted(e, method)
    /\ holder' = s
    /\ txn' = [txn EXCEPT ![s] = [Idle EXCEPT !.step = method, !.at = now, !.epoch = e]]
    /\ UNCHANGED <<now, run, job, attempts>>

\* A completion: a result or a failure after the dispatch, a failure before it.
Complete(at) ==
    IF Deadline <= at
    THEN TerminalizeRun(TimeoutStatus, "deadline_exceeded", at)
    ELSE \/ /\ run.status = "dispatch_fenced"
            /\ \/ TerminalizeRun("succeeded", "none", at)
               \/ TerminalizeRun("failed", "tool_call_failed", at)
               \/ TerminalizeRun("indeterminate", "upstream_outcome_unknown", at)
         \/ /\ run.status \in Undispatched
            /\ TerminalizeRun("failed", "preparation_failed", at)

CommitLeaseMethod(s) ==
    LET t == txn[s] IN
    /\ holder = s
    /\ \/ /\ t.step = "heartbeat"
          /\ job' = [job EXCEPT !.expires = Earlier(t.at + LeaseTime, Deadline)]
          /\ UNCHANGED <<run, attempts>>
       \/ /\ t.step \in {"fence_session", "fence_dispatch"}
          /\ run' = [run EXCEPT !.status = FenceTo(t.step)]
          /\ MoveAttempt(FenceTo(t.step))
          /\ UNCHANGED job
       \/ t.step = "complete" /\ Complete(t.at)
    /\ holder' = NoSession
    /\ txn' = [txn EXCEPT ![s] = Idle]
    /\ UNCHANGED now

Tick ==
    /\ now < MaxClock
    /\ now' = now + 1
    /\ UNCHANGED <<run, job, attempts, holder, txn>>

Next ==
    \/ CreateRun \/ CancelRun \/ Tick
    \/ \E s \in Sessions :
         \/ OpenPoll(s) \/ Select(s) \/ SkipRow(s)
         \/ ReconcileExpired(s) \/ ReconcileAbandoned(s) \/ Claim(s)
         \/ \E e \in 1 .. MaxEpoch, m \in LeaseMethods : OpenLeaseMethod(s, e, m)
         \/ CommitLeaseMethod(s)

Spec == Init /\ [][Next]_vars

\* Sessions differ in nothing but their names.
SessionSymmetry == Permutations(Sessions)
-----------------------------------------------------------------------------
(* What survives the stale reads. *)

\* The attempts follow the job whatever a poll missed: a leased job has exactly one
\* open attempt, the one of its latest lease, and it says what the run says; a job that
\* is not leased has none; and however often the run is leased, at most one attempt
\* passed the dispatch fence.
AttemptsFollowJob ==
    /\ TypeOK
    /\ ActiveAttempts = IF job.status = "leased" THEN {job.epoch} ELSE {}
    /\ Len(attempts) = job.epoch
    /\ job.status = "leased" => attempts[job.epoch].status = run.status
    /\ Cardinality({i \in DOMAIN attempts : attempts[i].dispatched}) <= 1

\* RunLifecycle's phase of the run.
Phase ==
    CASE run.status \in Undispatched -> "waiting"
      [] run.status = "dispatch_fenced" -> "dispatched"
      [] run.status = "failed" ->
            IF run.code = "tool_call_failed" THEN "failed_after_dispatch"
            ELSE "failed_before_dispatch"
      [] OTHER -> run.status

Lifecycle == INSTANCE RunLifecycle
                 WITH Runs <- {1}, MaxActiveRuns <- 1, phase <- [r \in {1} |-> Phase]

\* Taken apart into statements, the polls still implement the run's lifecycle: it is
\* dispatched at most once and settled according to whether it was.
ImplementsLifecycle == Lifecycle!Spec
-----------------------------------------------------------------------------
(* What does not. *)

\* A settled run is not settled again: its row stands as the first settlement left it.
SettledOnce == [][HasEnded => run' = run]_vars
=============================================================================
