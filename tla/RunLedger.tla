------------------------------ MODULE RunLedger ------------------------------
(***************************************************************************)
(* The durable execution ledger of modall (execution/service.py): runs,    *)
(* their jobs, attempts, events and retained content, the leases under     *)
(* which workers act on them, and the restore quarantine.                  *)
(*                                                                         *)
(* Every public method of ExecutionService runs in one database            *)
(* transaction that locks the rows it changes, so each is one action, at   *)
(* the instant it reads the clock under those locks.  It commits up to     *)
(* ClockLag later, and until then the statements of a poll, which lock     *)
(* only runs and take the job as their snapshot has it, see the version    *)
(* it replaces: a poll may re-settle a run that was just settled, or pass  *)
(* over a lease that was just given or renewed (ClaimRace takes the same   *)
(* polls apart into their statements).                                     *)
(* Everything stored about one run (Run, Job, RunAttempts, RunEvents,      *)
(* RunResult) is one row of `ledger', and the methods are row              *)
(* transformers.  A worker is reduced here to the leases it was ever       *)
(* given: any of them may be presented again at any later time, which is   *)
(* what paused, partitioned and crashed workers can do.  InvocationWorker  *)
(* adds the program a worker really runs.                                  *)
(***************************************************************************)
EXTENDS Target, Sequences, FiniteSets

CONSTANTS
    Runs,               \* run identifiers; a run is admitted at most once
    Workers,            \* worker identities (worker/main.py, worker_id)
    NoWorker,           \* the null lease owner
    MaxRunTime,         \* ExecutionLimits.max_run_seconds
    LeaseTime,          \* worker_lease_duration_seconds
    ArgumentRetention,  \* argument_retention_days
    ResultRetention,    \* result_retention_days
    RunRetention,       \* run_retention_days
    BatchSize,          \* reconciliation_batch_size and the cleanup batches
    MaxActiveRuns,      \* max_active_runs_per_workspace
    ClockLag,           \* bound: from a transaction's first clock read to its commit
    MaxClock,           \* bound: the last instant of the clock
    LastAdmission,      \* bound: the last instant a run is admitted
    MaxExecutionEpoch,  \* bound: restores
    MaxTargetEpoch,     \* bound: control and status epochs
    MaxEvents,          \* bound: events of a run after which cancels and resettling stop
    MaxTakeovers        \* bound: leases of a run after which a live one is not taken over

ASSUME RunsAssumption == IsFiniteSet(Runs)
ASSUME WorkersAssumption == NoWorker \notin Workers
ASSUME TimesAssumption ==
    /\ MaxRunTime \in Nat \ {0}
    /\ LeaseTime \in Nat \ {0}
    /\ ArgumentRetention \in Nat \ {0}
    /\ ResultRetention \in Nat \ {0}
    /\ RunRetention \in Nat
    /\ ClockLag \in Nat
ASSUME LimitsAssumption ==
    /\ BatchSize \in Nat \ {0}
    /\ MaxActiveRuns \in Nat \ {0}
ASSUME BoundsAssumption ==
    /\ MaxClock \in Nat \ {0}
    /\ LastAdmission \in Nat
    /\ MaxExecutionEpoch \in Nat
    /\ MaxTargetEpoch \in Nat
    /\ MaxEvents \in Nat
    /\ MaxTakeovers \in Nat

VARIABLES
    now,         \* the database clock (_durable_now)
    execution,   \* SystemExecutionState: the epoch and the quarantine flag
    ledger,      \* one row per run
    leases,      \* every JobLease claim_job ever returned
    revoked      \* history: runs whose target changed while they were active

vars == <<now, execution, ledger, leases, member, capability, connection, revoked>>
targetVars == <<member, capability, connection, revoked>>
-----------------------------------------------------------------------------
(* Statuses, failure codes and rows. *)

TerminalStatuses == {"succeeded", "failed", "cancelled", "timed_out", "indeterminate"}

UndispatchedStatuses == {"queued", "preparing", "session_fenced"}

ActiveStatuses == UndispatchedStatuses \cup {"dispatch_fenced"}

AttemptStatuses == {"preparing", "session_fenced", "dispatch_fenced"}

NoCode == "none"

ToolFailureCodes ==
    {"tool_call_failed", "invalid_tool_result", "unsupported_tool_result",
     "sensitive_tool_result"}

RunFailureCodes ==
    ToolFailureCodes \cup
    {"worker_lost_before_dispatch", "worker_lost_after_dispatch", "deadline_exceeded",
     "cancelled_before_dispatch", "restore_reconciliation", "content_retention_deadline",
     "preparation_failed", "session_initialization_failed", "upstream_outcome_unknown"}

RunEventTypes ==
    {"admitted", "attempt_started", "session_fenced", "dispatch_fenced", "lease_lost",
     "cancel_requested", "terminal", "content_expired", "restore_reconciled"}

NoTime == 0   \* the null timestamp: the clock starts at 1

Attempts == [leaseEpoch : Nat,
             status : AttemptStatuses \cup TerminalStatuses,
             safeErrorCode : RunFailureCodes \cup {NoCode}]

Events == [type : RunEventTypes, status : ActiveStatuses \cup TerminalStatuses]

Rows == [status : ActiveStatuses \cup TerminalStatuses \cup {"absent", "deleted"},
         cancellationRequested : BOOLEAN,
         safeErrorCode : RunFailureCodes \cup {NoCode},
         createdAt : Nat,
         deadline : Nat,
         arguments : BOOLEAN,          \* the argument payload is retained
         terminalAt : Nat,
         controlEpoch : Nat,           \* connection_control_epoch pinned at admission
         statusEpoch : Nat,            \* capability_status_epoch pinned at admission
         jobStatus : {"none", "queued", "leased"} \cup TerminalStatuses,
         executionEpoch : Nat,
         leaseOwner : Workers \cup {NoWorker},
         leaseEpoch : Nat,
         leaseExpiresAt : Nat,
         staleReads : SUBSET Nat,      \* history: clock reads of polls that may see the
                                       \* job as it was before this lease or its renewal
         attempts : Seq(Attempts),
         events : Seq(Events),
         resultExpiresAt : Nat]

JobLease == [run : Runs, worker : Workers, leaseEpoch : Nat, executionEpoch : Nat]

\* No run of this identity: before its admission, or after its deletion.
NoRow(s) ==
    [status |-> s, cancellationRequested |-> FALSE, safeErrorCode |-> NoCode,
     createdAt |-> NoTime, deadline |-> NoTime, arguments |-> FALSE,
     terminalAt |-> NoTime, controlEpoch |-> 0, statusEpoch |-> 0,
     jobStatus |-> "none", executionEpoch |-> 0, leaseOwner |-> NoWorker,
     leaseEpoch |-> 0, leaseExpiresAt |-> NoTime, staleReads |-> {},
     attempts |-> << >>, events |-> << >>, resultExpiresAt |-> NoTime]

TypeOK ==
    /\ now \in 1 .. MaxClock
    /\ execution \in [epoch : Nat, quarantined : BOOLEAN]
    /\ ledger \in [Runs -> Rows]
    /\ leases \subseteq JobLease
    /\ TargetTypeOK
    /\ revoked \subseteq Runs
-----------------------------------------------------------------------------
(* Helpers. *)

Active(x) == x.status \in ActiveStatuses

Terminal(x) == x.status \in TerminalStatuses

ActiveRuns == {r \in Runs : Active(ledger[r])}

Earlier(a, b) == IF a <= b THEN a ELSE b

\* SELECT ... ORDER BY key LIMIT BatchSize over the candidate rows S.
Batches(S, key) ==
    {B \in SUBSET S :
        /\ Cardinality(B) = Earlier(BatchSize, Cardinality(S))
        /\ \A b \in B, s \in S \ B : key[b] <= key[s]}

\* _active_attempt: the latest attempt in an active status, if there is one.
ActiveAttempt(x) ==
    {i \in DOMAIN x.attempts :
        /\ x.attempts[i].status \in AttemptStatuses
        /\ \A j \in DOMAIN x.attempts : j > i => x.attempts[j].status \notin AttemptStatuses}

MoveAttempt(x, s, code) ==
    [i \in DOMAIN x.attempts |->
        IF i \in ActiveAttempt(x)
        THEN [x.attempts[i] EXCEPT !.status = s, !.safeErrorCode = code]
        ELSE x.attempts[i]]

\* Mutant: the event's fields are swapped.
AppendNextEvent_Swapped(x, type, s) == Append(x.events, [type |-> s, status |-> type])

AppendNextEvent(x, type, s) == Append(x.events, [type |-> type, status |-> s])

\* _terminalize_run: close the run, its job and its active attempt, and record it.
TerminalizeRun(x, s, at, code, type) ==
    [x EXCEPT !.status = s, !.safeErrorCode = code, !.terminalAt = at,
              !.jobStatus = s, !.leaseOwner = NoWorker, !.leaseExpiresAt = NoTime,
              !.staleReads = {},
              !.attempts = MoveAttempt(x, s, code),
              !.events = AppendNextEvent(x, type, s)]

\* Mutant: a deadline is always a timeout.
TimeoutStatus_Always(x) == "timed_out"

\* A run whose time is up is timed out, unless its tool call may have been sent.
TimeoutStatus(x) == IF x.status = "dispatch_fenced" THEN "indeterminate" ELSE "timed_out"

ExpireDeadline(x, at) ==
    TerminalizeRun(x, TimeoutStatus(x), at, "deadline_exceeded", "terminal")

\* Mutant: the pinned epochs are not compared.
TargetIsCurrent_AnyEpoch(x) == member /\ capability.enabled /\ connection.lifecycle = "active"

\* _claim_target_is_current, and the same conjuncts of _fence_attempt: the
\* configuration the run pinned is the one in force, and its actor may still act.
TargetIsCurrent(x) ==
    /\ member
    /\ capability.enabled
    /\ capability.statusEpoch = x.statusEpoch
    /\ connection.lifecycle = "active"
    /\ connection.controlEpoch = x.controlEpoch

\* The lease checks that heartbeat, _fence_attempt and complete_lease share.
LeaseHeld(l) ==
    LET x == ledger[l.run] IN
    /\ execution.epoch = l.executionEpoch
    /\ x.jobStatus = "leased"
    /\ x.leaseOwner = l.worker
    /\ x.leaseEpoch = l.leaseEpoch

\* Mutant: the execution state is not consulted.
LeaseUsable_AnyEpoch(l) ==
    LET x == ledger[l.run] IN
    /\ x.jobStatus = "leased" /\ x.leaseOwner = l.worker /\ x.leaseEpoch = l.leaseEpoch
    /\ now < x.leaseExpiresAt
    /\ now < x.deadline

LeaseUsable(l) ==
    /\ ~execution.quarantined
    /\ LeaseHeld(l)
    /\ now < ledger[l.run].leaseExpiresAt
    /\ now < ledger[l.run].deadline
    /\ ~Terminal(ledger[l.run])
-----------------------------------------------------------------------------
(* Admission and cancellation, on behalf of users. *)

\* The run, job and first event that create_run inserts.
AdmittedRow(deadline) ==
    [NoRow("queued") EXCEPT
        !.createdAt = now, !.deadline = deadline, !.arguments = TRUE,
        !.controlEpoch = connection.controlEpoch, !.statusEpoch = capability.statusEpoch,
        !.jobStatus = "queued", !.executionEpoch = execution.epoch,
        !.events = <<[type |-> "admitted", status |-> "queued"]>>]

\* create_run, for a request whose confirmation and idempotency key are fresh: the
\* tokens, nonces and replays of create_run are not part of this module.
CreateRun(r, deadline) ==
    /\ ledger[r].status = "absent"
    /\ now <= LastAdmission
    /\ member
    /\ now < deadline /\ deadline <= now + MaxRunTime
    /\ capability.enabled
    /\ connection.lifecycle = "active"
    /\ ~execution.quarantined
    /\ Cardinality(ActiveRuns) < MaxActiveRuns
    /\ ledger' = [ledger EXCEPT ![r] = AdmittedRow(deadline)]
    /\ UNCHANGED <<now, execution, leases, targetVars>>

\* Mutant: a dispatched run is cancelled like any other.
CancelledRow_Dispatched(x) ==
    TerminalizeRun([x EXCEPT !.cancellationRequested = TRUE], "cancelled", now,
                   "cancelled_before_dispatch", "cancel_requested")

\* cancel_run, by any current operator of the workspace.
CancelledRow(x) ==
    LET y == [x EXCEPT !.cancellationRequested = TRUE] IN
    IF x.deadline <= now
    THEN ExpireDeadline(y, now)
    ELSE IF x.status \in UndispatchedStatuses
    THEN TerminalizeRun(y, "cancelled", now, "cancelled_before_dispatch", "cancel_requested")
    ELSE [y EXCEPT !.events = AppendNextEvent(y, "cancel_requested", y.status)]

CancelRun(r) ==
    /\ Active(ledger[r])
    /\ Len(ledger[r].events) < MaxEvents
    /\ ledger' = [ledger EXCEPT ![r] = CancelledRow(@)]
    /\ UNCHANGED <<now, execution, leases, targetVars>>
-----------------------------------------------------------------------------
(* Polling: claim_job reconciles overdue runs, then leases the oldest job.      *)
(* Each of its three statements puts its conditions on the job of its snapshot, *)
(* taken at or after the poll's clock read t, and locks only the run.           *)

\* A version replaced at x's latest change is seen by a poll that read the clock before
\* the change committed.
StillSeen(changedAt, t) == t <= changedAt + ClockLag

\* The lease of x replaces one, or a free job, that a poll may claim or give up from the
\* instant `from' on: the polls that will not see the change.
StaleReads(x, from) ==
    {t \in x.staleReads \cup (from .. now + ClockLag) : now <= t + ClockLag}

\* A run found unsettled although it was just settled.  The trigger rejects any other
\* outcome than the one it has, and the poll is rolled back.
SettledUnseen(x, t) ==
    /\ x.status = "timed_out" /\ StillSeen(x.terminalAt, t)
    /\ Len(x.events) < MaxEvents

\* The lease ran out, or the statement saw one that did.
Lapsed(x, t) ==
    /\ x.jobStatus = "leased"
    /\ x.leaseExpiresAt <= t \/ t \in x.staleReads

\* Mutant: settled jobs are not filtered out.
Overdue_Settled(t) == {r \in Runs : ledger[r].jobStatus # "none" /\ ledger[r].deadline <= t}

\* _terminalize_expired_jobs: rows whose deadline passed, whatever their epoch.
Overdue(t) ==
    {r \in Runs : /\ ledger[r].deadline <= t
                  /\ \/ ledger[r].jobStatus \in {"queued", "leased"}
                     \/ SettledUnseen(ledger[r], t)}

\* Mutant: a dispatched run is given up while its lease is live.
Abandoned_Early(t) == {r \in Runs : ledger[r].status = "dispatch_fenced"}

\* _terminalize_abandoned_dispatches: the lease ran out after the dispatch fence.
Abandoned(t) ==
    {r \in Runs : ledger[r].status = "dispatch_fenced" /\ Lapsed(ledger[r], t)}

\* Mutant: a run past the dispatch fence is claimed again when its lease expires.
Claimable_Dispatched(t) ==
    {r \in Runs : /\ ledger[r].executionEpoch = execution.epoch
                  /\ t < ledger[r].deadline
                  /\ ledger[r].jobStatus = "queued" \/ Lapsed(ledger[r], t)}

Claimable(t) ==
    {r \in Runs : /\ ledger[r].executionEpoch = execution.epoch
                  /\ ledger[r].createdAt <= t
                  /\ t < ledger[r].deadline
                  /\ ledger[r].status \in UndispatchedStatuses
                  /\ ledger[r].jobStatus = "queued" \/ Lapsed(ledger[r], t)
                  /\ ledger[r].leaseExpiresAt <= t \/ ledger[r].leaseEpoch <= MaxTakeovers}

\* Mutant: the previous attempt is left open.
LoseLease_Open(x) == x

\* The previous holder is recorded as lost, whether or not its lease has expired: the
\* job is read again under the run's lock, but only for its status.
LoseLease(x) ==
    IF x.jobStatus = "leased" /\ ActiveAttempt(x) # {}
    THEN [x EXCEPT !.attempts = MoveAttempt(x, "failed", "worker_lost_before_dispatch"),
                   !.events = AppendNextEvent(x, "lease_lost", x.status)]
    ELSE x

LeaseRow(x, w) ==
    LET y == LoseLease(x) IN
    [y EXCEPT !.jobStatus = "leased", !.leaseOwner = w, !.leaseEpoch = @ + 1,
              !.leaseExpiresAt = Earlier(now + LeaseTime, y.deadline),
              !.staleReads = StaleReads(y, IF y.jobStatus = "queued" THEN y.createdAt
                                           ELSE y.leaseExpiresAt),
              !.attempts = Append(@, [leaseEpoch |-> y.leaseEpoch + 1,
                                      status |-> "preparing", safeErrorCode |-> NoCode]),
              !.status = "preparing",
              !.events = AppendNextEvent(y, "attempt_started", "preparing")]

\* The selected row once its locks are held and the clock is read again.
ClaimRow(x, w) ==
    IF x.deadline <= now THEN ExpireDeadline(x, now)
    ELSE IF ~TargetIsCurrent(x)
    THEN TerminalizeRun(x, "failed", now, "preparation_failed", "terminal")
    ELSE LeaseRow(x, w)

Leasable(r) == now < ledger[r].deadline /\ TargetIsCurrent(ledger[r])

\* A row after the reconciliation that opens every poll.
Reconciled(r, t, expired, abandoned) ==
    IF r \in expired THEN ExpireDeadline(ledger[r], t)
    ELSE IF r \in abandoned
    THEN TerminalizeRun(ledger[r], "indeterminate", t, "worker_lost_after_dispatch", "terminal")
    ELSE ledger[r]

Oldest(S) == {r \in S : \A q \in S : ledger[r].createdAt <= ledger[q].createdAt}

\* The JobLease that claim_job returns for the run it selected, if it leased it.
LeaseOf(c, w) ==
    IF Leasable(c)
    THEN {[run |-> c, worker |-> w, leaseEpoch |-> ledger[c].leaseEpoch + 1,
           executionEpoch |-> ledger[c].executionEpoch]}
    ELSE {}

\* t is the clock read that opens the transaction; skipped are the rows another
\* transaction holds locked (SKIP LOCKED), and those whose latest change was seen.
ClaimJob(w, t, skipped) ==
    /\ ~execution.quarantined
    /\ \E expired \in Batches(Overdue(t) \ skipped, [r \in Runs |-> ledger[r].deadline]) :
       \E abandoned \in Batches((Abandoned(t) \ expired) \ skipped,
                                [r \in Runs |-> ledger[r].leaseExpiresAt]) :
         \/ /\ Claimable(t) \subseteq skipped
            /\ ledger' = [r \in Runs |-> Reconciled(r, t, expired, abandoned)]
            /\ UNCHANGED leases
         \/ \E c \in Oldest(Claimable(t) \ skipped) :
              /\ ledger' = [r \in Runs |-> IF r = c THEN ClaimRow(ledger[r], w)
                                           ELSE Reconciled(r, t, expired, abandoned)]
              /\ leases' = leases \cup LeaseOf(c, w)
    /\ UNCHANGED <<now, execution, targetVars>>
-----------------------------------------------------------------------------
(* What the holder of a lease may do. *)

\* Mutant: a heartbeat extends the lease past the deadline.
RenewRow_PastDeadline(x) == [x EXCEPT !.leaseExpiresAt = now + LeaseTime]

RenewRow(x) ==
    [x EXCEPT !.leaseExpiresAt = Earlier(now + LeaseTime, x.deadline),
              !.staleReads = StaleReads(x, x.leaseExpiresAt)]

Heartbeat(l) ==
    /\ LeaseUsable(l)
    /\ ledger' = [ledger EXCEPT ![l.run] = RenewRow(@)]
    /\ UNCHANGED <<now, execution, leases, targetVars>>

\* _fence_attempt moves the run and its active attempt from one status to the next.
FenceAccepted(l, expected) ==
    LET x == ledger[l.run] IN
    /\ LeaseUsable(l)
    /\ x.executionEpoch = l.executionEpoch
    /\ ~x.cancellationRequested
    /\ x.status = expected
    /\ TargetIsCurrent(x)
    /\ \E i \in ActiveAttempt(x) :
          x.attempts[i].leaseEpoch = l.leaseEpoch /\ x.attempts[i].status = expected

\* Mutant: the event records the status the run leaves.
FenceRow_OldStatus(x, target) ==
    [x EXCEPT !.status = target,
              !.attempts = MoveAttempt(x, target, NoCode),
              !.events = AppendNextEvent(x, target, x.status)]

\* A poll that missed the dispatch fence does not find the run: its statements want
\* either a run before the fence or one after it, and check that again under the lock.
FenceRow(x, target) ==
    [x EXCEPT !.status = target,
              !.staleReads = IF target = "dispatch_fenced" THEN {} ELSE @,
              !.attempts = MoveAttempt(x, target, NoCode),
              !.events = AppendNextEvent(x, target, target)]

\* fence_session; the invocation runner renews the lease in the same transaction.
FenceSession(l, renew) ==
    /\ FenceAccepted(l, "preparing")
    /\ ledger' = [ledger EXCEPT ![l.run] =
                    FenceRow(IF renew THEN RenewRow(@) ELSE @, "session_fenced")]
    /\ UNCHANGED <<now, execution, leases, targetVars>>

FenceDispatch(l) ==
    /\ FenceAccepted(l, "session_fenced")
    /\ ledger' = [ledger EXCEPT ![l.run] = FenceRow(@, "dispatch_fenced")]
    /\ UNCHANGED <<now, execution, leases, targetVars>>

\* _valid_worker_completion
ValidWorkerCompletion(x, s, code) ==
    \/ /\ s = "succeeded" /\ code = NoCode
       /\ x.status = "dispatch_fenced"
    \/ /\ s = "failed"
       /\ \/ x.status = "preparing" /\ code = "preparation_failed"
          \/ x.status = "session_fenced" /\ code = "session_initialization_failed"
          \/ x.status = "dispatch_fenced" /\ code \in ToolFailureCodes
    \/ /\ s = "cancelled" /\ code = "cancelled_before_dispatch"
       /\ x.cancellationRequested
       /\ x.status \in {"preparing", "session_fenced"}
    \/ /\ s = "indeterminate" /\ code = "upstream_outcome_unknown"
       /\ x.status = "dispatch_fenced"

\* complete_lease accepts the outcome only before the deadline and under a live lease.
CompletionAccepted(l, s, code) ==
    LET x == ledger[l.run] IN
    /\ LeaseHeld(l)
    /\ ~Terminal(x)
    /\ now < x.deadline
    /\ now < x.leaseExpiresAt
    /\ \E i \in ActiveAttempt(x) :
          x.attempts[i].leaseEpoch = l.leaseEpoch /\ x.attempts[i].status = x.status
    /\ ValidWorkerCompletion(x, s, code)

\* A success stores its accepted result in the same transaction.
CompleteRow(x, s, code) ==
    [TerminalizeRun(x, s, now, code, "terminal") EXCEPT
        !.resultExpiresAt = IF s = "succeeded" THEN now + ResultRetention ELSE @]

CompleteLease(l, s, code) ==
    /\ CompletionAccepted(l, s, code)
    /\ ledger' = [ledger EXCEPT ![l.run] = CompleteRow(@, s, code)]
    /\ UNCHANGED <<now, execution, leases, targetVars>>

\* complete_lease after the deadline records the deadline, not the outcome.
CompleteLate(l) ==
    /\ LeaseHeld(l)
    /\ ~Terminal(ledger[l.run])
    /\ ledger[l.run].deadline <= now
    /\ ledger' = [ledger EXCEPT ![l.run] = ExpireDeadline(@, now)]
    /\ UNCHANGED <<now, execution, leases, targetVars>>
-----------------------------------------------------------------------------
(* Restore: quarantine, reconciliation, release. *)

EnterRestoreQuarantine ==
    /\ execution.epoch < MaxExecutionEpoch
    /\ execution' = [epoch |-> execution.epoch + 1, quarantined |-> TRUE]
    /\ UNCHANGED <<now, ledger, leases, targetVars>>

\* Mutant: a restore cancels dispatched runs too.
ReconcileRow_Cancel(x) ==
    TerminalizeRun(x, "cancelled", now, "restore_reconciliation", "restore_reconciled")

ReconcileRow(x) ==
    TerminalizeRun(x, IF x.status = "dispatch_fenced" THEN "indeterminate" ELSE "cancelled",
                   now, "restore_reconciliation", "restore_reconciled")

ReconcileRestoreQuarantine(skipped) ==
    /\ execution.quarantined
    /\ \E batch \in Batches(ActiveRuns \ skipped, [r \in Runs |-> ledger[r].createdAt]) :
         /\ batch # {}
         /\ ledger' = [r \in Runs |-> IF r \in batch THEN ReconcileRow(ledger[r]) ELSE ledger[r]]
    /\ UNCHANGED <<now, execution, leases, targetVars>>

\* Mutant: the quarantine is lifted before every run is reconciled.
ClearRestoreQuarantine_Early ==
    /\ execution.quarantined
    /\ execution' = [execution EXCEPT !.quarantined = FALSE]
    /\ UNCHANGED <<now, ledger, leases, targetVars>>

ClearRestoreQuarantine ==
    /\ execution.quarantined
    /\ ActiveRuns = {}
    /\ execution' = [execution EXCEPT !.quarantined = FALSE]
    /\ UNCHANGED <<now, ledger, leases, targetVars>>
-----------------------------------------------------------------------------
(* Retention, run by every worker's maintenance loop. *)

\* Mutant: an active run loses its arguments and stays active.
ExpireContentRow_Active(x) ==
    [x EXCEPT !.events = AppendNextEvent(x, "content_expired", x.status), !.arguments = FALSE]

ExpireContentRow(x) ==
    LET y == IF Terminal(x)
             THEN [x EXCEPT !.events = AppendNextEvent(x, "content_expired", x.status)]
             ELSE TerminalizeRun(x, TimeoutStatus(x), now, "content_retention_deadline",
                                 "content_expired")
    IN [y EXCEPT !.arguments = FALSE]

\* Mutant: the arguments of settled runs are never purged.
ExpireRetainedContent_Active(skipped) ==
    /\ \E r \in ActiveRuns \ skipped :
         /\ ledger[r].createdAt + ArgumentRetention <= now
         /\ ledger' = [ledger EXCEPT ![r] = ExpireContentRow(@)]
    /\ UNCHANGED <<now, execution, leases, targetVars>>

ExpireRetainedContent(skipped) ==
    /\ \E batch \in Batches({r \in Runs : /\ ledger[r].arguments
                                           /\ ledger[r].createdAt + ArgumentRetention <= now}
                              \ skipped, [r \in Runs |-> ledger[r].createdAt]) :
         /\ batch # {}
         /\ ledger' = [r \in Runs |->
                          IF r \in batch THEN ExpireContentRow(ledger[r]) ELSE ledger[r]]
    /\ UNCHANGED <<now, execution, leases, targetVars>>

ExpireRetainedResults(skipped) ==
    /\ \E batch \in Batches({r \in Runs : /\ ledger[r].resultExpiresAt # NoTime
                                           /\ ledger[r].resultExpiresAt <= now}
                              \ skipped, [r \in Runs |-> ledger[r].resultExpiresAt]) :
         /\ batch # {}
         /\ ledger' = [r \in Runs |->
                          IF r \in batch THEN [ledger[r] EXCEPT !.resultExpiresAt = NoTime]
                          ELSE ledger[r]]
    /\ UNCHANGED <<now, execution, leases, targetVars>>

\* Mutant: the retention limit is off by one.
DeleteExpiredRunMetadata_Late(skipped) ==
    /\ \E r \in Runs \ skipped :
         /\ Terminal(ledger[r]) /\ ledger[r].terminalAt + RunRetention < now
         /\ ledger' = [ledger EXCEPT ![r] = NoRow("deleted")]
    /\ UNCHANGED <<now, execution, leases, targetVars>>

\* Deleting a run cascades to its job, attempts, events, nonces and result.
DeleteExpiredRunMetadata(skipped) ==
    /\ \E batch \in Batches({r \in Runs : /\ ledger[r].terminalAt # NoTime
                                           /\ ledger[r].terminalAt + RunRetention <= now}
                              \ skipped, [r \in Runs |-> ledger[r].terminalAt]) :
         /\ batch # {}
         /\ ledger' = [r \in Runs |-> IF r \in batch THEN NoRow("deleted") ELSE ledger[r]]
    /\ UNCHANGED <<now, execution, leases, targetVars>>
-----------------------------------------------------------------------------
(* The rest of the control plane, as far as the fences read it. *)

\* A step of the target withdraws the runs that are active when an epoch changes.
TargetStep ==
    /\ TargetNext
    /\ capability'.statusEpoch <= MaxTargetEpoch
    /\ connection'.controlEpoch <= MaxTargetEpoch
    /\ revoked' = IF /\ capability'.statusEpoch = capability.statusEpoch
                     /\ connection'.controlEpoch = connection.controlEpoch
                  THEN revoked ELSE revoked \cup ActiveRuns
    /\ UNCHANGED <<now, execution, ledger, leases>>

Tick ==
    /\ now < MaxClock
    /\ now' = now + 1
    /\ UNCHANGED <<execution, ledger, leases, targetVars>>
-----------------------------------------------------------------------------
Init ==
    /\ now = 1
    /\ execution = [epoch |-> 1, quarantined |-> FALSE]
    /\ ledger = [r \in Runs |-> NoRow("absent")]
    /\ leases = {}
    /\ member = TRUE
    /\ capability = [enabled |-> TRUE, statusEpoch |-> 1]
    /\ connection = [lifecycle |-> "active", controlEpoch |-> 1]
    /\ revoked = {}

ClockReads == {t \in 1 .. now : now <= t + ClockLag}

LeaseStep(l) ==
    \/ Heartbeat(l)
    \/ \E renew \in BOOLEAN : FenceSession(l, renew)
    \/ FenceDispatch(l)
    \/ \E s \in TerminalStatuses, code \in RunFailureCodes \cup {NoCode} :
          CompleteLease(l, s, code)
    \/ CompleteLate(l)

RestoreStep ==
    \/ EnterRestoreQuarantine
    \/ \E skipped \in SUBSET Runs : ReconcileRestoreQuarantine(skipped)
    \/ ClearRestoreQuarantine

MaintenanceStep ==
    \E skipped \in SUBSET Runs :
        \/ ExpireRetainedContent(skipped)
        \/ ExpireRetainedResults(skipped)
        \/ DeleteExpiredRunMetadata(skipped)

Next ==
    \/ \E r \in Runs, d \in 1 .. MaxClock + MaxRunTime : CreateRun(r, d)
    \/ \E r \in Runs : CancelRun(r)
    \/ \E w \in Workers, t \in ClockReads, skipped \in SUBSET Runs : ClaimJob(w, t, skipped)
    \/ \E l \in leases : LeaseStep(l)
    \/ RestoreStep
    \/ MaintenanceStep
    \/ TargetStep
    \/ Tick

Spec == Init /\ [][Next]_vars
-----------------------------------------------------------------------------
(* What makes the ledger correct. *)

Dispatches(x) == {i \in DOMAIN x.events : x.events[i].type = "dispatch_fenced"}

LastOf(seq) == seq[Len(seq)]

\* One row: the run, its job and its attempts agree.
RowProjections(x) ==
    /\ x.jobStatus = "queued" <=> x.status = "queued"
    /\ x.jobStatus = "leased" <=> x.status \in AttemptStatuses
    /\ Terminal(x) => x.jobStatus = x.status
    /\ Len(x.attempts) = x.leaseEpoch
    /\ x.jobStatus = "leased" => x.leaseEpoch > 0
    /\ \A i \in DOMAIN x.attempts :
         /\ x.attempts[i].leaseEpoch = i
         /\ i < Len(x.attempts) => x.attempts[i].status = "failed"
         /\ i = Len(x.attempts) => x.attempts[i].status = x.status

RowLease(x) ==
    IF x.jobStatus = "leased"
    THEN x.leaseOwner # NoWorker /\ x.leaseExpiresAt \in 1 .. x.deadline
    ELSE x.leaseOwner = NoWorker /\ x.leaseExpiresAt = NoTime

RowReplay(x) ==
    Active(x) \/ Terminal(x) => x.events # << >> /\ LastOf(x.events).status = x.status

RowOneDispatch(x) == \A i, j \in Dispatches(x) : i = j

RowHonest(x) ==
    Dispatches(x) # {} <=>
        \/ x.status \in {"dispatch_fenced", "succeeded", "indeterminate"}
        \/ x.status = "failed" /\ x.safeErrorCode \in ToolFailureCodes

RowContent(x) ==
    /\ Active(x) => x.arguments
    /\ x.arguments => Active(x) \/ Terminal(x)
    /\ x.resultExpiresAt # NoTime => x.status = "succeeded"
    /\ x.terminalAt # NoTime <=> Terminal(x)

\* The run, its job, its attempts, its lease, its history and its content never
\* disagree, whatever interleaving of polls, leases, cancellations, restores and
\* cleanups wrote them.  A job is leased exactly while its run is between preparing and
\* the dispatch fence, with one attempt per lease epoch of which only the latest is
\* active (claim_job, _fence_attempt, _terminalize_run, uq_run_attempts_active); a lease
\* ends no later than the deadline (claim_job, heartbeat); replay_projection over the
\* events gives the stored status; an active run still has its arguments, only a success
\* has a result, and retention starts to run when a run is settled.
ProjectionsAgree ==
    \A r \in Runs :
        /\ RowProjections(ledger[r]) /\ RowLease(ledger[r])
        /\ RowReplay(ledger[r]) /\ RowContent(ledger[r])

\* Each run crosses the dispatch fence at most once, over all its attempts, workers
\* and restores; fence_dispatch is what permits the one tool call.
AtMostOneDispatch == \A r \in Runs : RowOneDispatch(ledger[r])

\* The recorded outcome never denies a dispatch that may have happened, nor claims
\* one that did not: a run that crossed the fence ends succeeded, indeterminate or
\* failed with a tool-level code, and one that did not never ends that way.
HonestOutcome == \A r \in Runs : RowHonest(ledger[r])

\* Outside quarantine every active run belongs to the current execution epoch: no
\* job of a restored database survives clear_restore_quarantine.
RestoreReconciled ==
    ~execution.quarantined =>
        \A r \in ActiveRuns : ledger[r].executionEpoch = execution.epoch

\* A second settlement by a poll that missed the first.
RowResettled(x, y) ==
    /\ x.status = "timed_out" /\ y.safeErrorCode = "deadline_exceeded"
    /\ x.deadline <= y.terminalAt /\ y.terminalAt <= x.terminalAt + ClockLag
    /\ y.events = Append(x.events, [type |-> "terminal", status |-> "timed_out"])

\* One step of one row: a settled row keeps its outcome or is deleted.
RowFinal(x, y) ==
    /\ Terminal(x) =>
         \/ /\ y.status = x.status /\ y.jobStatus = x.jobStatus /\ y.attempts = x.attempts
            /\ y.resultExpiresAt \in {x.resultExpiresAt, NoTime}
            /\ \/ y.safeErrorCode = x.safeErrorCode /\ y.terminalAt = x.terminalAt
               \/ RowResettled(x, y)
         \/ y.status = "deleted"
    /\ x.status = "deleted" => y = x

\* A settled run never changes its status, job or attempts again, and a deleted one
\* never comes back (_reject_terminal_status_update).  Its code and the time it was
\* settled stand too, but for a run that was timed out: a poll whose statement missed the
\* settlement records it once more, as a deadline that had passed, at a clock read no
\* later than the first settlement's commit (_terminalize_expired_jobs).
TerminalIsFinal == [][\A r \in Runs : RowFinal(ledger[r], ledger'[r])]_vars

\* Withdrawn work stops.  Disabling, re-enabling or re-versioning the target of a run
\* while it is active withdraws it for good: it never crosses a fence afterwards, even
\* when the target is back in the state it was admitted under (control_epoch and
\* status_epoch).  And in quarantine, or under an execution epoch older than the current
\* one, no fence is crossed and no lease given or renewed: restored work never reaches
\* upstream (LeaseUsable's and claim_job's execution state).
NoFenceAfterRevocation ==
    [][/\ \A r \in revoked :
            ledger'[r].status \in {"session_fenced", "dispatch_fenced"} =>
                ledger'[r].status = ledger[r].status
       /\ \A r \in Runs : LET x == ledger[r] y == ledger'[r] IN
            (execution.quarantined \/ x.executionEpoch < execution.epoch) /\ Active(x) =>
                /\ y.leaseEpoch = x.leaseEpoch
                /\ y.leaseExpiresAt \in {x.leaseExpiresAt, NoTime}
                /\ y.status \in {x.status} \cup TerminalStatuses \cup {"deleted"}]_vars

\* The phase of a run, as its owner may know it.
Phase(x) ==
    CASE x.status \in UndispatchedStatuses -> "waiting"
      [] x.status = "dispatch_fenced" -> "dispatched"
      [] x.status = "failed" -> IF x.safeErrorCode \in ToolFailureCodes
                                THEN "failed_after_dispatch" ELSE "failed_before_dispatch"
      [] OTHER -> x.status

Lifecycle == INSTANCE RunLifecycle WITH phase <- [r \in Runs |-> Phase(ledger[r])]

\* The ledger implements the abstract lifecycle: no interleaving of its operations
\* shows a run anything but admission, one dispatch, one outcome and deletion.
ImplementsLifecycle == Lifecycle!Spec
-----------------------------------------------------------------------------
(* Liveness.  Workers poll and run maintenance for ever, and a row lock is held  *)
(* only for the length of a transaction, so polls and cleanups that skip no row  *)
(* and miss no change keep happening.  Nothing is assumed of lease holders, users or operators of a *)
(* restore.                                                                      *)

\* The rows a poll at this instant would find only by missing their latest change.
Unseen ==
    {r \in Runs : LET x == ledger[r] IN
        \/ SettledUnseen(x, now)
        \/ x.jobStatus = "leased" /\ now < x.leaseExpiresAt /\ now < x.deadline}

FreshPoll(w) == ClaimJob(w, now, Unseen)

Fairness ==
    /\ WF_vars(Tick)
    /\ WF_vars(\E w \in Workers : FreshPoll(w))
    /\ WF_vars(ExpireRetainedContent({}))
    /\ WF_vars(ExpireRetainedResults({}))
    /\ WF_vars(DeleteExpiredRunMetadata({}))

\* Every admitted run is settled, even when all its workers are lost and even in a
\* quarantine nobody reconciles (then by the content retention deadline).
EveryRunSettles == \A r \in Runs : Active(ledger[r]) ~> ~Active(ledger[r])

\* Nothing is kept for ever: arguments and results are purged (the retention limits), and
\* the record of a settled run is deleted, if the bounded clock gets that far.
EveryRunIsForgotten ==
    \A r \in Runs :
        /\ (ledger[r].arguments \/ ledger[r].resultExpiresAt # NoTime) ~>
              (~ledger[r].arguments /\ ledger[r].resultExpiresAt = NoTime)
        /\ Terminal(ledger[r]) ~>
              ledger[r].status = "deleted" \/ ledger[r].terminalAt + RunRetention > MaxClock
=============================================================================
