--------------------------- MODULE InvocationWorker ---------------------------
(***************************************************************************)
(* The program a worker runs over the ledger: worker/main.py's polling     *)
(* loop, InvocationRunner (execution/runner.py) and the invoke method of   *)
(* the MCP adapter (mcp_adapter/client.py).  A worker handles one lease at *)
(* a time; each of its database transactions is an action, and between two *)
(* of them the clock, other workers, users and operators may act, or the   *)
(* worker may die.  `calls' and `answers' record what really happened at   *)
(* the upstream server, which no row of the ledger can see.                *)
(***************************************************************************)
EXTENDS RunLedger

VARIABLES
    worker,   \* where each worker is, the lease it holds, the outcome it will record
    calls,    \* per run: tool calls that left for the upstream server
    answers   \* per run: the definitive answer the worker received, or NoAnswer

workerVars == <<worker, calls, answers>>
allVars == <<vars, workerVars>>

NoAnswer == "none"
NoLease == [run |-> "none"]
NoOutcome == [status |-> "none", code |-> NoCode]

Outcomes == {[status |-> "succeeded", code |-> NoCode],
             [status |-> "indeterminate", code |-> "upstream_outcome_unknown"]}
            \cup [status : {"failed"},
                  code : ToolFailureCodes \cup
                         {"preparation_failed", "session_initialization_failed"}]

Idle == [pc |-> "idle", lease |-> NoLease, outcome |-> NoOutcome]

WorkerTypeOK ==
    /\ worker \in [Workers ->
         [pc : {"idle", "loading", "preparing", "session", "dispatching", "waiting",
                "renewing", "completing"},
          lease : leases \cup {NoLease},
          outcome : Outcomes \cup {NoOutcome}]]
    /\ \A w \in Workers : worker[w].pc = "idle" <=> worker[w].lease = NoLease
    /\ calls \in [Runs -> Nat]
    /\ answers \in [Runs -> {NoAnswer, "succeeded"} \cup ToolFailureCodes]
-----------------------------------------------------------------------------
At(w, pc) == worker[w].pc = pc

Go(w, pc) == worker' = [worker EXCEPT ![w].pc = pc]

Return(w) == worker' = [worker EXCEPT ![w] = Idle]

\* The runner has an outcome to record: it renews the lease first.
Report(w, status, code) ==
    worker' = [worker EXCEPT ![w].pc = "renewing",
                             ![w].outcome = [status |-> status, code |-> code]]

\* claim_and_run: the claim commits before the lease is used.
Poll(w, t, skipped) ==
    /\ At(w, "idle")
    /\ ClaimJob(w, t, skipped)
    /\ worker' = IF leases' = leases THEN worker
                 ELSE [worker EXCEPT ![w] =
                        [pc |-> "loading", lease |-> CHOOSE l \in leases' \ leases : TRUE,
                         outcome |-> NoOutcome]]
    /\ UNCHANGED <<calls, answers>>

\* _load_target, the secret and the adapter: without arguments there is no target;
\* a missing secret, an unknown policy or an unusable credential also end here.
LoadTarget(w) ==
    /\ At(w, "loading")
    /\ \/ ledger[worker[w].lease.run].arguments /\ Go(w, "preparing")
       \/ Report(w, "failed", "preparation_failed")
    /\ UNCHANGED <<vars, calls, answers>>

\* before_session: heartbeat and fence_session in one transaction.  A rejected fence
\* leaves the run as it is; a database error, before or after the commit took
\* effect, is reported as a session failure.
FenceSessionStep(w) ==
    LET l == worker[w].lease IN
    /\ At(w, "preparing")
    /\ \/ FenceSession(l, TRUE) /\ Go(w, "session")
       \/ FenceSession(l, TRUE) /\ Report(w, "failed", "session_initialization_failed")
       \/ UNCHANGED vars /\ Report(w, "failed", "session_initialization_failed")
       \/ ~FenceAccepted(l, "preparing") /\ UNCHANGED vars /\ Return(w)
    /\ UNCHANGED <<calls, answers>>

\* The endpoint is refused, initialisation fails or its time runs out.
SessionFails(w) ==
    /\ At(w, "session")
    /\ Report(w, "failed", "session_initialization_failed")
    /\ UNCHANGED <<vars, calls, answers>>

\* Mutant: a rejected dispatch fence does not stop the call.
FenceDispatchStep_Ignored(w) ==
    /\ At(w, "session")
    /\ \/ FenceDispatch(worker[w].lease)
       \/ ~FenceAccepted(worker[w].lease, "session_fenced") /\ UNCHANGED vars
    /\ Go(w, "dispatching")
    /\ UNCHANGED <<calls, answers>>

\* before_dispatch: fence_dispatch commits before `dispatched' is set, so a timeout
\* or an error in between leaves a fenced run that the adapter calls undispatched.
FenceDispatchStep(w) ==
    LET l == worker[w].lease IN
    /\ At(w, "session")
    /\ \/ FenceDispatch(l) /\ Go(w, "dispatching")
       \/ FenceDispatch(l) /\ Report(w, "failed", "session_initialization_failed")
       \/ ~FenceAccepted(l, "session_fenced") /\ UNCHANGED vars /\ Return(w)
    /\ UNCHANGED <<calls, answers>>

\* session.call_tool: the request leaves, or fails before it does.
CallTool(w) ==
    LET r == worker[w].lease.run IN
    /\ At(w, "dispatching")
    /\ \/ /\ calls' = [calls EXCEPT ![r] = @ + 1]
          /\ Go(w, "waiting")
       \/ /\ Report(w, "indeterminate", "upstream_outcome_unknown")
          /\ UNCHANGED calls
    /\ UNCHANGED <<vars, answers>>

\* The response, classified by invoke and _normalize_invocation_result, or none
\* before the timeout.
ReceiveAnswer(w) ==
    LET r == worker[w].lease.run IN
    /\ At(w, "waiting")
    /\ \/ /\ answers' = [answers EXCEPT ![r] = "succeeded"]
          /\ Report(w, "succeeded", NoCode)
       \/ \E code \in ToolFailureCodes :
            /\ answers' = [answers EXCEPT ![r] = code]
            /\ Report(w, "failed", code)
       \/ /\ Report(w, "indeterminate", "upstream_outcome_unknown")
          /\ UNCHANGED answers
    /\ UNCHANGED <<vars, calls>>

\* Mutant: a worker that lost its lease keeps it.
RenewLease_Kept(w) ==
    /\ At(w, "renewing")
    /\ \/ Heartbeat(worker[w].lease) /\ Go(w, "completing")
       \/ ~LeaseUsable(worker[w].lease) /\ UNCHANGED vars /\ Go(w, "idle")
    /\ UNCHANGED <<calls, answers>>

\* _renew_lease, in a transaction of its own before the outcome is recorded.
RenewLease(w) ==
    LET l == worker[w].lease IN
    /\ At(w, "renewing")
    /\ \/ Heartbeat(l) /\ Go(w, "completing")
       \/ ~LeaseUsable(l) /\ UNCHANGED vars /\ Return(w)
    /\ UNCHANGED <<calls, answers>>

\* Mutant: a rejected completion is not handled.
Complete_NoReject(w) ==
    LET l == worker[w].lease
        o == worker[w].outcome IN
    /\ At(w, "completing")
    /\ CompleteLease(l, o.status, o.code) \/ CompleteLate(l)
    /\ Return(w)
    /\ UNCHANGED <<calls, answers>>

\* complete_invocation_success or complete_lease.  A success whose payload is not
\* accepted for storage is reported again as an invalid tool result.
Complete(w) ==
    LET l == worker[w].lease
        o == worker[w].outcome IN
    /\ At(w, "completing")
    /\ \/ CompleteLease(l, o.status, o.code) /\ Return(w)
       \/ CompleteLate(l) /\ Return(w)
       \/ /\ o.status = "succeeded"
          /\ Report(w, "failed", "invalid_tool_result")
          /\ UNCHANGED vars
       \/ /\ ~CompletionAccepted(l, o.status, o.code)
          /\ ~(LeaseHeld(l) /\ ledger[l.run].deadline <= now)
          /\ UNCHANGED vars
          /\ Return(w)
    /\ UNCHANGED <<calls, answers>>

\* The process dies, or an unexpected error ends this poll: the lease is forgotten.
Crash(w) ==
    /\ ~At(w, "idle")
    /\ Return(w)
    /\ UNCHANGED <<vars, calls, answers>>
-----------------------------------------------------------------------------
WorkerInit ==
    /\ Init
    /\ worker = [w \in Workers |-> Idle]
    /\ calls = [r \in Runs |-> 0]
    /\ answers = [r \in Runs |-> NoAnswer]

InvocationStep(w) ==
    \/ LoadTarget(w)
    \/ FenceSessionStep(w)
    \/ SessionFails(w)
    \/ FenceDispatchStep(w)
    \/ CallTool(w)
    \/ ReceiveAnswer(w)
    \/ RenewLease(w)
    \/ Complete(w)

\* Users, operators, cleanup, the registry and the clock.
EnvironmentStep ==
    /\ \/ \E r \in Runs, d \in 1 .. MaxClock + MaxRunTime : CreateRun(r, d)
       \/ \E r \in Runs : CancelRun(r)
       \/ RestoreStep
       \/ MaintenanceStep
       \/ TargetStep
       \/ Tick
    /\ UNCHANGED workerVars

WorkerNext ==
    \/ \E w \in Workers, t \in ClockReads, skipped \in SUBSET Runs : Poll(w, t, skipped)
    \/ \E w \in Workers : InvocationStep(w) \/ Crash(w)
    \/ EnvironmentStep

WorkerSpec == WorkerInit /\ [][WorkerNext]_allVars

\* Every step of a worker is bounded by a timeout, an idle worker polls again and sees
\* what was committed, and time passes.
WorkerFairness ==
    /\ WF_allVars(Tick /\ UNCHANGED workerVars)
    /\ \A w \in Workers : WF_allVars(InvocationStep(w))
    /\ \A w \in Workers : WF_allVars(Poll(w, now, Unseen))
    /\ WF_allVars(ExpireRetainedContent({}) /\ UNCHANGED workerVars)

-----------------------------------------------------------------------------
\* At most one tool call of a run ever leaves for the upstream server, over every
\* pause, crash, retry, lost lease and restore: the fence_dispatch docstring's "one
\* permitted tool call".  Nor is a second on its way: a call is prepared only under a
\* lease older than the one under which another worker is sending.
AtMostOneCall ==
    /\ WorkerTypeOK
    /\ \A r \in Runs : calls[r] <= 1
    /\ \A v, w \in Workers :
        /\ worker[v].pc \in {"dispatching", "waiting"}
        /\ worker[w].pc \in {"session", "dispatching", "waiting"}
        /\ worker[v].lease.run = worker[w].lease.run
        => v = w \/ (worker[w].pc = "session"
                     /\ worker[w].lease.leaseEpoch < worker[v].lease.leaseEpoch)

\* What the ledger says of a settled run is true of the upstream server: a success
\* was answered as one, a tool failure was answered as that failure (or as a success
\* that was not accepted), and a run reported cancelled, timed out or failed before
\* dispatch was never sent, nor will be by a worker that is still on its way.
LedgerTellsTheTruth ==
    \A r \in Runs : LET x == ledger[r] IN
        /\ x.status = "succeeded" => answers[r] = "succeeded"
        /\ x.status = "failed" /\ x.safeErrorCode \in ToolFailureCodes =>
             \/ answers[r] = x.safeErrorCode
             \/ answers[r] = "succeeded" /\ x.safeErrorCode = "invalid_tool_result"
        /\ \/ x.status \in {"cancelled", "timed_out"}
           \/ x.status = "failed" /\ x.safeErrorCode \notin ToolFailureCodes
           => /\ calls[r] = 0
              /\ \A w \in Workers :
                   worker[w].lease # NoLease /\ worker[w].lease.run = r =>
                       worker[w].pc \notin {"dispatching", "waiting"}

\* A tool call leaves only for a run whose history shows the dispatch fence (unless
\* the worker slept through the run's whole retention), however the target, the
\* actor's role or the quarantine change around it.
CallFollowsFence ==
    [][\A r \in Runs :
        calls'[r] # calls[r] => Dispatches(ledger[r]) # {} \/ ledger[r].status = "deleted"]_allVars

\* Arguments are retained for days (argument_retention_days >= 1), a run lasts an hour at
\* most (max_run_seconds <= 3600): config.py does not let one overtake the other.
ASSUME RetentionAssumption == MaxRunTime <= ArgumentRetention

\* A definitive upstream answer that a worker could still record is not lost to
\* another actor's guess while its lease is live: until the lease or the deadline runs
\* out, or a restore intervenes, the run waits for its worker.  It is lost in one case:
\* the worker renewed its lease so late that the lease ran out before the renewal
\* committed, and a poll that read the clock in between gives the run up
\* (_terminalize_abandoned_dispatches locks the run, not the job).
AnswerIsAwaited ==
    [][\A w \in Workers : LET l == worker[w].lease IN
        /\ worker[w].pc \in {"dispatching", "waiting", "renewing", "completing"}
        /\ l # NoLease
        /\ LeaseUsable(l)
        /\ ledger[l.run].status = "dispatch_fenced"
        => \/ ledger'[l.run].status = "dispatch_fenced"
           \/ worker'[w] # worker[w]
           \/ /\ ledger'[l.run].safeErrorCode = "worker_lost_after_dispatch"
              /\ ledger'[l.run].terminalAt \in ledger[l.run].staleReads]_allVars

\* No worker is stuck with a lease, whatever it meets, and every admitted run is settled
\* although any worker may crash.
WorkersReturn ==
    /\ \A w \in Workers : ~At(w, "idle") ~> At(w, "idle")
    /\ \A r \in Runs : Active(ledger[r]) ~> ~Active(ledger[r])
=============================================================================
