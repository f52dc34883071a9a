---------------------------- MODULE LedgerLocks ----------------------------
(***************************************************************************)
(* The lock programs of execution/service.py, identity, registry and the   *)
(* HTTP layer: which rows each method locks and in which order.  The runs  *)
(* are those of one workspace, and every other table has one row that      *)
(* matters.  Attempts are locked under their run and left out.             *)
(***************************************************************************)
EXTENDS LockOrder, TLC

CONSTANT RunIds   \* the runs of the workspace

Lock(row) == <<[op |-> "lock", row |-> row, mode |-> "update"]>>

Shared(row) == <<[op |-> "lock", row |-> row, mode |-> "share"]>>

KeyShared(row) == <<[op |-> "lock", row |-> row, mode |-> "keyshare"]>>

TryLock(row) == <<[op |-> "try", row |-> row, mode |-> "update"]>>

Release(row) == <<[op |-> "release", row |-> row, mode |-> "update"]>>

Run(r) == <<"run", r>>
Job(r) == <<"job", r>>
Record(r) == <<"idempotency", r>>
State == <<"state", 0>>
Workspace == <<"workspace", 0>>
Capability == <<"capability", 0>>
Connection == <<"connection", 0>>
RefreshJob == <<"refresh_job", 0>>
Nonce == <<"nonce", 0>>

AllRows ==
    (UNION {{Run(r), Job(r), Record(r)} : r \in RunIds})
        \cup {State, Workspace, Capability, Connection, RefreshJob, Nonce}

\* The comments at service.py 190-191 and 233-236: global state, then run, then
\* idempotency, then workspace.
DocumentedRank ==
    [row \in AllRows |->
        CASE row[1] = "state" -> 1
          [] row[1] = "run" -> 2
          [] row[1] = "workspace" -> 3
          [] row[1] = "nonce" -> 4
          [] OTHER -> 5]

\* A run's job and idempotency record are locked under the run, the configuration
\* rows under the workspace.
DocumentedGuard ==
    [row \in AllRows |->
        CASE row[1] \in {"job", "idempotency"} -> Run(row[2])
          [] row[1] \in {"capability", "connection", "refresh_job"} -> Workspace
          [] OTHER -> row]

\* The foreign keys of run_events name the run and its workspace: inserting an event
\* takes a key-share lock on the workspace row when the session is flushed.
InsertEvent == KeyShared(Workspace)
-----------------------------------------------------------------------------
(* Workers. *)

\* _claim_target_is_current, and the same statements of _fence_attempt.
ClaimTarget(r) == Lock(Workspace) \o Lock(Capability) \o Lock(Connection)

\* The second half of claim_job: the run the poll selects is leased.
LeaseSelected(r) == TryLock(Run(r)) \o Lock(Job(r)) \o ClaimTarget(r)

\* One row of _terminalize_expired_jobs or _terminalize_abandoned_dispatches.
Terminalize(r) == TryLock(Run(r)) \o Lock(Job(r)) \o InsertEvent

\* claim_job when nothing is overdue, and when there is nothing to lease.
Claims == {Shared(State) \o LeaseSelected(r) : r \in RunIds}

Reconciles == {Shared(State) \o Terminalize(r) : r \in RunIds}

\* claim_job when a run is overdue and another one waits: both in one transaction.
ReconcilesAndClaims ==
    {Shared(State) \o Terminalize(c[1]) \o LeaseSelected(c[2]) :
        c \in {d \in RunIds \X RunIds : d[1] # d[2]}}

\* heartbeat and complete_lease: _locked_lease_lineage, then a terminal event.
LeaseMethods ==
    {Shared(State) \o Lock(Run(r)) \o Lock(Job(r)) : r \in RunIds} \cup
    {Shared(State) \o Lock(Run(r)) \o Lock(Job(r)) \o InsertEvent : r \in RunIds}

\* _fence_attempt
Fences == {Shared(State) \o Lock(Run(r)) \o Lock(Job(r)) \o ClaimTarget(r) : r \in RunIds}
-----------------------------------------------------------------------------
(* Users. *)

\* create_run, when its key is new; the foreign keys of the run name its target.
Admits ==
    {Shared(State) \o Lock(Workspace) \o Lock(Nonce)
        \o KeyShared(Capability) \o KeyShared(Connection)}

\* _replay_existing_run
Replay(r) == Lock(Run(r)) \o Lock(Record(r)) \o Lock(Workspace) \o Lock(Nonce)

\* Mutant: the savepoint is not rolled back before the replay.
LosesRace_Kept(r) == Lock(Workspace)

\* create_run, when a concurrent creator wins: the savepoint gives the workspace back.
LosesRace(r) == Lock(Workspace) \o Release(Workspace)

\* create_run, when the key is found before or after the admission lock.
Replays ==
    {Shared(State) \o Replay(r) : r \in RunIds} \cup
    {Shared(State) \o LosesRace(r) \o Replay(r) : r \in RunIds}

\* ExecutionService.cancel_run
Cancel(r) == Lock(Run(r)) \o Lock(Workspace) \o Lock(Job(r))

Cancels == {Cancel(r) : r \in RunIds}

\* The cancel route: idempotent_mutation serializes on the workspace, looks up its
\* record and then calls cancel_run.
CancelRoutes == {Lock(Workspace) \o Cancel(r) : r \in RunIds}

\* enable, disable, append_version, publish_success and the other registry methods lock
\* the rows below the workspace in either order.
ConfigurationChanges ==
    {Lock(Workspace) \o Lock(Capability) \o Lock(Connection),
     Lock(Workspace) \o Lock(RefreshJob) \o Lock(Connection) \o Lock(Capability),
     Lock(Workspace) \o Lock(Connection) \o Lock(RefreshJob)}
-----------------------------------------------------------------------------
(* Operators and maintenance. *)

\* enter_restore_quarantine and clear_restore_quarantine; reconcile_restore_quarantine.
Restores ==
    {Lock(State)} \cup {Shared(State) \o Terminalize(r) : r \in RunIds}

\* expire_retained_content; delete_expired_run_metadata, whose DELETE cascades to the
\* run's job, idempotency record and nonces.
Maintenance ==
    {Terminalize(r) : r \in RunIds} \cup
    {TryLock(Run(r)) \o Lock(Job(r)) \o Lock(Record(r)) \o Lock(Nonce) : r \in RunIds}

\* The methods of the services, called one transaction each.
ServicePrograms ==
    Claims \cup Reconciles \cup ReconcilesAndClaims \cup LeaseMethods \cup Fences
        \cup Admits \cup Replays \cup Cancels \cup ConfigurationChanges \cup Restores
        \cup Maintenance

\* With the cancel route, which calls cancel_run in the transaction of its own record.
AllPrograms == ServicePrograms \cup CancelRoutes

\* Transactions as they are deployed: cancel_run has no other caller than its route.
DeployedPrograms == AllPrograms \ Cancels

\* Sessions differ in nothing but their names.
SessionSymmetry == Permutations(Sessions)

\* Transactions that wait only on each other include a cancel route, or two polls that
\* have each settled one run and now lease another. Every other method locks in the order
\* the comments document, and neither it nor one such poll alone can close a cycle.
DeadlocksAreKnown ==
    \A C \in SUBSET Sessions : WaitCycle(C) =>
        \/ \E s \in C : program[s] \in CancelRoutes
        \/ \E s, t \in C : /\ s # t
                           /\ program[s] \in ReconcilesAndClaims
                           /\ program[t] \in ReconcilesAndClaims
=============================================================================
