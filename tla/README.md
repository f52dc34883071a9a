# A TLA+ model of modall

modall is a control plane for MCP servers: administrators register server
connections, a discovery publishes the tools behind them, operators review and
enable those tools, and users run them through a durable execution ledger whose
workers call the upstream server at most once per run. This directory models
the parts of `src/src/modall` where several actors meet: API requests, worker
processes, operators of a restore, cleanup, and the upstream server.

## 1. The system

All state lives in PostgreSQL. API processes and workers share nothing else.
Every service method runs in one transaction that locks the rows it changes
(`FOR UPDATE`, often through the workspace row). `RunLedger`, `InvocationWorker` and
`Discovery` therefore let a method act in one step, under its locks: what interleaves is
the *sequence* of methods that a request, a worker or an operator calls, and the upstream
call that happens between two transactions. The one method that acts on rows it did not
lock is the poll, which reads jobs and locks runs; `RunLedger` lets it act on jobs as
they were up to `ClockLag` before (section 2). Other modules open the
transactions: `LedgerLocks` the row locks, `ClaimRace` the
statements of a claim, `Admission`, `Membership`, `FirstLogin` and `RegistryCatalog` the
reads made before a lock. Within a process, `ScannerPermits`, `ValidationPermits`,
`ApiAdmission` and `ToolResponse` model what event loops interleave between awaits.

| Component | State | Operations | What is hard | What makes it correct |
|---|---|---|---|---|
| Execution ledger (`execution/service.py`) | `Run`, `Job`, `RunAttempt`, `RunEvent`, `RunResult`, `SystemExecutionState` | admit, cancel, claim, heartbeat, two fences, complete, quarantine / reconcile / clear, three cleanups | stale leases, clocks read twice, skipped locked rows, cancellation against dispatch, restores | one dispatch, honest and final outcomes, agreeing projections, everything settles and is forgotten |
| Invocation worker (`worker/main.py`, `execution/runner.py`, `mcp_adapter/client.py`) | the lease and outcome it holds | poll, load, fence, session, fence, call, renew, complete | pauses and crashes between commit and call, timeouts inside a fence, two transactions to report | at most one upstream call, the ledger never lies about it |
| Connections and discovery (`registry/service.py`, `registry/discovery.py`, `registry/runner.py`) | `ServerConnection`, versions, refresh jobs, snapshots | append version, disable, enable, enqueue, claim, renew, contact, publish | late answers, superseded refreshes, ABA of disable/enable | only the allocated refresh publishes, active means verified under the present control epoch |
| Capabilities (`registry/service.py`) | `Capability`, versions, status events | record version, mark missing, enable, disable | drift, disappearance and return between decisions | executable means approved and observed, epochs identify the target |
| Membership (`identity/service.py`, `identity/repository.py`) | users, memberships | first login, change role, authorize | revocation while a request is in progress, mutual demotion, two first logins | an administrator remains; what commits is authorized; one user per principal |
| Admission (`preflight`, `create_run`) | confirmation nonces, idempotency records, key versions | confirm, create, replay, delete | concurrent retries, key rotation, deletion of what a token was used for | one run per key, one run per token, replays answer their own request |
| API idempotency (`api/idempotency.py`) | `ApiIdempotencyRecord` | mutate, replay, purge | a retry at expiry, skewed clocks, rotation and its rollback | no mutation twice within the promised time |
| Official registry (`registry/official.py`) | search cache, entries, scanner permits | search, import, purge, scan | reads before the lock, rows rejected in a transaction that rolls back, cancellation of a granted waiter, loops of several threads | one bounded fresh cache, gapless versions, permits conserved, whole listings |
| Argument validation (`execution/validation.py`) | process permits | validate | timeout, cancellation and a dying child at every await | permits balance, only the child validates, every call ends |
| API middleware (`api/main.py`, `ops/limits.py`) | per-peer windows, request slots | admit, queue, answer | eviction at `max_peers`, timeouts and disconnections in the queue | slots balance; a remembered peer stays within its limit |
| Listings (`api/contracts.py`) | the client's cursor | page | ties at a page boundary, rows that come and go | nothing twice, nothing skipped |
| Transport policy (`mcp_adapter/policy.py`, `client.py`) | budget, matcher and flags of one session | stream, screen, classify | a timeout against a late answer, a secret cut in two | what is reported is certain exactly when it is known |
| Signing keys (`identity/auth.py`) | loaded and negative keys | resolve | a revocation while the endpoint fails | revoked keys stop working in bounded time |
| Metadata screening, secrets, configuration, telemetry, audit | none that several actors share | – | data, not control | – |

Interactions: `create_run` reads the capability and the connection and pins their
`status_epoch` and `control_epoch`; `claim_job`, `fence_session` and
`fence_dispatch` compare them again. The worker drives the ledger through the
lease it was given; the restore CLI raises the execution epoch that every lease
carries. A published refresh changes capabilities and the connection in one
transaction.

## 2. Modules

| Module | Models | EXTENDS / INSTANCE |
|---|---|---|
| `Target` | what the ledger relies on about the target of a run: abstract specification | |
| `RunLedger` | the execution ledger | extends `Target`; instance of `RunLifecycle` |
| `RunLifecycle` | what a user may observe of a run: abstract specification | |
| `InvocationWorker` | the program of a worker over the ledger, and the upstream server | extends `RunLedger` |
| `Discovery` | one connection, its refresh jobs and its capabilities | instance of `Target` |
| `ClaimRace` | the polls and lease methods of one run, statement by statement | instance of `RunLifecycle` |
| `LockOrder` | transactions as sequences of row locks, for any programs | |
| `LedgerLocks` | the lock sequences of the code's methods | extends `LockOrder` |
| `Admission` | tokens, nonces and idempotency records of `create_run` | |
| `ApiIdempotency` | replay records of the other mutations | |
| `Membership`, `FirstLogin` | roles of one workspace; the creation of users | |
| `ScannerPermits`, `ValidationPermits` | the two pools of child processes | |
| `RegistryCatalog` | the search cache and the imported entries | |
| `UpstreamPaging` | the paging loops of the registry client and of discovery | |
| `ToolResponse` | one tool call: transport, screening, classification | |
| `ByteMatcher` | the incremental matcher against a reference definition | |
| `ApiAdmission` | the middleware: limiter and request slots | |
| `PagedListing` | a client's walk through a listing | |
| `SigningKeys` | the resolver of signing keys | |
| `MCRunLedger`, `MCInvocationWorker`, `MCDiscovery` | instances for TLC | extend the module they name |
| `MCRequests` | instance for TLC of the transactions that meet in the database | instances of `Admission`, `ApiIdempotency`, `Membership`, `FirstLogin`, `PagedListing` |
| `MCPermits` | instance for TLC of what a process limits | instances of `ScannerPermits` (with loops that close under their scans, and without), `ValidationPermits`, `ApiAdmission` |
| `MCUpstream` | instance for TLC of what comes from servers that are not trusted | instances of `RegistryCatalog`, `UpstreamPaging`, `ToolResponse`, `ByteMatcher`, `SigningKeys` |
| `RunLedger_proofs`, `InvocationWorker_proofs` | theorems about the ledger; about the worker, from them | extend the module they name |
| `Discovery_proofs`, `ClaimRace_proofs` | theorems about the module they name | extend it |
| `LockOrder_proofs` | theorems about `LockOrder`, and about the programs of `LedgerLocks` | extends `LedgerLocks` |
| `Requests_proofs` | theorems about `Admission`, `ApiIdempotency`, `Membership`, `FirstLogin` and `PagedListing` | extends `MCRequests` |
| `Permits_proofs` | theorems about `ScannerPermits`, `ValidationPermits` and `ApiAdmission` | extends `MCPermits` |
| `Upstream_proofs` | theorems about `RegistryCatalog`, `UpstreamPaging`, `ToolResponse`, `ByteMatcher` and `SigningKeys` | extends `MCUpstream` |

The components of a bundle (`MCRequests`, `MCPermits`, `MCUpstream`) share no state, so interleaving them would multiply
states and show nothing. Each behaviour is about one of them, its *subject*: `Init`
picks it, only its actions happen, and the variables of the others are `None`
throughout. A property of the bundle is the conjunction of what its component promises,
under the condition that it is the subject; the comments in the component's module say
what each conjunct means. The bundles take the sets and limits of their components
as constants, so that what is proved of them is proved for all sets and limits.

Definitions whose comment starts with *Mutant* are deliberately wrong variants of
the definition that follows them. They are used nowhere in the specifications;
substituting one must make the named property fail.

### RunLedger

Everything stored about one run is one row of the function `ledger`: the columns
of `Run` and `Job`, the attempts and the events in order, whether the arguments
are retained and when the result expires. The absence of a row is the status
`absent` or, after retention, `deleted`. Service methods are row transformers
(`TerminalizeRun`, `CancelledRow`, `LeaseRow`, `FenceRow`, `CompleteRow`, ...)
wrapped in actions that carry their guards; a call the code rejects is a call that
changes nothing and has no action.

- `leases` holds every `JobLease` ever returned. Any of them may be presented
  again at any time, which covers paused, partitioned and duplicated workers.
- `ClaimJob(w, t, skipped)` is the whole poll: overdue runs are terminalized in a
  batch, then abandoned dispatches, then the oldest claimable job is leased. `t`
  is the clock read that opens the transaction and may be up to `ClockLag` behind
  the one made once the row lock is held; `skipped` are rows other transactions
  hold (`SKIP LOCKED`).
- A transaction acts at its clock read, under its locks, and may commit up to `ClockLag`
  later. The statements of a poll filter on job columns of a snapshot taken after `t` and
  lock only the run, so a poll finds a run whose job has changed since. `staleReads` is a
  history field of the row: the clock reads of polls that may still see the job as it was
  before its latest lease or renewal, and on which that job had lapsed (`StaleReads`,
  `Lapsed`). Such a poll takes over a lease that was just given or renewed (`Claimable`),
  or gives up a dispatched run whose lease was just renewed (`Abandoned`). A poll that
  missed a settlement finds the run overdue (`SettledUnseen`): if it was timed out it is
  settled once more, and of any other outcome the trigger rejects the update and the poll
  is rolled back, which is no step. The dispatch fence, which
  changes `Run.status`, is never missed: conditions on the run are evaluated again on the
  locked row.
- `now` is the database clock. A null timestamp is 0 and the clock starts at 1.
- `revoked` is a history variable: runs that were active when an epoch of their
  target changed.
- Cleanups and reconciliation take any batch that `ORDER BY ... LIMIT` may return
  among the rows that are not skipped.
- Admission is for a request whose token and key are fresh; `Admission` has the rest.

`Target` supplies `member`, `capability`, `connection` and their steps. The fences
in the code also compare versions, pending pointers and the observed snapshot;
`TargetIsCurrent` keeps the flags and the two epochs, and `EpochsPinTarget` of
`Discovery` is the reason that this loses nothing.

`RunLifecycle` says the same of a run without leases, jobs or clocks: admitted
within the limit, waiting, dispatched at most once, settled by an outcome that
agrees with the dispatch, deleted. The mapping is `Phase`.

### InvocationWorker

Each worker has a program counter, the lease it holds and the outcome it will
report. Each transaction of the runner is an action; between two of them anything
may happen, including the end of the worker (`Crash`). `calls` and `answers` record
what happened at the upstream server and are visible to no row of the ledger.
`FenceSessionStep` and `FenceDispatchStep` include the cases in which the commit
took effect but the worker learnt of a timeout or an error.

### Discovery

One connection. Versions of the connection are numbered; a capability version is
its content (tool, metadata, connection version), because `record_version` returns
the recorded version whenever they match. Jobs are a sequence indexed by
generation. A lease is its job and lease epoch; `live` says that
`lease_expires_at` has not passed, so a renewal, which only moves that time, is a
lease that has not expired yet. `PublishSuccess` is the whole publication:
capabilities recorded and marked missing, the pending version promoted or the
refresh completed, the snapshot replaced, the job closed. What the server answered
is chosen freely when it is published, for leases that passed
`validate_for_contact`. `decision` and `pin` are history variables: what an
operator last enabled, and what a run pinned. `Tool` is an arbitrary tool; the
refinement to `Target` is stated for it.

### ClaimRace and LedgerLocks

`ClaimRace` justifies what `RunLedger` lets a poll do: the three ways in which it acts on
a job that changed. `claim_job`
runs three queries that join runs and jobs, each with its own statement snapshot, and
locks only the run. `txn[s].snap` is the job row the statement saw; conditions on the
run are evaluated again on the locked row (`READ COMMITTED`), conditions on the job are
not. The database triggers that refuse to change a terminal status are `RejectsUpdate`.
The run still implements `RunLifecycle`; that a run is settled only once does not hold
(section 5).

`LedgerLocks` writes each method as the sequence of rows it locks: `FOR UPDATE`,
`FOR SHARE`, the key-share lock that inserting a row takes on what its foreign keys
name, `SKIP LOCKED`, and the release of a savepoint. `DocumentedRank` is the order the
comments of `create_run` document; `DocumentedGuard` says which rows (the job of a run)
are only locked under another. `ServicePrograms` are all methods of the services, polls
that settle one run and lease another included (`ReconcilesAndClaims`); `AllPrograms` adds
the cancel route, and `DeployedPrograms` leaves out the bare `cancel_run`, which only that
route calls. `DeadlockDetected` is PostgreSQL's: it aborts one of the transactions that
wait only on each other.

### Admission, ApiIdempotency, Membership, FirstLogin

A session of `Admission` is a `create_run` in progress: it looks its key up without a
lock (`Open`), then replays what it found or looks again under the workspace lock and
creates. HMACs are modelled by what they distinguish: a record bears the key version
it was made with and is found only by a process whose ring holds that version. A
session of `Membership` is a request between its first role check and its commit. In
`FirstLogin` an insert waits for another transaction's insert of the same principal.
`ApiIdempotency` has no sessions, because the workspace lock is held throughout; what
interleaves there is time, clocks and deployments (`Rollout`: which processes serve
together, stage after stage). Time passes while processes of two stages serve together
too, for up to `MaxOverlap` at a stretch, so records expire and are purged in the middle
of a rotation. `PagedListing` sorts by counting: the row in place `i` is
the one that `i - 1` others precede (`InOrder`), which says what `ORDER BY` returns
without saying how, and in terms the prover can reason about.

### Pools, registry and the HTTP side

`ScannerPermits` follows `_acquire_` and `_release_scanner_process_permit` lock section
by lock section: the grant, the scheduled notification, the resolved future and the
resumed coroutine are four steps, and cancellation falls between any two. `Abandon`
allows event loops to close under their scans. `ValidationPermits` follows one call
from the polled semaphore to the closed process. Both closes (`Reap`, `Close`) terminate
the child, then kill it, and wait a quarter of a second for each; a child that still runs
then has *outlived* its call, which returns the permit all the same. The limit bounds the
children that were not given up in this way, and no others.

In `RegistryCatalog` every request is one transaction: `rows` is what is committed and
`deleted` what a request removed so far. A search reads, screens, fetches, locks, reads
again and stores; a rejected row is removed in a transaction that then rolls back, so
a cleanup registered with the session removes it once more (`Cleanup`), or fails
(`CleanupFails`) and leaves it to expire. `UpstreamPaging` lets the server be any
function from cursors to pages. `ToolResponse` gives the answer of one call in parts
and lets the timeout, the overrun of the byte budget and the close of the stream fall
between any two; `ByteMatcher` discharges what it assumes about a value cut in two.

## 3. Runs

| Run | Instance | Shows |
|---|---|---|
| `ledger_rows` | 1 run, 2 workers with stale polls, all of the target's changes, one restore | rows consistent, one dispatch, honest outcomes that are final but for a bounded second settlement, no fence after revocation or in quarantine, `RunLifecycle` implemented |
| `ledger_settles` | 2 runs, batches of 1, skipped rows, lagging clocks, a quarantine that may last | nothing of an old epoch survives the quarantine; every run settles, loses its content, is deleted |
| `worker_calls` | 1 run, 2 workers with crashes and stale polls, one restore; the actor's role and the connection's lifecycle change | at most one call and one sender, no call without a fence, a truthful ledger, answers are awaited |
| `worker_returns` | the same with shorter times, under fairness | workers return and runs settle |
| `discovery` | 1 tool, 3 contents of which 2 supported, 3 refreshes, 2 claims each, 2 versions, 3 control and status epochs | job and allocation agree, enabled means observed, epochs pin the target, operators decide, only the current refresh publishes, `Target` implemented |
| `claim_polls` | 3 polling sessions, leases of 2 ticks, deadline 5, 3 leases | attempts follow leases, one dispatch, `RunLifecycle` implemented |
| `claim_settled` | 2 sessions, else the same | *violated*, section 5 |
| `locks_services` | 3 transactions, each any service method or the cancel route, 2 runs | transactions that wait only on each other include a cancel route, or two polls that settled one run and lease another |
| `locks_route` | 2 transactions as they are deployed: the cancel route, and polls that settle one run and lease another | *violated*, section 5 |
| `requests`: `Admission` | 2 sessions, 2 tokens, 2 keys, 2 runs, two key rings side by side | `OneRunPerKey` |
| `requests`: `ApiIdempotency` | a rotation in 5 stages that overlap for up to 1, clocks 1 apart, records kept 3 for a promise of 2 | `NotRepeated` |
| `requests`: `Membership` | 3 users, 2 sessions | `AdminRemains` |
| `requests`: `FirstLogin` | 4 requests of 2 principals | `OneIdentity` |
| `requests`: `PagedListing` | 4 ids, 2 timestamps, pages of 1 and 2, 3 orders | `NothingSkipped` |
| `permits`: `ScannerPermits` | 4 scans in 2 loops, 2 permits; and 3 scans, 1 permit, loops that close | `PermitsConserved`, `CallsEnd` |
| `permits`: `ValidationPermits` | 2 calls, 1 permit | `PermitsConserved`, `CallsEnd` |
| `permits`: `ApiAdmission` | 4 requests, 1 slot, limit 1, 2 peers remembered, 3 minutes | `PermitsConserved`, `PeersAreLimited`, `CallsEnd` |
| `upstream`: `RegistryCatalog` | 3 requests, 3 queries, 2 digests, 2 rows, lifetime 1 | `CacheIsSound`, `FreshOrRejected` |
| `upstream`: `UpstreamPaging` | every server of 3 cursors and 4 kinds of page | `WholeOrNothing` |
| `upstream`: `ToolResponse` | 5 parts | `OutcomeIsTrue`, `ResultIsClean` |
| `upstream`: `ByteMatcher` | every two patterns up to 4 bytes and stream up to 6, chunks up to 3 | `FoundWhereverCut` |
| `upstream`: `SigningKeys` | 2 keys, 6 ticks, endpoint failures | `RevokedKeysStop` |

All pass except the two marked *violated*, whose one property TLC refutes. What each
property says is in the comment above it.

**Bounds.** One run and two workers are enough for the row properties, which speak
of one row at a time; two runs with batches of one make batches, skips and the
quarantine matter. A lease of one tick within a deadline of two or three lets a lease
expire and be reclaimed before the deadline, and the deadline fall between a claim
and a completion; in `ledger_rows` and `worker_calls` a lease of two ticks is also cut
short by it, and renewed with an instant to spare, so that a poll can miss a renewal. A
`ClockLag` of one is the difference between seeing a change and missing it.
`MaxTakeovers` stops stale polls from taking one live lease after another: no lease is
taken over while live once the run has had that many. One takeover shows the displaced
worker at each of its steps; `ledger_settles`, which is about batches and has one worker,
allows none. Two execution epochs are one restore; two target epochs are one
change, which is enough to revoke a run. `ArgumentRetention` is longer than
`MaxRunTime`, as configured (days against at most an hour), so content expires on
an active run only in quarantine, which is the case that matters.
`MaxEvents` stops repeated cancellations and repeated settlements only. `MaxStatusEpoch` leaves room for
record, enable, disable and enable again; refreshes may raise it further.
`StableTargetSpec` and `StableWorkerSpec` keep the target fixed to leave room for
more runs (`ledger_settles`) or for fairness (`worker_returns`). `ledger_rows` lets
everything about it change until the run is settled, after which nothing reads it
(`ReadTargetSpec`); in `worker_calls` the role and the lifecycle of the connection
change between any two steps of a worker, without the epochs. A refresh treats each tool by itself, so one
tool with more refreshes shows more than several with fewer.

For the newer modules: a deadlock of two transactions needs two sessions, and the third
of `locks_services` lets a waiter be waited for; two runs let programs take different
ones. Two sessions show every race between a read and a lock, because a third would
only repeat the second's commit. Three requests of the catalogue are a search that
stores, one that rejects its row and rolls back, and one that stores anew before the
rolled back one cleans up; or one more query than the cache has room for; or a search
and two imports, of an entry that may have a version already. In `ApiIdempotency` the lifetime exceeds the promise by the skew of the
clocks, and so does a stage's overlap, as seven days exceed 24 hours and a deployment. One permit and three scans, or two permits and
four, leave a waiter behind a waiter; validations poll and have no order, so two do. Four ids with two timestamps put ties on
both sides of a page boundary. Patterns of four bytes over two symbols have every
shape of border the prefix table distinguishes.

`CHECK_DEADLOCK FALSE` is set where the modelled requests come to an end or a bounded
clock stops. Symmetry is used for invariants and
action properties only, over sets no formula distinguishes.

**Fairness.** `Fairness` assumes that time passes, and that polls and cleanups that
skip no row and miss no change (`FreshPoll`) keep happening: a worker polls and maintains for ever
(`run_worker`), and a row lock lasts as long as a transaction. A poll that acts on a stale
job is possible at any time and never forced. Nothing is assumed
of lease holders, users or operators. `WorkerFairness` adds that a worker takes its
next step, which the timeouts of the runner and the adapter bound; `Crash` is never
forced and never excluded. `MCPermits!FairSpec` is the sum of its components' `Progress`. In `ScannerPermits` and `ValidationPermits` event loops keep
running what is ready, child processes are killed and reaped when their bounded wait
ends, and cleanup runs to its end, as the shielded `finally` blocks do; nothing forces
a cancellation. In `ApiAdmission` the queue timer fires, and handlers return: that is an
assumption about the environment. The code bounds upstream calls and child processes by
timeouts, but sets no statement, lock or command timeout for the database, so a handler
waits for a row or for a lost server as long as PostgreSQL and the network let it. Nothing is assumed of loops that close under their
scans. `EveryRunIsForgotten` is conditional on the bounded
clock reaching the end of the retention, counted from the time the run was settled last.

## 4. Proofs

Every theorem holds for any sets and any limits that satisfy the assumptions stated in the
module that declares them; TLC evaluates those assumptions on its instances. The bounds
that end a TLC run (`MaxClock`, `MaxEvents`, `LastInstant`, ...) are constants like the
others, so they are arbitrary in the proofs. Most assumptions give a constant its type. The
ones with content are:

| Assumption | Says | Because |
|---|---|---|
| `RunLedger!RunsAssumption` | the runs are finitely many | they are rows of a table, and batches are cut by their number |
| `InvocationWorker!RetentionAssumption` | arguments are kept at least as long as a run may take | the configuration's bounds: at least a day against at most an hour |
| `Discovery!NullsAssumption`, `NoSession \notin Sessions`, ... | a null is not a value | |
| `Admission!TimesAssumption` | runs are kept at least as long as a token lives | days against minutes |
| `ApiIdempotency!SkewAssumption` | a record is kept for the promised time and any clock's lead, and longer than two stages of a rollout overlap | seven days against 24 hours, and against the time a deployment takes |
| `ApiIdempotency!ForwardAssumption` | rotations go forward: when a process no longer holds a version written before a stage that lasts, who still holds it and holds what that process writes, writes that too | `docs/operations/registry-alpha-runbook.md`: new versions are prepended, old ones removed last; what a rollback does is in section 5 |
| `PagedListing!ListingAssumption` | the rows are finitely many, and ids and times are ordered | rows of a table, compared by the database |
| `RegistryCatalog!CatalogAssumption` | the requests are finitely many, and there is a digest | a history is finite |
| `SigningKeys!KeysAssumption` | a key id is none of the words that stand for no key | |
| `LockOrder_proofs!AllOrdered`, bounded ranks | programs lock in rank order; there is a highest rank | hypotheses of the general theorems |
| `LockOrder_proofs!Documented` | ranks and guards are those of the comments | hypothesis of the theorem about the code's transactions, true of run `locks_services` by its configuration |

### The ledger: `RunLedger_proofs`

- `TypeCorrect`, `OneDispatch`, `Honest`, `RowsConsistent`, `Reconciliation`:
  the safety invariants of `ledger_rows` and `ledger_settles`;
- `Final`: the action property `TerminalIsFinal`;
- `Withdrawn`: the action property `NoFenceAfterRevocation`;
- `Refinement`: the ledger implements `RunLifecycle`.

None of the row properties is inductive alone. That a run is
dispatched once needs that its history agrees with its status (`RowHonest`), that
in turn needs that the last attempt has the status of the run (`RowProjections`),
which needs the lease to exist exactly while the job is leased (`RowLease`), and
`RowReplay` and `RowContent` need each other's terminal time. `RowOK` is the
conjunction of the six row predicates; `LedgerInv` is `TypeOK`, `RowOK` of every row
and `RestoreReconciled`. Each row transformer is shown to take a `RowOK` row to a
`RowOK` row, keeping settled rows as `RowFinal` says (`GoodStep`); each action changes rows only
through those transformers; `RestoreReconciled` follows because no transformer
makes a row active and admission writes the current epoch.

Polls that act on stale jobs add two cases. A lease taken over while live goes through the
transformers of a lapsed one. A run settled a second time keeps status, job and attempts,
appends one event and moves its completion time within `ClockLag` of the first
(`ResettledOK`, `ResettledQuiet`); the proof uses that the first settlement ended the
attempt and freed the job, so that the second finds nothing to end.

The two later theorems need more than that rows stay consistent, so each operation is
classified by what it does to a row: it leaves the run where it is (`Quiet`), ends it
(`Ended`), deletes it once settled (`Removed`), or moves it on under a lease (`Moved`).
`Withdrawn` adds `RevocationInv`: the epochs an active run pinned are never ahead of the
target's, and those of a revoked run are behind. Epochs only rise, so a revoked run stays
revoked, and every `Moved` step compares them. `Refinement` maps each class to a step of
`RunLifecycle` or to a stutter, run by run; a poll, which may settle a batch and lease one
run, is the one that moves several runs at once.

### The worker: `InvocationWorker_proofs`

- `WorkerUsesLedger`: `WorkerSpec => Spec`. Every transaction of the runner is an
  operation of the ledger under a lease that `claim_job` returned, so the theorems above
  hold of the ledger with its workers;
- `OneCall`, `Truthful`: the invariants `AtMostOneCall` and `LedgerTellsTheTruth`;
- `FencedCall`, `Awaited`: the action properties `CallFollowsFence` and `AnswerIsAwaited`.

`WorkerInv` adds to `LedgerInv` what ties a worker to its row: a lease epoch names one
lease and is never ahead of the row (`LeaseEpochs`), a worker acts under its own lease
(`OwnLease`), calls happen only past the fence and answers only after calls
(`CallsFollow`), and neither a worker's pending report nor a settled row claims an answer that
was not received (`AnswersRecorded`). At most one call needs all of them:
the worker that is about to send won `fence_dispatch` for the row, which no other lease
can win again, and a worker that sees the fence fail, even one whose commit took effect, never
sends. `Awaited` needs `DeadlinesFixed` and `RetentionAssumption`: otherwise the cleanup
of arguments could end a run whose answer is still on the way. It says exactly when a poll
may give up a run whose lease is live: at a clock read in `staleReads`, after the replaced
lease had run out and before its renewal committed.

### The registry: `Discovery_proofs`

- `Outstanding`, `Observed`, `Pinned`, `Decided`: the four invariants of `discovery`;
- `Fresh`: the action property `SnapshotIsFresh`;
- `TargetRefinement`: the registry implements `Target`, the specification `RunLedger`
  extends. With `Pinned` this is what the fences rely on.

`DiscoveryInv` says in addition that versions are numbered as they are appended and the
snapshot is not newer than the connection (`ConnectionOK`), that a capability's status,
its pending and its enabled version fit each other and the operator's last decision
(`CapabilityOK`), that only the latest job can be open and only while allocated
(`Allocated`), and that epochs only rise after a pin (`PinOK`). The publication of a
refresh is proved in pieces: what it does to the connection, to each capability, to the
jobs. `DiscoveryInv` was checked with TLC on the instance of `discovery` before it was
proved.

### The race of the polls: `ClaimRace_proofs`

- `AttemptsFollow`: the invariant `AttemptsFollowJob`;
- `RaceRefinement`: the methods taken apart into statements implement `RunLifecycle`.

A poll remembers what its snapshot showed and locks later. `RaceInv` says what survives in
between: run, job and attempts move together (`RunFollowsJob`), only the latest attempt
of a run past its fence was dispatched (`LatestDispatched`), and what a lease method read
under the row lock still holds while it keeps the lock (`TransactionOK`). Of what a poll
found it assumes nothing but that the run exists, which is why the takeover and the second
settlement of section 5 are steps of the model and not excluded by the proof.

### Requests: `Requests_proofs`

- `KeyKept`: `OneRunPerKey`: one run per key, one run per token, and none beside the run a
  token is bound to;
- `AdminKept`: `AdminRemains`, and that commits are authorized;
- `IdentityKept`: `OneIdentity`;
- `MutationsKept`: `NotRepeated`, and that a replay answers its own request;
- `NothingLost`: `NothingSkipped`, and that no row is returned twice.

`AdmissionInv` says what is kept of each run (`Kept`): an existing run has its record and
its nonce, and the token of a deleted run has expired, because the run was kept longer
than any token lives (a token spent on a replay has no such protection, section 5). A request that finds neither record nor nonce under the lock
therefore cannot repeat one. A ring that lacks a version some record was
made with cannot miss that record, because the history is checked again under the lock and
the request refused. `MemberInv` keeps, for a demotion that
was flushed and holds the workspace's lock, that it leaves an admin. `LoginInv` ties each
request's user to what it inserted, to what was committed, and to the uniqueness of the
principal.

`ReplayInv` says that a mutation within its promise (`Recent`) still has its record, which
no clock takes for expired, and that two records of one key exist only when the newer was
written by a process that no longer held the version of the older, a lasting stage after
that version was written (`GivenUp`). So a request that executes either
finds the recent record and replays it, or lacks its version and is refused because the
history is not complete; `GivenUp` with `ForwardAssumption` excludes the third case, a
process that holds both versions and finds the older record first: it would write the
version of the newer, which the unique constraint does not allow (`Superseded`,
`NoneRecent`). Without the assumption that case is real (section 5).

`ListInv` says that the cursor names the last row returned, that the rows returned are in
order, and that a row which matched all along was returned or comes after the cursor.
`InOrderIs` shows that counting predecessors sorts: in a finite set under a total order
each count up to the size is taken once.

### Bounded resources: `Permits_proofs`

- `Conserved`: `PermitsConserved` of the scanner pool, the validation pool and the slots,
  with children that outlive their calls;
- `Limited`: `PeersAreLimited`.

`PoolInv` is stated once for both kinds of pool. Permits are counted as those free and
those owned, where the owner of a permit may be a waiter that was granted one and does not
know, or one that was cancelled and has yet to give it back. That needs that who is in the
deque and not cancelled was granted nothing (`WaitersWait`), that a call that has not
asked is unknown (`NewIsUnknown`), and that a notification follows a grant
(`NotifiedIsGranted`). While loops wait for their scans the count is exact (`Orderly`);
when they close it is a lower bound. For the limiter, a peer that was let through this minute and
has not been crowded out is remembered with at least that count, and behind it in the
`OrderedDict` are only peers heard since, fewer than `MaxPeers`: so it is never the one
that `popitem` removes.

### Locks: `LockOrder_proofs`

About transactions that lock rows, for any number of sessions and any rows. A program is
`InOrder` if each unguarded lock is above, in `Rank`, every other unguarded row still held,
and a guarded row is locked only under its guard; it is `Ordered` if, besides, it asks for
no unguarded row it holds already.

- `ClimbingWaits`: among ordered programs a transaction waits only for a row above every
  unguarded row it holds (`WaitsClimb`);
- `DeadlocksExplained`: whatever the programs, if the ranks are bounded, transactions that
  wait only on each other include one whose program is not in order, or two that upgrade
  their locks on one row (`CyclesExplained`), cycles of any length included;
- `OrderedNeverDeadlock`: so ordered programs never wait in a cycle (`NoWaitCycle`);

and about the transactions of `LedgerLocks`, for any number of sessions and runs:

- `KnownDeadlocks`: of all service methods and the cancel route, only a cancel route, or
  two polls that settled one run and lease another, close a cycle (`DeadlocksAreKnown`).

The inductive invariant has four parts besides the types:
locks held are compatible (`Compatible`), each lock held comes from a step of the
program that ran and was not released since (`HeldByStep`), each step that ran and was
not released is held (`MustHold`), and a guarded lock is held together with its guard
(`GuardHeld`). From the last two, a wait is never for a guarded row, and from the first
two it climbs, or asks for a row the transaction holds in a weaker mode. In a set that waits
only on itself the waiter for the highest row would wait
for one that waits higher still, unless both wait for that row and hold it; the highest row
is found as the least distance from the bound.

That a method is ordered is proved along its body. `Reaches(p, top, G)` says of the steps so
far that they are ordered, that the unguarded rows among them rank at most `top`, and that the rows of
`G` are surely held; a lemma for each kind of step says what the next one reaches. The
polls that settle one run and lease another are in order and upgrade the workspace row, from
the key-share lock of the event to the lock of the target check; the cancel route is not in
order. All other programs are ordered.

### Servers that are not trusted: `Upstream_proofs`

- `CacheKept`, `LiveAnswersKept`: `CacheIsSound` and the action property
  `FreshOrRejected` of the Registry cache;
- `ListingsWhole`: `WholeOrNothing` of the paging loops, for any server;
- `OutcomeKept`, `ResultsClean`: `OutcomeIsTrue` and `ResultIsClean` of a tool call;
- `MatcherCorrect`: `FoundWhereverCut`, for all strings, streams and ways to cut them;
- `RevokedKeysKept`: the action property `RevokedKeysStop` of the key resolver.

`CatalogInv` says what a request knows of rows that others may have replaced: what it
looks at was stored once (`LooksAtRows`), what it does under the lock meets no other
(`LockProtects`), and what it deletes was expired or rejected and is deleted again by
its cleanup if it rolls back (`DeletesRejected`). `KeysInv` needs that a loaded key is
published or was until less than an interval before the next refresh (`LoadedIsRecent`).
`ResponseInv` ties the flags of `invoke` to what was sent and answered, and a forbidden
value that arrived to the flag of the transport.

`PagingInv` says that a running loop has the items of the pages along its trail of cursors
and nothing else. The reference, all listings a server offers, is compared with what the
loop has: trails of one server agree as far as both go, so a loop that ends has the
listing, and one that meets a cursor again is on a trail that never ends.

`MatcherInv` says that as long as nothing was found each state is the longest beginning of its string
that the stream ends with (`Longest`). A byte more falls back along the table until
it continues a match; each entry of the table is the longest proper border, so no longer
match is passed over. The table is built by the same fall-back, applied to the string
without its first byte.

The tables and the fall-back are recursive functions, and the flattening of pages is a fold. The prover
does not instantiate the library's induction theorems, which take an operator. Induction is
replaced by a least element: a set of naturals that is not empty has one
(`WFMin`, `NatLessThanWellFounded`), so a set closed under successor that holds 0 holds all
(`Least`, `Induction`, `StrongInduction`, about sets instead of predicates). A recursive function is shown to exist by
induction over the length of its initial parts, and any two that satisfy the equation
agree by induction over the argument.

### Only model-checked

Every safety invariant and every action property of a passing run is stated by a theorem.
What stays with TLC:

- all liveness (`CallsEnd`, that runs settle, lose their content and are deleted, that workers return): the
  prover has neither fairness nor `ENABLED`;
- what the two violation runs refute, which is not true.

## 5. Where the code and what is said of it differ

Two runs expect a violation; `PROJECT.json` quotes the lines.

| Run | The code | What is said |
|---|---|---|
| `claim_settled` | a poll whose statement began before a run timed out settles it once more: second terminal event, later completion time | terminal states are immutable |
| `locks_route` | the cancel route locks the workspace row, then the run; a poll that settled a run holds a key-share lock of the workspace row when it asks for the row itself | run before workspace, one lock order |

Neither breaks the at-most-once dispatch: the triggers keep a terminal status, so the run
still implements `RunLifecycle`, and PostgreSQL aborts one of two transactions that wait
for each other.

The passing properties are stated as strongly as the code allows. These limits were met
while modelling, and the statements stop short of them:

- `RunLedger`: `TerminalIsFinal` allows the second settlement of `claim_settled`: a timed
  out run may get the code `deadline_exceeded` and a completion time up to `ClockLag`
  later, and one more terminal event.
- `InvocationWorker`: a worker that renews its lease so late that the old one runs out
  before the renewal commits may lose the run, and with it an answer that has arrived, to a
  poll that read the clock in between (`_terminalize_abandoned_dispatches` reads the job
  and locks the run). `AnswerIsAwaited` names this case and no other.
- `ClaimRace` and `RunLedger`: a poll whose statement began before another poll leased the job takes the
  run over when the other commits, without looking at the new lease (`claim_job` reads
  the job again but not its expiry). The displaced attempt is fenced off, which is what
  `AttemptsFollowJob`, `AtMostOneCall` and `ImplementsLifecycle` say.
- `LedgerLocks`: the documented order is kept by every service method but one. A poll that
  settled a run and leases another asks for the workspace row it already holds in key-share
  mode, so two of them deadlock without any route; `DeadlocksAreKnown` allows them and the
  cancel route, and nothing else.
- `ScannerPermits`, `ValidationPermits`: a child that outlives `terminate` and `kill` runs
  on without a permit. `PermitsConserved` says that there is no other way to run without one.
- `ScannerPermits`: when an event loop closes under its scans, a waiter that was marked
  granted hands its permit on and, destroyed, releases it again. With `Abandon` only
  `NoPermitLost` and `NoIdlePermit` are checked, not that permits are conserved.
- `Admission`: the nonce of a token goes with the run it was used for. A token spent on
  a *replay* that is still valid when the run is deleted may create a run under another
  key, where the plan says that neither of two tokens used with one key can (line 587).
  `OneRunPerToken` counts the runs a token created; `TokensAreBound` adds that a token
  spent on a replay creates no other run as long as the replayed one exists.
- `ApiIdempotency`: after a rotation is rolled back a process that holds both versions
  again finds the first record that matches, which may be the expired one before the
  live one. `NotRepeated` is checked, and `MutationsKept` proved, for rotations that go
  forward (`ForwardAssumption`); the repository promises nothing for a rollback with mixed
  versions (plan, line 688).
- `LedgerLocks`: a poll, a reconciliation or a cleanup settles one run in a transaction;
  the code's batches settle several. A second run of a batch is taken with `SKIP LOCKED`
  and its job under it, and the event it inserts asks again for a lock the transaction has,
  so a batch waits for nothing new.

## 6. What is not modelled

Metadata screening and the scanner's text rules, the normalisation of registry
documents, JSON Schema, endpoint address validation, secret retrieval, the
verification of tokens, configuration and telemetry handle data of one request and
share no state; where their failure matters to the protocol it is an outcome that an
action may choose. The web interface and the detail endpoints change nothing. Audit
rows are written in the transaction of the change they record and add no behaviour.

`src/modall` never constructs `DiscoveryRunner`; refresh jobs are claimed only by
whoever embeds it. `Discovery` therefore claims no liveness for refreshes.

## 7. Plan

The safety properties of the runs are proved. Next would be: the batches of
`LedgerLocks`, whose second run is tried while the first is held; the
order of rotations with rollbacks, should `idempotent_mutation` look for the live record
first; a proof that `ClaimRace` implements the polls of `RunLedger`, which today are two
models of one method; and `ClaimRace` for polls that settle several runs.
