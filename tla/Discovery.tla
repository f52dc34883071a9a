------------------------------ MODULE Discovery ------------------------------
(***************************************************************************)
(* One server connection and the tools discovered through it: the control  *)
(* operations on the connection (registry/service.py, ConnectionService),  *)
(* the refresh jobs and their leases (registry/discovery.py,               *)
(* registry/runner.py), the atomic publication of what a refresh observed, *)
(* and the review of capabilities (CapabilityService).                     *)
(*                                                                         *)
(* Every service method is one transaction that locks the connection row   *)
(* first, so each is one action.  A lease is identified by its job and its *)
(* lease epoch, and may be presented again at any time after it was given. *)
(* A capability version is its content: record_version returns the         *)
(* recorded version whenever tool metadata and connection version match.   *)
(***************************************************************************)
EXTENDS Naturals, Sequences

CONSTANTS
    Tools,              \* tool identities the server may expose
    Tool,               \* any one of them: the tool a run is admitted for
    Metadata,           \* contents a tool may have: schemas and description
    Supported,          \* the contents whose schema the registry supports
    NoVersion,          \* the null capability version
    NoAllocation,       \* no refresh is allocated
    MaxVersions,        \* bound: connection versions
    MaxGeneration,      \* bound: refreshes
    MaxControlEpoch,    \* bound: connection changes
    MaxStatusEpoch,     \* bound: after which operators stop deciding
    MaxLeaseEpoch       \* bound: claims of one job

ASSUME ToolAssumption == Tool \in Tools
ASSUME ContentAssumption == Supported \subseteq Metadata
ASSUME NullsAssumption ==
    /\ NoVersion \notin [tool : Tools, metadata : Metadata, connection : Nat]
    /\ NoAllocation \notin [controlEpoch : Nat, target : Nat]
ASSUME DiscoveryBoundsAssumption ==
    /\ MaxVersions \in Nat \ {0} /\ MaxGeneration \in Nat /\ MaxControlEpoch \in Nat
    /\ MaxStatusEpoch \in Nat /\ MaxLeaseEpoch \in Nat

VARIABLES
    member,      \* the actor who starts refreshes and runs may still do so
    connection,  \* the ServerConnection row
    capability,  \* the Capability row of each tool
    jobs,        \* the refresh jobs, by generation
    contacted,   \* leases whose holder passed validate_for_contact
    decision,    \* history: per tool, the version its operator last enabled
    pin          \* history: a target admitted at some moment, as create_run pins it

registryVars == <<connection, capability, jobs, contacted>>
historyVars == <<decision, pin>>
discoveryVars == <<member, registryVars, historyVars>>
-----------------------------------------------------------------------------
Versions == [tool : Tools, metadata : Metadata, connection : Nat]

NoTarget == 0   \* a null connection version: their sequence starts at 1

OpenStatuses == {"queued", "leased"}

ClosedStatuses == {"succeeded", "failed", "obsolete"}

Snapshots == [controlEpoch : Nat, target : Nat, observed : SUBSET Versions]

Connections ==
    [lifecycle : {"verifying", "active", "degraded", "disabled"},
     versions : Nat,                \* the latest version's sequence
     pending : Nat, verified : Nat,
     controlEpoch : Nat,
     allocation : [controlEpoch : Nat, target : Nat] \cup {NoAllocation},
     snapshot : Snapshots]

Capabilities ==
    [status : {"absent", "pending_review", "enabled", "disabled", "unavailable"},
     pending : Versions \cup {NoVersion},
     enabled : Versions \cup {NoVersion},
     statusEpoch : Nat]

\* `live' says that lease_expires_at has not passed.
Jobs == [status : OpenStatuses \cup ClosedStatuses,
         controlEpoch : Nat, target : Nat, leaseEpoch : Nat, live : BOOLEAN]

\* Every lease that was ever given.
Leases == UNION {[generation : {g}, leaseEpoch : 1 .. jobs[g].leaseEpoch] : g \in DOMAIN jobs}

\* The rows have their types, and satisfy the CHECK constraints of models.py that
\* relate columns (a write that broke one would abort its transaction): a connection
\* has a version, pointers are distinct, an enabled capability has an enabled version
\* and none pending, one under review has a pending version, and only a leased job has
\* a lease.
DiscoveryTypeOK ==
    /\ member \in BOOLEAN
    /\ connection \in Connections
    /\ connection.pending # NoTarget \/ connection.verified # NoTarget
    /\ connection.pending # connection.verified
    /\ capability \in [Tools -> Capabilities]
    /\ \A t \in Tools : LET c == capability[t] IN
         /\ c.pending # NoVersion => c.pending # c.enabled
         /\ c.status = "enabled" => c.enabled # NoVersion /\ c.pending = NoVersion
         /\ c.status = "pending_review" => c.pending # NoVersion
    /\ jobs \in Seq(Jobs)
    /\ \A g \in DOMAIN jobs : jobs[g].live => jobs[g].status = "leased"
    /\ contacted \subseteq Leases
    /\ decision \in [Tools -> Versions \cup {NoVersion}]
-----------------------------------------------------------------------------
(* The connection, on behalf of administrators and operators. *)

Target(c) == IF c.pending # NoTarget THEN c.pending ELSE c.verified

Open(j) == j.status \in OpenStatuses

\* Mutant: settled jobs become obsolete too.
Obsolete_All(js) == [g \in DOMAIN js |-> [js[g] EXCEPT !.status = "obsolete", !.live = FALSE]]

\* _obsolete_refresh_jobs
Obsolete(js) ==
    [g \in DOMAIN js |->
        IF Open(js[g]) THEN [js[g] EXCEPT !.status = "obsolete", !.live = FALSE] ELSE js[g]]

\* A change of configuration or lifecycle: a new control epoch, no allocation.
Controlled(c, lifecycle) ==
    [c EXCEPT !.lifecycle = lifecycle, !.controlEpoch = @ + 1, !.allocation = NoAllocation]

AppendVersion ==
    /\ connection.lifecycle # "disabled"
    /\ connection.versions < MaxVersions
    /\ connection.controlEpoch < MaxControlEpoch
    /\ connection' = [Controlled(connection, "verifying") EXCEPT
                        !.versions = @ + 1, !.pending = connection.versions + 1]
    /\ jobs' = Obsolete(jobs)
    /\ UNCHANGED <<member, capability, contacted, historyVars>>

\* Mutant: the outstanding refresh is forgotten.
DisableConnection_KeepsJob ==
    /\ connection.lifecycle # "disabled"
    /\ connection.controlEpoch < MaxControlEpoch
    /\ connection' = Controlled(connection, "disabled")
    /\ UNCHANGED <<member, capability, jobs, contacted, historyVars>>

DisableConnection ==
    /\ connection.lifecycle # "disabled"
    /\ connection.controlEpoch < MaxControlEpoch
    /\ connection' = Controlled(connection, "disabled")
    /\ jobs' = Obsolete(jobs)
    /\ UNCHANGED <<member, capability, contacted, historyVars>>

\* Mutant: a degraded connection stays degraded while its new version is verified.
Allocate_Degraded(c) ==
    [c EXCEPT !.allocation = [controlEpoch |-> c.controlEpoch, target |-> Target(c)]]

\* allocate_refresh_generation
Allocate(c) ==
    [c EXCEPT !.lifecycle = IF c.pending # NoTarget /\ @ = "degraded" THEN "verifying" ELSE @,
              !.allocation = [controlEpoch |-> c.controlEpoch, target |-> Target(c)]]

\* RefreshJobService.enqueue on connection row c; the generation is the job's place.
EnqueueOn(c) ==
    /\ member
    /\ Len(jobs) < MaxGeneration
    /\ connection' = Allocate(c)
    /\ jobs' = Append(Obsolete(jobs),
                      [status |-> "queued", controlEpoch |-> c.controlEpoch,
                       target |-> Target(c), leaseEpoch |-> 0, live |-> FALSE])
    /\ UNCHANGED <<member, capability, contacted, historyVars>>

\* The verify and refresh endpoints.
Enqueue ==
    /\ connection.lifecycle # "disabled"
    /\ EnqueueOn(connection)

\* Mutant: a connection is trusted again without a refresh.
EnableConnection_Trusted ==
    /\ connection.lifecycle = "disabled"
    /\ connection.controlEpoch < MaxControlEpoch
    /\ EnqueueOn(Controlled(connection, IF connection.pending = NoTarget
                                        THEN "active" ELSE "verifying"))

\* The enable endpoint enables the connection and enqueues its verification.
EnableConnection ==
    /\ connection.lifecycle = "disabled"
    /\ connection.controlEpoch < MaxControlEpoch
    /\ EnqueueOn(Controlled(connection, "verifying"))
-----------------------------------------------------------------------------
(* Refresh jobs and their leases. *)

\* _lock_eligible_connection, for the job of generation g.
Eligible(g) ==
    /\ connection.lifecycle # "disabled"
    /\ Target(connection) = jobs[g].target
    /\ connection.controlEpoch = jobs[g].controlEpoch
    /\ Len(jobs) = g
    /\ connection.allocation = [controlEpoch |-> jobs[g].controlEpoch, target |-> jobs[g].target]

\* _locked_active_job and _locked_job_for_lease: the presented lease is the job's
\* current one and has not expired.
Held(l) ==
    /\ jobs[l.generation].status = "leased"
    /\ jobs[l.generation].leaseEpoch = l.leaseEpoch
    /\ jobs[l.generation].live

Claim(g) ==
    /\ member
    /\ jobs[g].status = "queued" \/ (jobs[g].status = "leased" /\ ~jobs[g].live)
    /\ Eligible(g)
    /\ jobs[g].leaseEpoch < MaxLeaseEpoch
    /\ jobs' = [jobs EXCEPT ![g].status = "leased", ![g].leaseEpoch = @ + 1, ![g].live = TRUE]
    /\ UNCHANGED <<member, connection, capability, contacted, historyVars>>

\* Time passes the end of a lease that was not renewed: `renew' only moves that end,
\* so a renewal is a lease that has not expired yet.
LeaseExpires(g) ==
    /\ jobs[g].live
    /\ jobs' = [jobs EXCEPT ![g].live = FALSE]
    /\ UNCHANGED <<member, connection, capability, contacted, historyVars>>

\* DiscoveryRunner.run and its before_connect hook: validate_for_contact, then the
\* endpoint is contacted.
Contact(l) ==
    /\ member
    /\ Held(l)
    /\ Eligible(l.generation)
    /\ contacted' = contacted \cup {l}
    /\ UNCHANGED <<member, connection, capability, jobs, historyVars>>
-----------------------------------------------------------------------------
(* Publication. *)

Changed(c, status) == [c EXCEPT !.status = status, !.statusEpoch = @ + 1]

\* Mutant: drift suspends a capability without a new status epoch.
RecordVersion_SameEpoch(c, v) ==
    IF v = c.enabled
    THEN IF c.pending # NoVersion \/ c.status = "unavailable" THEN Changed(c, "enabled") ELSE c
    ELSE [c EXCEPT !.pending = v, !.status = "pending_review"]

\* Mutant: a known version is recorded again without a new status epoch.
RecordVersion_Silent(c, v) ==
    IF v \in {c.enabled, c.pending}
    THEN [c EXCEPT !.status = IF v = c.enabled /\ @ # "disabled" THEN "enabled" ELSE @,
                   !.pending = IF v = c.enabled THEN NoVersion ELSE @]
    ELSE Changed([c EXCEPT !.pending = v],
                 IF c.status = "disabled" THEN "disabled" ELSE "pending_review")

\* Mutant: a version that is observed again is enabled again, disabled or not.
RecordVersion_Reenables(c, v) ==
    IF v = c.enabled /\ c.status # "enabled"
    THEN Changed([c EXCEPT !.pending = NoVersion], "enabled")
    ELSE IF v \in {c.enabled, c.pending} THEN c
    ELSE Changed([c EXCEPT !.pending = v],
                 IF c.status = "disabled" THEN "disabled" ELSE "pending_review")

\* record_version: the projection of a capability after version v was observed.
RecordVersion(c, v) ==
    LET unlessDisabled(s) == IF c.status = "disabled" THEN "disabled" ELSE s IN
    IF v = c.enabled /\ c.pending # NoVersion
    THEN Changed([c EXCEPT !.pending = NoVersion], unlessDisabled("enabled"))
    ELSE IF v = c.enabled /\ c.status = "unavailable"
    THEN Changed(c, "enabled")
    ELSE IF v = c.pending /\ c.status = "unavailable"
    THEN Changed(c, "pending_review")
    ELSE IF v \notin {c.enabled, c.pending}
    THEN Changed([c EXCEPT !.pending = v], unlessDisabled("pending_review"))
    ELSE c

\* Mutant: a tool that is gone keeps its status.
MarkMissing_Kept(c) == c

\* _mark_missing_unavailable
MarkMissing(c) ==
    IF c.status \in {"absent", "unavailable", "disabled"} THEN c
    ELSE Changed(c, "unavailable")

\* promote_pending or complete_refresh, then the new snapshot.
Published(c, observed) ==
    [c EXCEPT !.lifecycle = "active", !.pending = NoTarget, !.verified = Target(c),
              !.allocation = NoAllocation,
              !.snapshot = [controlEpoch |-> c.controlEpoch, target |-> Target(c),
                            observed |-> observed]]

\* Mutant: nothing is checked again when the endpoint has answered.
Publishable_Unfenced(l) == jobs[l.generation].leaseEpoch = l.leaseEpoch

\* The fences of publish_success and publish_failure.
Publishable(l) ==
    /\ member
    /\ Held(l)
    /\ Eligible(l.generation)

\* Mutant: the lease of a settled job is not cleared.
Close_KeepsLease(l, status) == jobs' = [jobs EXCEPT ![l.generation].status = status]

Close(l, status) ==
    jobs' = [jobs EXCEPT ![l.generation].status = status, ![l.generation].live = FALSE]

\* publish_success: content[t] is what the server answered about tool t, if it has it.
PublishSuccess(l, present, content) ==
    LET version(t) == [tool |-> t, metadata |-> content[t], connection |-> Target(connection)] IN
    /\ l \in contacted
    /\ Publishable(l)
    /\ connection.pending # NoTarget => connection.lifecycle = "verifying"
    /\ connection' = Published(connection, {version(t) : t \in present})
    /\ capability' = [t \in Tools |-> IF t \in present THEN RecordVersion(capability[t], version(t))
                                      ELSE MarkMissing(capability[t])]
    /\ Close(l, "succeeded")
    /\ UNCHANGED <<member, contacted, historyVars>>

\* publish_failure: from any error, before or after the endpoint was contacted.
PublishFailure(l) ==
    /\ Publishable(l)
    /\ connection' = [connection EXCEPT !.lifecycle = "degraded", !.allocation = NoAllocation]
    /\ Close(l, "failed")
    /\ UNCHANGED <<member, capability, contacted, historyVars>>
-----------------------------------------------------------------------------
(* Review of capabilities, and the rest of the control plane. *)

DecisionVersion(c) == IF c.pending # NoVersion THEN c.pending ELSE c.enabled

EnableCapability(t) ==
    LET v == DecisionVersion(capability[t]) IN
    /\ v # NoVersion
    /\ capability[t].status # "enabled"
    /\ capability[t].statusEpoch < MaxStatusEpoch
    /\ v.metadata \in Supported
    /\ connection.lifecycle = "active"
    /\ connection.pending = NoTarget
    /\ connection.verified = v.connection
    /\ v \in connection.snapshot.observed
    /\ capability' = [capability EXCEPT ![t] =
                        Changed([@ EXCEPT !.enabled = v, !.pending = NoVersion], "enabled")]
    /\ decision' = [decision EXCEPT ![t] = v]
    /\ UNCHANGED <<member, connection, jobs, contacted, pin>>

DisableCapability(t) ==
    /\ DecisionVersion(capability[t]) # NoVersion
    /\ capability[t].status # "disabled"
    /\ capability[t].statusEpoch < MaxStatusEpoch
    /\ capability' = [capability EXCEPT ![t] = Changed(@, "disabled")]
    /\ decision' = [decision EXCEPT ![t] = NoVersion]
    /\ UNCHANGED <<member, connection, jobs, contacted, pin>>

\* set_membership_role: the actor loses or regains a role that may refresh and run.
SetMembershipRole ==
    /\ member' = ~member
    /\ UNCHANGED <<registryVars, historyVars>>

\* What _load_admission_target and the fences of a run require of its target.
Executable(t) ==
    LET v == capability[t].enabled IN
    /\ capability[t].status = "enabled"
    /\ v # NoVersion
    /\ capability[t].pending = NoVersion
    /\ connection.lifecycle = "active"
    /\ connection.pending = NoTarget
    /\ connection.verified = v.connection
    /\ v \in connection.snapshot.observed

\* A run of Tool is admitted: it pins the enabled version and the two epochs.
Admit ==
    /\ pin = NoVersion
    /\ Executable(Tool)
    /\ pin' = [version |-> capability[Tool].enabled,
               controlEpoch |-> connection.controlEpoch,
               statusEpoch |-> capability[Tool].statusEpoch]
    /\ UNCHANGED <<member, registryVars, decision>>
-----------------------------------------------------------------------------
\* ConnectionService.create: version 1 is pending, nothing is known of the tools.
DiscoveryInit ==
    /\ member = TRUE
    /\ connection = [lifecycle |-> "verifying", versions |-> 1, pending |-> 1,
                     verified |-> NoTarget, controlEpoch |-> 0, allocation |-> NoAllocation,
                     snapshot |-> [controlEpoch |-> 0, target |-> NoTarget, observed |-> {}]]
    /\ capability = [t \in Tools |-> [status |-> "absent", pending |-> NoVersion,
                                      enabled |-> NoVersion, statusEpoch |-> 0]]
    /\ jobs = << >>
    /\ contacted = {}
    /\ decision = [t \in Tools |-> NoVersion]
    /\ pin = NoVersion

ConnectionStep ==
    \/ AppendVersion
    \/ DisableConnection
    \/ EnableConnection
    \/ Enqueue

RefreshStep ==
    \/ \E g \in DOMAIN jobs : Claim(g) \/ LeaseExpires(g)
    \/ \E l \in Leases :
         \/ Contact(l)
         \/ PublishFailure(l)
         \/ \E present \in SUBSET Tools : \E content \in [present -> Metadata] :
               PublishSuccess(l, present, content)

DiscoveryNext ==
    \/ ConnectionStep
    \/ RefreshStep
    \/ \E t \in Tools : EnableCapability(t) \/ DisableCapability(t)
    \/ SetMembershipRole
    \/ Admit

DiscoverySpec == DiscoveryInit /\ [][DiscoveryNext]_discoveryVars
-----------------------------------------------------------------------------
(* What makes the registry correct. *)

\* At most one refresh is outstanding, and it is exactly the one the connection has
\* allocated: no sequence of enqueues, configuration changes and disablings leaves an
\* open job that can never be claimed, or an allocation without a job to consume it.
\* And a refresh that passes _lock_eligible_connection is not refused afterwards by
\* promote_pending, which accepts only a verifying connection: an observed answer is
\* never thrown away with the connection left pending.
AllocationMatchesJob ==
    /\ DiscoveryTypeOK
    /\ \A g \in DOMAIN jobs :
         /\ IF g = Len(jobs) /\ connection.allocation # NoAllocation
            THEN Open(jobs[g]) /\ Eligible(g)
            ELSE ~Open(jobs[g])
         /\ Eligible(g) /\ connection.pending # NoTarget =>
              connection.lifecycle = "verifying"

\* Active and enabled mean observed.  A connection is active only on the strength of a
\* refresh of its verified version that was started under its present control epoch: one
\* that was disabled and enabled again, or reconfigured, is never active because of what
\* an earlier refresh saw.  And a tool enabled on it is executable: its enabled version is
\* bound to the verified connection version, nothing is pending, and the current snapshot
\* shows the tool with exactly that content, whatever drifted, vanished or came back.
EnabledIsObserved ==
    connection.lifecycle = "active" =>
        /\ connection.pending = NoTarget
        /\ connection.snapshot.controlEpoch = connection.controlEpoch
        /\ connection.snapshot.target = connection.verified
        /\ \A t \in Tools : capability[t].status = "enabled" => Executable(t)

\* The two epochs a run pins identify its target: while both are unchanged and the
\* target is enabled and active, it is the very version the run was admitted for, so
\* comparing epochs is enough to detect every disable, enable, drift and
\* reconfiguration in between (_claim_target_is_current, _fence_attempt).
EpochsPinTarget ==
    pin # NoVersion =>
        LET c == capability[Tool] IN
        /\ connection.controlEpoch = pin.controlEpoch
        /\ c.statusEpoch = pin.statusEpoch
        => /\ c.status = "enabled" /\ c.enabled = pin.version
           /\ connection.lifecycle = "active" => Executable(Tool)

\* A tool is executable only in the version an operator last decided to enable: a
\* refresh may withdraw a capability and restore it, but it never overrides a disable
\* and never promotes content nobody reviewed.
OperatorDecides ==
    \A t \in Tools : Executable(t) => decision[t] = capability[t].enabled

\* What was settled stands, and what is published is newer and current: a refresh job
\* that ended keeps its outcome, and the snapshot moves only with the success of the
\* latest job, on a connection that is not disabled, to its present target
\* (publish_success, _lock_eligible_connection).
SnapshotIsFresh ==
    [][/\ \A g \in DOMAIN jobs :
            /\ g \in DOMAIN jobs'
            /\ jobs[g].status \in ClosedStatuses => jobs'[g] = jobs[g]
       /\ connection'.snapshot # connection.snapshot =>
            /\ jobs[Len(jobs)].status = "leased" /\ jobs'[Len(jobs)].status = "succeeded"
            /\ connection.lifecycle # "disabled"
            /\ connection.snapshot.controlEpoch <= connection'.snapshot.controlEpoch
            /\ connection'.snapshot.target = Target(connection)]_discoveryVars

RunTarget ==
    INSTANCE Target WITH
        capability <- [enabled |-> capability[Tool].status = "enabled",
                       statusEpoch |-> capability[Tool].statusEpoch],
        connection <- [lifecycle |-> connection.lifecycle,
                       controlEpoch |-> connection.controlEpoch]

\* A tool, seen through its status and the two epochs, behaves as the target that the
\* execution ledger assumes: refreshes, reviews and control operations show it nothing
\* else, and every change of its status has a new status epoch.
ImplementsTarget == RunTarget!TargetSpec
=============================================================================
