------------------------------- MODULE Target -------------------------------
(***************************************************************************)
(* What the execution ledger may rely on about the target of a run: one    *)
(* capability of one connection, and the actor on whose behalf the run is  *)
(* executed.  Versions, refresh jobs and snapshots are left out: Discovery *)
(* models them and is shown to implement this specification.               *)
(***************************************************************************)
EXTENDS Naturals

VARIABLES
    member,      \* the actor holds an admin or operator role
    capability,  \* is it enabled, and its status_epoch
    connection   \* its lifecycle, and its control_epoch

Lifecycles == {"verifying", "active", "degraded", "disabled"}

TargetTypeOK ==
    /\ member \in BOOLEAN
    /\ capability \in [enabled : BOOLEAN, statusEpoch : Nat]
    /\ connection \in [lifecycle : Lifecycles, controlEpoch : Nat]

\* set_membership_role: the actor loses or regains a role that may execute.
SetMembershipRole ==
    /\ member' = ~member
    /\ UNCHANGED <<capability, connection>>

\* A capability changes its status only together with its status_epoch.
StatusChanges ==
    \E e \in BOOLEAN :
        /\ e => ~capability.enabled
        /\ capability' = [enabled |-> e, statusEpoch |-> capability.statusEpoch + 1]

\* CapabilityService.enable and disable.
ChangeCapability ==
    /\ StatusChanges
    /\ capability'.enabled => connection.lifecycle = "active"
    /\ UNCHANGED <<member, connection>>

\* ConnectionService.disable, enable and append_version: each raises control_epoch.
ChangeConnection ==
    /\ \E next \in {"disabled", "verifying"} :
         /\ next = "disabled" => connection.lifecycle # "disabled"
         /\ connection' = [lifecycle |-> next, controlEpoch |-> connection.controlEpoch + 1]
    /\ UNCHANGED <<member, capability>>

\* publish_success and publish_failure leave control_epoch alone; a success may
\* change the capability it observed, or missed.
PublishRefresh ==
    /\ connection.lifecycle # "disabled"
    /\ \/ /\ connection' = [connection EXCEPT !.lifecycle = "active"]
          /\ StatusChanges \/ UNCHANGED capability
       \/ /\ connection' = [connection EXCEPT !.lifecycle = "degraded"]
          /\ UNCHANGED capability
    /\ UNCHANGED member

\* allocate_refresh_generation, for a connection degraded with a pending version.
AllocateRefresh ==
    /\ connection.lifecycle = "degraded"
    /\ connection' = [connection EXCEPT !.lifecycle = "verifying"]
    /\ UNCHANGED <<member, capability>>

TargetNext ==
    \/ SetMembershipRole
    \/ ChangeCapability
    \/ ChangeConnection
    \/ PublishRefresh
    \/ AllocateRefresh

TargetSpec == TargetTypeOK /\ [][TargetNext]_<<member, capability, connection>>
=============================================================================
