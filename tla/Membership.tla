---------------------------- MODULE Membership ----------------------------
(***************************************************************************)
(* identity/service.py and identity/repository.py for one workspace: a     *)
(* request reads its actor's role, then locks the workspace, reads the     *)
(* role again, and changes a membership or something else.  Requests run   *)
(* in transactions of their own; what one wrote is seen when it commits.   *)
(***************************************************************************)
EXTENDS FiniteSets, Naturals

CONSTANTS
    Users,
    Sessions,      \* requests in progress
    NoSession,     \* nobody holds the workspace's row lock
    Owner          \* the user the workspace was created for

OwnerAssumption == Owner \in Users
SessionsAssumption == NoSession \notin Sessions

VARIABLES
    members,   \* the committed workspace_memberships
    holder,    \* the session that holds the workspace's row lock
    txn        \* each session's request

vars == <<members, holder, txn>>

Roles == {"admin", "operator", "viewer"}

\* set_membership_role, and any other mutation that locks the workspace.
Required(kind) == IF kind = "set_role" THEN {"admin"} ELSE {"admin", "operator"}

Idle == [step |-> "idle"]

\* claimed: the role of the request's WorkspaceContext.
Requests ==
    [step : {"authorized", "locked", "flushed"}, actor : Users, claimed : Roles,
     kind : {"set_role", "operate"}, user : Users, role : Roles]

\* The types of the tables; whoever passed the lock holds it.
TypeOK ==
    /\ members \in [Users -> Roles \cup {"none"}]
    /\ holder \in Sessions \cup {NoSession}
    /\ txn \in [Sessions -> Requests \cup {Idle}]
    /\ \A s \in Sessions : txn[s].step \in {"locked", "flushed"} => holder = s

\* create_workspace
Init ==
    /\ members = [u \in Users |-> IF u = Owner THEN "admin" ELSE "none"]
    /\ holder = NoSession
    /\ txn = [s \in Sessions |-> Idle]
-----------------------------------------------------------------------------
\* AuthorizationService.authorize: the context keeps the role it saw. require_role looks
\* at the context.
Authorize(s, actor, kind, user, role) ==
    /\ txn[s] = Idle
    /\ members[actor] \in Required(kind)
    /\ txn' = [txn EXCEPT ![s] = [step |-> "authorized", actor |-> actor, kind |-> kind,
                                  claimed |-> members[actor], user |-> user, role |-> role]]
    /\ UNCHANGED <<members, holder>>

\* Mutant: the workspace row is read without FOR UPDATE.
LockWorkspace_Unlocked(s) ==
    /\ txn[s].step = "authorized"
    /\ holder' = s
    /\ txn' = [txn EXCEPT ![s].step = "locked"]
    /\ UNCHANGED members

\* require_current_role with serialize_workspace: the lock is waited for.
LockWorkspace(s) ==
    /\ txn[s].step = "authorized"
    /\ holder = NoSession
    /\ holder' = s
    /\ txn' = [txn EXCEPT ![s].step = "locked"]
    /\ UNCHANGED members

\* Mutant: the role of the context is trusted.
CurrentRole_Claimed(t) == t.claimed

\* The membership read again under the lock.
CurrentRole(t) == members[t.actor]

Admins == {u \in Users : members[u] = "admin"}

\* A demotion of an admin needs a second one.
LeavesAdmin(t) ==
    members[t.user] = "admin" /\ t.role # "admin" => Cardinality(Admins) > 1

\* The checks that follow, and the flush of the change.
Flush(s) ==
    LET t == txn[s] IN
    /\ t.step = "locked"
    /\ CurrentRole(t) \in Required(t.kind)
    /\ t.kind = "set_role" => LeavesAdmin(t)
    /\ txn' = [txn EXCEPT ![s].step = "flushed"]
    /\ UNCHANGED <<members, holder>>

Commit(s) ==
    LET t == txn[s] IN
    /\ t.step = "flushed"
    /\ members' = IF t.kind = "set_role" THEN [members EXCEPT ![t.user] = t.role] ELSE members
    /\ holder' = IF holder = s THEN NoSession ELSE holder
    /\ txn' = [txn EXCEPT ![s] = Idle]

\* AuthorizationDenied, a failing operation or a lost connection.
RollBack(s) ==
    /\ txn[s] # Idle
    /\ holder' = IF holder = s THEN NoSession ELSE holder
    /\ txn' = [txn EXCEPT ![s] = Idle]
    /\ UNCHANGED members

Next ==
    \E s \in Sessions :
        \/ \E a, u \in Users, r \in Roles : Authorize(s, a, "set_role", u, r)
        \/ \E a \in Users : Authorize(s, a, "operate", a, "viewer")
        \/ LockWorkspace(s) \/ Flush(s) \/ Commit(s) \/ RollBack(s)

Spec == Init /\ [][Next]_vars
-----------------------------------------------------------------------------
(* Properties. *)

\* The workspace keeps an admin, whoever demotes whom at the same time.
AdminRemains == Admins # {}

\* What is about to commit was asked for by a user who has the role for it now, and the
\* lock it holds keeps that so: a demotion that is committed stops every request of its
\* user, those in progress included.
CommitsAreAuthorized ==
    \A s \in Sessions :
        txn[s].step = "flushed" => members[txn[s].actor] \in Required(txn[s].kind)
=============================================================================
