------------------------------ MODULE FirstLogin ------------------------------
(***************************************************************************)
(* IdentityService.resolve_user (identity/service.py).  Requests of a      *)
(* principal the system has not seen yet arrive together, and each would   *)
(* create its user.  The insert runs in a savepoint of the request's       *)
(* transaction; the unique constraint on (issuer, subject) makes it wait   *)
(* for another transaction's insert of the same principal, and fail once   *)
(* that commits.                                                           *)
(***************************************************************************)
EXTENDS Naturals, FiniteSets

CONSTANTS
    Logins,       \* the requests; a new user bears its request's name
    Principals,
    NoUser

LoginAssumption == NoUser \notin Logins

VARIABLES
    principal,    \* whose request it is
    users,        \* committed users: [id, principal]
    inserted,     \* uncommitted inserts
    snapshot,     \* the users committed when the request's last statement ran
    user,         \* what resolve_user returned
    pc

vars == <<principal, users, inserted, snapshot, user, pc>>

User == [id : Logins, principal : Principals]
Own(l) == [id |-> l, principal |-> principal[l]]
Same(l, set) == {u \in set : u.principal = principal[l]}

Init ==
    /\ principal \in [Logins -> Principals]
    /\ users = {} /\ inserted = {}
    /\ snapshot = [l \in Logins |-> {}]
    /\ user = [l \in Logins |-> NoUser]
    /\ pc = [l \in Logins |-> "select"]

Goto(l, label) == pc' = [pc EXCEPT ![l] = label]
Resolved(l, found) == \E u \in found : user' = [user EXCEPT ![l] = u.id]

\* The first look at the table.
Select(l) ==
    /\ pc[l] = "select"
    /\ snapshot' = [snapshot EXCEPT ![l] = users]
    /\ \/ Same(l, users) # {} /\ Resolved(l, Same(l, users)) /\ Goto(l, "resolved")
       \/ Same(l, users) = {} /\ Goto(l, "insert") /\ UNCHANGED user
    /\ UNCHANGED <<principal, users, inserted>>

\* Mutant: the insert does not wait for another transaction's.
Insert_Eager(l) ==
    /\ pc[l] = "insert"
    /\ \/ /\ Same(l, users) = {}
          /\ inserted' = inserted \cup {Own(l)}
          /\ user' = [user EXCEPT ![l] = l] /\ Goto(l, "resolved")
       \/ /\ Same(l, users) # {}
          /\ Goto(l, "reload") /\ UNCHANGED <<inserted, user>>
    /\ UNCHANGED <<principal, users, snapshot>>

\* The insert, in its savepoint: it waits while another transaction's insert
\* of the principal is undecided, then succeeds, or raises IntegrityError and
\* only the savepoint rolls back.
Insert(l) ==
    /\ pc[l] = "insert" /\ Same(l, inserted) = {}
    /\ \/ /\ Same(l, users) = {}
          /\ inserted' = inserted \cup {Own(l)}
          /\ user' = [user EXCEPT ![l] = l] /\ Goto(l, "resolved")
       \/ /\ Same(l, users) # {}
          /\ Goto(l, "reload") /\ UNCHANGED <<inserted, user>>
    /\ UNCHANGED <<principal, users, snapshot>>

\* Mutant: the reload sees what the first look saw.
Visible_Snapshot(l) == Same(l, snapshot[l])

\* Every statement sees what is committed when it starts (READ COMMITTED).
Visible(l) == Same(l, users)

\* The reload of the winner's row; without one the IntegrityError is raised.
Reload(l) ==
    /\ pc[l] = "reload"
    /\ \/ Visible(l) # {} /\ Resolved(l, Visible(l)) /\ Goto(l, "resolved")
       \/ Visible(l) = {} /\ Goto(l, "raised") /\ UNCHANGED user
    /\ UNCHANGED <<principal, users, inserted, snapshot>>

\* The request goes on with its user and commits.
Commit(l) ==
    /\ pc[l] = "resolved" /\ Goto(l, "committed")
    /\ users' = users \cup (inserted \cap {Own(l)})
    /\ inserted' = inserted \ {Own(l)}
    /\ UNCHANGED <<principal, snapshot, user>>

\* It fails for a reason of its own, at any point: everything rolls back.
Rollback(l) ==
    /\ pc[l] \in {"select", "insert", "reload", "resolved"} /\ Goto(l, "failed")
    /\ inserted' = inserted \ {Own(l)}
    /\ UNCHANGED <<principal, users, snapshot, user>>

Step(l) == Select(l) \/ Insert(l) \/ Reload(l) \/ Commit(l) \/ Rollback(l)

Next == \E l \in Logins : Step(l)

Spec == Init /\ [][Next]_vars
-----------------------------------------------------------------------------
TypeOK ==
    /\ users \subseteq User /\ inserted \subseteq User
    /\ principal \in [Logins -> Principals]
    /\ user \in [Logins -> Logins \cup {NoUser}]
    /\ \A p \in Principals : Cardinality({u \in users \cup inserted : u.principal = p}) <= 1
    /\ pc \in [Logins -> {"select", "insert", "reload", "resolved", "committed", "failed", "raised"}]

\* Requests of one principal that were let in act as one user, whose row is
\* committed: none keeps the identity of an insert that was rolled back, and
\* no second user appears beside the winner's.
OneIdentity ==
    \A l \in Logins : pc[l] = "committed" =>
        /\ \E u \in users : u.id = user[l] /\ u.principal = principal[l]
        /\ \A m \in Logins : pc[m] = "committed" /\ principal[m] = principal[l] => user[m] = user[l]

\* A first login is never refused because another was faster: once the
\* unique constraint has failed the insert, the winner's row is visible.
LosersFindTheWinner == \A l \in Logins : pc[l] # "raised"
=============================================================================
