---------------------------- MODULE Requests_proofs ----------------------------
(***************************************************************************)
(* Proofs about the requests that meet in the database, for any number of  *)
(* sessions, users, logins, tokens, runs, rows, clocks and deployments: a  *)
(* workspace keeps its admin, a principal its one identity, an idempotency *)
(* key its one run, a replay record its one mutation, and a listing skips  *)
(* nothing.                                                                *)
(***************************************************************************)
EXTENDS MCRequests, FiniteSetTheorems, SequenceTheorems, TLAPS

(* Membership. *)

\* Under the workspace's lock a demotion that passed its checks still leaves an admin.
DemotionsLeaveAdmin ==
    \A s \in Sessions :
        txn[s].step = "flushed" /\ txn[s].kind = "set_role" => Membership!LeavesAdmin(txn[s])

MemberInv ==
    /\ Membership!TypeOK
    /\ Membership!AdminRemains
    /\ Membership!CommitsAreAuthorized
    /\ DemotionsLeaveAdmin

\* A session's request.
LEMMA RequestFacts ==
    ASSUME Membership!TypeOK, NEW s \in Sessions
    PROVE  /\ txn[s] \in Membership!Requests \cup {Membership!Idle}
           /\ txn[s].step # "idle" => txn[s] \in Membership!Requests
           /\ Membership!Idle.step = "idle"
           /\ NoSession \notin Sessions
BY RequestsAssumption DEF Membership!TypeOK, Membership!Idle, Membership!SessionsAssumption

\* A session moves on: the others, their requests and what they locked stay.
LEMMA MemberMoves ==
    ASSUME MemberInv, NEW s \in Sessions,
           NEW t \in Membership!Requests \cup {Membership!Idle},
           txn' = [txn EXCEPT ![s] = t], members' = members,
           holder' \in Sessions \cup {NoSession},
           \A u \in Sessions : u # s /\ holder = u => holder' = u,
           t.step \in {"locked", "flushed"} => holder' = s,
           t.step = "flushed" =>
             /\ members[t.actor] \in Membership!Required(t.kind)
             /\ t.kind = "set_role" => Membership!LeavesAdmin(t)
    PROVE  MemberInv'
<1>1. txn' \in [Sessions -> Membership!Requests \cup {Membership!Idle}]
  BY DEF MemberInv, Membership!TypeOK
<1>2. \A u \in Sessions : txn'[u] = IF u = s THEN t ELSE txn[u]
  BY DEF MemberInv, Membership!TypeOK
<1>3. Membership!TypeOK'
  BY <1>1, <1>2 DEF MemberInv, Membership!TypeOK
<1>4. Membership!AdminRemains' /\ Membership!Admins' = Membership!Admins
  BY DEF MemberInv, Membership!AdminRemains, Membership!Admins
<1>5. Membership!CommitsAreAuthorized'
  BY <1>2 DEF MemberInv, Membership!CommitsAreAuthorized
<1>6. DemotionsLeaveAdmin'
  BY <1>2, <1>4 DEF MemberInv, DemotionsLeaveAdmin, Membership!LeavesAdmin
<1>7. QED
  BY <1>3, <1>4, <1>5, <1>6 DEF MemberInv

\* More than one admin, so one beside any user.
LEMMA AnotherAdmin ==
    ASSUME NEW u, Membership!Cardinality(Membership!Admins) > 1
    PROVE  \E a \in Membership!Admins : a # u
<1>1. SUFFICES ASSUME Membership!Admins \subseteq {u} PROVE FALSE
  OBVIOUS
<1>2. IsFiniteSet({u}) /\ Cardinality({u}) = 1
  BY FS_Singleton
<1>3. Cardinality(Membership!Admins) <= 1 /\ Cardinality(Membership!Admins) \in Nat
  BY <1>1, <1>2, FS_Subset, FS_CardinalityType
<1>4. Membership!Cardinality(Membership!Admins) = Cardinality(Membership!Admins)
  BY DEF Membership!Cardinality, Cardinality
<1>5. QED
  BY <1>3, <1>4

\* The commit of a change: it holds the lock, so no other request is past its checks.
LEMMA MemberCommits ==
    ASSUME MemberInv, NEW s \in Sessions, Membership!Commit(s)
    PROVE  MemberInv'
<1> DEFINE t == txn[s]
<1>1. /\ t.step = "flushed" /\ txn' = [txn EXCEPT ![s] = Membership!Idle]
      /\ members' = IF t.kind = "set_role" THEN [members EXCEPT ![t.user] = t.role] ELSE members
      /\ holder' = IF holder = s THEN NoSession ELSE holder
  BY DEF Membership!Commit
<1>2. holder = s /\ holder' = NoSession /\ t \in Membership!Requests
  BY <1>1, RequestFacts DEF MemberInv, Membership!TypeOK
<1>3. t.user \in Users /\ t.role \in Membership!Roles
  BY <1>2 DEF Membership!Requests
<1>4. \A u \in Sessions : txn'[u].step \notin {"locked", "flushed"}
  <2>1. ASSUME NEW u \in Sessions, u # s PROVE txn[u].step \notin {"locked", "flushed"}
    BY <1>2, <2>1 DEF MemberInv, Membership!TypeOK
  <2>2. \A u \in Sessions : txn'[u] = IF u = s THEN Membership!Idle ELSE txn[u]
    BY <1>1 DEF MemberInv, Membership!TypeOK
  <2>3. QED
    BY <2>1, <2>2, RequestFacts DEF MemberInv
<1>5. Membership!TypeOK'
  <2>1. members' \in [Users -> Membership!Roles \cup {"none"}]
    BY <1>1, <1>3 DEF MemberInv, Membership!TypeOK
  <2>2. txn' \in [Sessions -> Membership!Requests \cup {Membership!Idle}]
    BY <1>1 DEF MemberInv, Membership!TypeOK
  <2>3. QED
    BY <1>2, <1>4, <2>1, <2>2 DEF Membership!TypeOK
<1>6. Membership!AdminRemains'
  <2>1. CASE t.kind = "set_role" /\ members[t.user] = "admin" /\ t.role # "admin"
    <3>1. Membership!Cardinality(Membership!Admins) > 1
      BY <1>1, <2>1 DEF MemberInv, DemotionsLeaveAdmin, Membership!LeavesAdmin
    <3>2. PICK a \in Membership!Admins : a # t.user
      BY <3>1, AnotherAdmin
    <3>3. a \in Users /\ members'[a] = "admin"
      BY <1>1, <2>1, <3>2 DEF Membership!Admins, MemberInv, Membership!TypeOK
    <3>4. QED
      BY <3>3 DEF Membership!AdminRemains, Membership!Admins
  <2>2. CASE ~(t.kind = "set_role" /\ members[t.user] = "admin" /\ t.role # "admin")
    <3>1. PICK a \in Users : members[a] = "admin"
      BY DEF MemberInv, Membership!AdminRemains, Membership!Admins
    <3>2. members'[a] = "admin"
      BY <1>1, <2>2, <3>1 DEF MemberInv, Membership!TypeOK
    <3>3. QED
      BY <3>2 DEF Membership!AdminRemains, Membership!Admins
  <2>3. QED
    BY <2>1, <2>2
<1>7. QED
  BY <1>4, <1>5, <1>6 DEF MemberInv, Membership!CommitsAreAuthorized, DemotionsLeaveAdmin

\* Every step of a request, and stuttering.
LEMMA MemberStep ==
    ASSUME MemberInv, Membership!Next \/ UNCHANGED memberVars
    PROVE  MemberInv'
<1>1. ASSUME NEW s \in Sessions, NEW a \in Users, NEW u \in Users, NEW r \in Membership!Roles,
             NEW kind \in {"set_role", "operate"}, Membership!Authorize(s, a, kind, u, r)
      PROVE  MemberInv'
  <2> DEFINE t == [step |-> "authorized", actor |-> a, kind |-> kind, claimed |-> members[a],
                   user |-> u, role |-> r]
  <2>1. /\ txn' = [txn EXCEPT ![s] = t] /\ members' = members /\ holder' = holder
        /\ members[a] \in Membership!Roles
    BY <1>1 DEF Membership!Authorize, Membership!Required, Membership!Roles
  <2>2. t \in Membership!Requests /\ t.step = "authorized"
    BY <2>1 DEF Membership!Requests
  <2> HIDE DEF t
  <2>3. holder' \in Sessions \cup {NoSession}
    BY <2>1 DEF MemberInv, Membership!TypeOK
  <2>4. QED
    BY <2>1, <2>2, <2>3, MemberMoves
<1>2. ASSUME NEW s \in Sessions, Membership!LockWorkspace(s)
      PROVE  MemberInv'
  <2> DEFINE t == [txn[s] EXCEPT !.step = "locked"]
  <2>1. /\ txn' = [txn EXCEPT ![s] = t] /\ members' = members /\ holder = NoSession /\ holder' = s
        /\ txn[s].step = "authorized"
    BY <1>2 DEF Membership!LockWorkspace
  <2>2. txn[s] \in Membership!Requests /\ NoSession \notin Sessions
    BY <2>1, RequestFacts DEF MemberInv
  <2>3. t \in Membership!Requests /\ t.step = "locked"
    BY <2>2 DEF Membership!Requests
  <2> HIDE DEF t
  <2>4. QED
    BY <2>1, <2>2, <2>3, MemberMoves
<1>3. ASSUME NEW s \in Sessions, Membership!Flush(s)
      PROVE  MemberInv'
  <2> DEFINE t == [txn[s] EXCEPT !.step = "flushed"]
  <2>1. /\ txn' = [txn EXCEPT ![s] = t] /\ members' = members /\ holder' = holder
        /\ txn[s].step = "locked" /\ members[txn[s].actor] \in Membership!Required(txn[s].kind)
        /\ txn[s].kind = "set_role" => Membership!LeavesAdmin(txn[s])
    BY <1>3 DEF Membership!Flush, Membership!CurrentRole
  <2>2. txn[s] \in Membership!Requests
    BY <2>1, RequestFacts DEF MemberInv
  <2>3. /\ t \in Membership!Requests /\ t.step = "flushed" /\ t.actor = txn[s].actor
        /\ t.kind = txn[s].kind /\ t.user = txn[s].user /\ t.role = txn[s].role
    BY <2>2 DEF Membership!Requests
  <2> HIDE DEF t
  <2>4. holder = s
    BY <2>1 DEF MemberInv, Membership!TypeOK
  <2>5. t.kind = "set_role" => Membership!LeavesAdmin(t)
    BY <2>1, <2>3 DEF Membership!LeavesAdmin
  <2>6. QED
    BY <2>1, <2>3, <2>4, <2>5, MemberMoves
<1>4. ASSUME NEW s \in Sessions, Membership!RollBack(s)
      PROVE  MemberInv'
  <2>1. /\ txn' = [txn EXCEPT ![s] = Membership!Idle] /\ members' = members
        /\ holder' = IF holder = s THEN NoSession ELSE holder
    BY <1>4 DEF Membership!RollBack
  <2>2. holder' \in Sessions \cup {NoSession}
    BY <2>1 DEF MemberInv, Membership!TypeOK
  <2>3. Membership!Idle.step = "idle"
    BY RequestFacts DEF MemberInv
  <2>4. QED
    BY <2>1, <2>2, <2>3, MemberMoves
<1>5. CASE UNCHANGED memberVars
  BY <1>5 DEF memberVars, MemberInv, Membership!TypeOK, Membership!AdminRemains, Membership!Admins,
              Membership!CommitsAreAuthorized, DemotionsLeaveAdmin, Membership!LeavesAdmin
<1>6. QED
  BY <1>1, <1>2, <1>3, <1>4, <1>5, MemberCommits DEF Membership!Next, Membership!Roles

\* A workspace as create_workspace leaves it.
LEMMA MemberInit ==
    Membership!Init => MemberInv
<1> SUFFICES ASSUME Membership!Init PROVE MemberInv
  OBVIOUS
<1>1. Owner \in Users /\ NoSession \notin Sessions
  BY RequestsAssumption DEF Membership!OwnerAssumption, Membership!SessionsAssumption
<1>2. \A s \in Sessions : txn[s].step = "idle"
  BY DEF Membership!Init, Membership!Idle
<1>3. Membership!TypeOK
  BY <1>2 DEF Membership!Init, Membership!TypeOK, Membership!Roles
<1>4. QED
  BY <1>1, <1>2, <1>3 DEF MemberInv, Membership!Init, Membership!AdminRemains, Membership!Admins,
                    Membership!CommitsAreAuthorized, DemotionsLeaveAdmin
-----------------------------------------------------------------------------
(* First logins. *)

Labels == {"select", "insert", "reload", "resolved", "committed", "failed", "raised"}

\* The unique constraint on (issuer, subject), over committed and uncommitted rows.
Unique == \A u, v \in users \cup inserted : u.principal = v.principal => u = v

\* l knows user x of its principal from a committed row.
Known(l, x) == \E u \in users : u.id = x /\ u.principal = principal[l]

\* Where request l is, and what it has found or inserted.
LoginOK(l) ==
    /\ pc[l] = "reload" => FirstLogin!Same(l, users) # {}
    /\ pc[l] = "resolved" =>
         Known(l, user[l]) \/ (user[l] = l /\ FirstLogin!Own(l) \in inserted)
    /\ pc[l] = "committed" => Known(l, user[l])
    /\ pc[l] # "raised"

LoginInv ==
    /\ users \subseteq FirstLogin!User /\ inserted \subseteq FirstLogin!User
    /\ principal \in [Logins -> Principals]
    /\ user \in [Logins -> Logins \cup {NoUser}]
    /\ pc \in [Logins -> Labels]
    /\ Unique
    /\ \A l \in Logins : LoginOK(l)

\* A user row.
LEMMA OwnRow ==
    ASSUME LoginInv, NEW l \in Logins
    PROVE  /\ FirstLogin!Own(l) \in FirstLogin!User /\ FirstLogin!Own(l).id = l
           /\ FirstLogin!Own(l).principal = principal[l]
           /\ \A m \in Logins : m # l => FirstLogin!Own(m) # FirstLogin!Own(l)
BY DEF LoginInv, FirstLogin!Own, FirstLogin!User

\* A step of request l: the committed users may grow, the inserts of others stay.
LEMMA LoginMoves ==
    ASSUME LoginInv, NEW l \in Logins, NEW label \in Labels, NEW x \in Logins \cup {NoUser},
           pc' = [pc EXCEPT ![l] = label], user' = [user EXCEPT ![l] = x],
           principal' = principal,
           users \subseteq users', users' \subseteq FirstLogin!User,
           inserted' \subseteq FirstLogin!User, Unique',
           \A m \in Logins : m # l /\ FirstLogin!Own(m) \in inserted =>
              FirstLogin!Own(m) \in inserted',
           label = "reload" => FirstLogin!Same(l, users') # {},
           label = "resolved" =>
              Known(l, x)' \/ (x = l /\ FirstLogin!Own(l) \in inserted'),
           label = "committed" => Known(l, x)',
           label # "raised"
    PROVE  LoginInv'
<1>1. /\ pc' \in [Logins -> Labels] /\ user' \in [Logins -> Logins \cup {NoUser}]
      /\ pc'[l] = label /\ user'[l] = x
      /\ \A m \in Logins : m # l => pc'[m] = pc[m] /\ user'[m] = user[m]
  BY DEF LoginInv
<1>2. \A m \in Logins : FirstLogin!Own(m)' = FirstLogin!Own(m)
  BY DEF FirstLogin!Own
<1>3. LoginOK(l)'
  BY <1>1, <1>2 DEF LoginOK, FirstLogin!Same
<1>4. ASSUME NEW m \in Logins, m # l PROVE LoginOK(m)'
  <2>1. LoginOK(m) /\ pc'[m] = pc[m] /\ user'[m] = user[m]
    BY <1>1, <1>4 DEF LoginInv
  <2>2. Known(m, user[m]) => Known(m, user[m])'
    BY <2>1 DEF Known
  <2>3. FirstLogin!Same(m, users) \subseteq FirstLogin!Same(m, users)'
    BY DEF FirstLogin!Same
  <2>4. QED
    BY <1>2, <1>4, <2>1, <2>2, <2>3 DEF LoginOK, Known
<1>5. QED
  BY <1>1, <1>3, <1>4 DEF LoginInv

\* Each step of resolve_user, and stuttering.
LEMMA LoginStep ==
    ASSUME LoginInv, FirstLogin!Next \/ UNCHANGED loginVars
    PROVE  LoginInv'
<1>1. ASSUME NEW l \in Logins, NEW found, found = FirstLogin!Same(l, users),
             FirstLogin!Resolved(l, found)
      PROVE  \E x \in Logins : user' = [user EXCEPT ![l] = x] /\ Known(l, x)
  BY <1>1 DEF FirstLogin!Resolved, FirstLogin!Same, Known, LoginInv, FirstLogin!User
<1>2. ASSUME UNCHANGED <<users, inserted, principal>>
      PROVE  Unique' /\ \A l \in Logins, x \in Logins : Known(l, x) => Known(l, x)'
  BY <1>2 DEF LoginInv, Unique, Known
<1>3. \A l \in Logins : user[l] \in Logins \cup {NoUser}
  BY DEF LoginInv
<1>4. ASSUME NEW l \in Logins, FirstLogin!Select(l) \/ FirstLogin!Reload(l) PROVE LoginInv'
  <2>1. UNCHANGED <<users, inserted, principal>>
    BY <1>4 DEF FirstLogin!Select, FirstLogin!Reload
  <2>2. CASE FirstLogin!Resolved(l, FirstLogin!Same(l, users)) /\ FirstLogin!Goto(l, "resolved")
    <3>1. PICK x \in Logins : user' = [user EXCEPT ![l] = x] /\ Known(l, x)
      BY <1>1, <2>2
    <3>2. pc' = [pc EXCEPT ![l] = "resolved"]
      BY <2>2 DEF FirstLogin!Goto
    <3>3. QED
      BY <1>2, <2>1, <3>1, <3>2, LoginMoves DEF Labels, LoginInv
  <2>3. CASE FirstLogin!Goto(l, "insert") /\ UNCHANGED user
    <3>1. pc' = [pc EXCEPT ![l] = "insert"] /\ user' = [user EXCEPT ![l] = user[l]]
      BY <2>3 DEF FirstLogin!Goto, LoginInv
    <3>2. QED
      BY <1>2, <1>3, <2>1, <3>1, LoginMoves DEF Labels, LoginInv
  <2>4. ~(pc[l] = "reload" /\ FirstLogin!Visible(l) = {})
    BY DEF LoginInv, LoginOK, FirstLogin!Visible
  <2>5. QED
    BY <1>4, <2>2, <2>3, <2>4 DEF FirstLogin!Select, FirstLogin!Reload, FirstLogin!Visible
<1>5. ASSUME NEW l \in Logins, FirstLogin!Insert(l) PROVE LoginInv'
  <2>1. UNCHANGED <<users, principal>>
    BY <1>5 DEF FirstLogin!Insert
  <2>2. CASE /\ FirstLogin!Same(l, users) = {} /\ FirstLogin!Same(l, inserted) = {}
             /\ inserted' = inserted \cup {FirstLogin!Own(l)}
             /\ user' = [user EXCEPT ![l] = l] /\ FirstLogin!Goto(l, "resolved")
    <3>1. pc' = [pc EXCEPT ![l] = "resolved"]
      BY <2>2 DEF FirstLogin!Goto
    <3>2. \A u \in users \cup inserted : u.principal # principal[l]
      BY <2>2 DEF FirstLogin!Same
    <3>3. Unique'
      BY <2>1, <2>2, <3>2, OwnRow DEF LoginInv, Unique
    <3>4. inserted' \subseteq FirstLogin!User
      BY <2>2, OwnRow DEF LoginInv
    <3>5. QED
      BY <2>1, <2>2, <3>1, <3>3, <3>4, LoginMoves DEF Labels, LoginInv
  <2>3. CASE FirstLogin!Same(l, users) # {} /\ FirstLogin!Goto(l, "reload") /\ UNCHANGED <<inserted, user>>
    <3>1. pc' = [pc EXCEPT ![l] = "reload"] /\ user' = [user EXCEPT ![l] = user[l]]
      BY <2>3 DEF FirstLogin!Goto, LoginInv
    <3>2. FirstLogin!Same(l, users') # {}
      BY <2>1, <2>3 DEF FirstLogin!Same
    <3>3. QED
      BY <1>2, <1>3, <2>1, <2>3, <3>1, <3>2, LoginMoves DEF Labels, LoginInv
  <2>4. QED
    BY <1>5, <2>2, <2>3 DEF FirstLogin!Insert
<1>6. ASSUME NEW l \in Logins, FirstLogin!Commit(l) PROVE LoginInv'
  <2>1. /\ pc[l] = "resolved" /\ pc' = [pc EXCEPT ![l] = "committed"]
        /\ users' = users \cup (inserted \cap {FirstLogin!Own(l)})
        /\ inserted' = inserted \ {FirstLogin!Own(l)}
        /\ principal' = principal /\ user' = [user EXCEPT ![l] = user[l]]
    BY <1>6 DEF FirstLogin!Commit, FirstLogin!Goto, LoginInv
  <2>2. Unique'
    BY <2>1 DEF LoginInv, Unique
  <2>3. Known(l, user[l]) \/ (user[l] = l /\ FirstLogin!Own(l) \in inserted)
    BY <2>1 DEF LoginInv, LoginOK
  <2>4. \E u \in users' : u.id = user[l] /\ u.principal = principal'[l]
    BY <2>1, <2>3, OwnRow DEF Known
  <2>5. PICK x : x = user[l]
    OBVIOUS
  <2>6. Known(l, x)' /\ x \in Logins \cup {NoUser} /\ user' = [user EXCEPT ![l] = x]
    BY <1>3, <2>1, <2>4, <2>5 DEF Known
  <2>7. \A m \in Logins : m # l /\ FirstLogin!Own(m) \in inserted => FirstLogin!Own(m) \in inserted'
    BY <2>1, OwnRow
  <2>8. users' \subseteq FirstLogin!User /\ inserted' \subseteq FirstLogin!User /\ users \subseteq users'
    BY <2>1 DEF LoginInv
  <2>9. QED
    BY <2>1, <2>2, <2>6, <2>7, <2>8, LoginMoves DEF Labels
<1>7. ASSUME NEW l \in Logins, FirstLogin!Rollback(l) PROVE LoginInv'
  <2>1. /\ pc' = [pc EXCEPT ![l] = "failed"] /\ inserted' = inserted \ {FirstLogin!Own(l)}
        /\ UNCHANGED <<principal, users>> /\ user' = [user EXCEPT ![l] = user[l]]
    BY <1>7 DEF FirstLogin!Rollback, FirstLogin!Goto, LoginInv
  <2>2. Unique'
    BY <2>1 DEF LoginInv, Unique
  <2>3. \A m \in Logins : m # l /\ FirstLogin!Own(m) \in inserted => FirstLogin!Own(m) \in inserted'
    BY <2>1, OwnRow
  <2>4. QED
    BY <1>3, <2>1, <2>2, <2>3, LoginMoves DEF Labels, LoginInv
<1>8. CASE UNCHANGED loginVars
  BY <1>8 DEF loginVars, LoginInv, Unique, LoginOK, Known, FirstLogin!Same, FirstLogin!Own
<1>9. QED
  BY <1>4, <1>5, <1>6, <1>7, <1>8 DEF FirstLogin!Next, FirstLogin!Step

\* Nobody is known yet.
LEMMA LoginInit == FirstLogin!Init => LoginInv
BY DEF FirstLogin!Init, LoginInv, Unique, LoginOK, Labels

\* What the invariant says about identities.
LEMMA LoginSafe ==
    ASSUME LoginInv
    PROVE  FirstLogin!TypeOK /\ FirstLogin!OneIdentity /\ FirstLogin!LosersFindTheWinner
<1>1. ASSUME NEW p \in Principals
      PROVE  FirstLogin!Cardinality({u \in users \cup inserted : u.principal = p}) <= 1
  <2> DEFINE S == {u \in users \cup inserted : u.principal = p}
  <2>1. FirstLogin!Cardinality(S) = Cardinality(S)
    BY DEF FirstLogin!Cardinality, Cardinality
  <2>2. CASE S = {}
    BY <2>1, <2>2, FS_EmptySet
  <2>3. CASE S # {}
    <3>1. PICK u : u \in S
      BY <2>3
    <3>2. S = {u}
      BY <3>1 DEF LoginInv, Unique
    <3>3. Cardinality({u}) = 1
      BY FS_Singleton
    <3> HIDE DEF S
    <3>4. Cardinality(S) <= 1
      BY <3>2, <3>3
    <3>5. QED
      BY <2>1, <3>4 DEF S
  <2>4. QED
    BY <2>2, <2>3
<1>2. FirstLogin!TypeOK
  BY <1>1 DEF LoginInv, FirstLogin!TypeOK, Labels
<1>3. FirstLogin!OneIdentity
  <2>1. \A l \in Logins : pc[l] = "committed" => Known(l, user[l])
    BY DEF LoginInv, LoginOK
  <2>2. ASSUME NEW l \in Logins, NEW m \in Logins, Known(l, user[l]), Known(m, user[m]),
               principal[m] = principal[l]
        PROVE  user[m] = user[l]
    BY <2>2 DEF Known, LoginInv, Unique
  <2>3. QED
    BY <2>1, <2>2 DEF FirstLogin!OneIdentity, Known
<1>4. QED
  BY <1>2, <1>3 DEF LoginInv, LoginOK, FirstLogin!LosersFindTheWinner
-----------------------------------------------------------------------------
(* Run admission. *)

\* What is kept of run i. A run that exists has its idempotency record and its nonce; a
\* deleted run's token has expired, since retention is no shorter than a token's lifetime.
Kept(i) ==
    /\ runs[i].nonce \in DOMAIN tokens
    /\ runs[i].status = "ended" =>
         runs[i].endedAt <= now /\ tokens[runs[i].nonce].exp <= runs[i].endedAt + TTL
    /\ runs[i].status = "deleted" => tokens[runs[i].nonce].exp <= now
    /\ runs[i].status # "deleted" =>
         /\ \E r \in records : r.run = i /\ r.actor = runs[i].actor /\ r.key = runs[i].key
         /\ \E n \in nonces : n.run = i /\ n.nonce = runs[i].nonce

\* A request that was opened shows a token that was signed.
Confirmed(q) == q.step # "none" => q.nonce \in DOMAIN tokens

AdmissionInv ==
    /\ Admission!TypeOK
    /\ Len(tokens) <= MaxTokens
    /\ \A n \in DOMAIN tokens : tokens[n].exp <= now + TTL
    /\ \A s \in Sessions : Confirmed(req[s])
    /\ \A x \in records \cup nonces : x.run \in DOMAIN runs
    /\ \A i \in DOMAIN runs : Kept(i)
    /\ Admission!OneRunPerKey
    /\ Admission!OneRunPerToken

Token == [actor : Actors, digest : Admission!Digests, kid : Admission!Versions,
          exp : Admission!Times]

Run == [actor : Actors, key : RunKeys, body : RunBodies, nonce : Admission!Nonces,
        status : {"active", "ended", "deleted"}, endedAt : Admission!Times]

\* The bounds, and a ring's first version, the one that signs.
LEMMA RingFacts ==
    /\ TTL \in Nat /\ Retention \in Nat /\ TTL <= Retention
    /\ LastInstant \in Nat /\ MaxTokens \in Nat /\ MaxRuns \in Nat
    /\ \A d \in Deployments :
         /\ d.confirmation[1] \in Admission!Versions
         /\ d.idempotency[1] \in Admission!Versions
         /\ Admission!InRing(d.idempotency, d.idempotency[1])
<1>1. \A d \in Deployments : 1 \in DOMAIN d.confirmation /\ 1 \in DOMAIN d.idempotency
  BY RequestsAssumption DEF Admission!DeploymentsAssumption
<1>2. QED
  BY <1>1, RequestsAssumption
  DEF Admission!TimesAssumption, Admission!BoundsAssumption, Admission!Versions, Admission!InRing

\* The tables of a state that satisfies the invariant.
LEMMA TableFacts ==
    ASSUME AdmissionInv
    PROVE  /\ now \in 1 .. LastInstant
           /\ tokens \in Seq(Token) /\ DOMAIN tokens = 1 .. Len(tokens) /\ Len(tokens) \in Nat
           /\ runs \in Seq(Run) /\ DOMAIN runs = 1 .. Len(runs) /\ Len(runs) \in Nat
           /\ \A n \in DOMAIN tokens : tokens[n] \in Token /\ n \in Admission!Nonces
           /\ \A i \in DOMAIN runs : runs[i] \in Run
           /\ \A s \in Sessions : req[s] \in Admission!Requests \cup {Admission!NoRequest}
           /\ \A s \in Sessions : req[s].step # "none" => req[s] \in Admission!Requests
           /\ Admission!NoRequest.step = "none"
<1>1. tokens \in Seq(Token) /\ runs \in Seq(Run) /\ now \in 1 .. LastInstant
  BY DEF AdmissionInv, Admission!TypeOK, Token, Run
<1>2. /\ DOMAIN tokens = 1 .. Len(tokens) /\ Len(tokens) \in Nat
      /\ DOMAIN runs = 1 .. Len(runs) /\ Len(runs) \in Nat
      /\ \A n \in DOMAIN tokens : tokens[n] \in Token
      /\ \A i \in DOMAIN runs : runs[i] \in Run
  BY <1>1
<1>3. \A n \in DOMAIN tokens : n \in Admission!Nonces
  BY <1>2, RingFacts DEF AdmissionInv, Admission!Nonces
<1>4. QED
  BY <1>1, <1>2, <1>3 DEF AdmissionInv, Admission!TypeOK, Admission!NoRequest

\* The step of a request that leaves the tables alone.
LEMMA RequestMoves ==
    ASSUME AdmissionInv, NEW s \in Sessions,
           NEW q \in Admission!Requests \cup {Admission!NoRequest},
           req' = [req EXCEPT ![s] = q], UNCHANGED <<now, tokens, runs, records, nonces>>,
           Confirmed(q)
    PROVE  AdmissionInv'
<1>1. /\ req' \in [Sessions -> Admission!Requests \cup {Admission!NoRequest}]
      /\ \A t \in Sessions : req'[t] = IF t = s THEN q ELSE req[t]
  BY DEF AdmissionInv, Admission!TypeOK
<1>2. Admission!TypeOK'
  BY <1>1 DEF AdmissionInv, Admission!TypeOK
<1>3. \A t \in Sessions : Confirmed(req[t])'
  BY <1>1 DEF AdmissionInv, Confirmed
<1>4. QED
  BY <1>2, <1>3 DEF AdmissionInv, Kept, Admission!OneRunPerKey, Admission!OneRunPerToken, Admission!Live

\* preflight signs a token, which expires a lifetime from now.
LEMMA PreflightOK ==
    ASSUME AdmissionInv, NEW d \in Deployments, NEW a \in Actors, NEW x \in Admission!Digests,
           Admission!Preflight(d, a, x)
    PROVE  AdmissionInv'
<1> DEFINE t == [actor |-> a, digest |-> x, kid |-> d.confirmation[1], exp |-> now + TTL]
<1>1. /\ tokens' = Append(tokens, t) /\ Len(tokens) < MaxTokens
      /\ UNCHANGED <<now, runs, records, nonces, req>>
  BY DEF Admission!Preflight
<1>2. t \in Token /\ t.exp = now + TTL
  BY TableFacts, RingFacts DEF Token, Admission!Times
<1> HIDE DEF t
<1>3. /\ tokens' \in Seq(Token) /\ Len(tokens') = Len(tokens) + 1
      /\ DOMAIN tokens' = 1 .. Len(tokens) + 1
      /\ tokens'[Len(tokens) + 1] = t
      /\ \A n \in DOMAIN tokens : tokens'[n] = tokens[n] /\ n \in DOMAIN tokens'
  BY <1>1, <1>2, TableFacts
<1>4. Admission!TypeOK'
  BY <1>1, <1>3 DEF AdmissionInv, Admission!TypeOK, Token
<1>5. Len(tokens') <= MaxTokens /\ \A n \in DOMAIN tokens' : tokens'[n].exp <= now' + TTL
  <2>1. \A n \in DOMAIN tokens' : n = Len(tokens) + 1 \/ n \in DOMAIN tokens
    BY <1>3, TableFacts
  <2>2. Len(tokens') <= MaxTokens
    BY <1>1, <1>3, TableFacts, RingFacts
  <2>3. now + TTL <= now + TTL
    BY TableFacts, RingFacts
  <2>4. QED
    BY <1>1, <1>2, <1>3, <2>1, <2>2, <2>3 DEF AdmissionInv
<1>6. \A s \in Sessions : Confirmed(req[s])'
  BY <1>1, <1>3 DEF AdmissionInv, Confirmed
<1>7. \A i \in DOMAIN runs' : Kept(i)'
  BY <1>1, <1>3 DEF AdmissionInv, Kept
<1>8. QED
  BY <1>1, <1>4, <1>5, <1>6, <1>7
  DEF AdmissionInv, Admission!OneRunPerKey, Admission!OneRunPerToken, Admission!Live

\* The lookups of create_run, and a refusal: no table changes.
LEMMA LookupsOK ==
    ASSUME AdmissionInv, NEW s \in Sessions,
           \/ \E d \in Deployments, a \in Actors, k \in RunKeys, b \in RunBodies,
                 n \in DOMAIN tokens : Admission!Open(s, d, a, k, b, n)
           \/ Admission!LosesRace(s) \/ Admission!Refuse(s)
    PROVE  AdmissionInv'
<1>1. CASE \E d \in Deployments, a \in Actors, k \in RunKeys, b \in RunBodies,
              n \in DOMAIN tokens : Admission!Open(s, d, a, k, b, n)
  <2>1. PICK d \in Deployments, a \in Actors, k \in RunKeys, b \in RunBodies, n \in DOMAIN tokens :
          Admission!Open(s, d, a, k, b, n)
    BY <1>1
  <2>2. PICK run \in IF Admission!Found(d, a, k) = {} THEN {0}
                     ELSE {r.run : r \in Admission!Found(d, a, k)} :
          req' = [req EXCEPT ![s] =
                    [step |-> IF run = 0 THEN "admit" ELSE "replay", actor |-> a, key |-> k,
                     body |-> b, nonce |-> n, at |-> d, run |-> run]]
    BY <2>1 DEF Admission!Open
  <2>3. run \in Admission!RunIds \cup {0}
    BY <2>2 DEF Admission!Found, AdmissionInv, Admission!TypeOK, Admission!Records
  <2> DEFINE q == [step |-> IF run = 0 THEN "admit" ELSE "replay", actor |-> a, key |-> k,
                   body |-> b, nonce |-> n, at |-> d, run |-> run]
  <2>4. q \in Admission!Requests /\ Confirmed(q)
    BY <2>3, TableFacts DEF Admission!Requests, Confirmed
  <2>5. req' = [req EXCEPT ![s] = q] /\ UNCHANGED <<now, tokens, runs, records, nonces>>
    BY <2>1, <2>2 DEF Admission!Open
  <2> HIDE DEF q
  <2>6. QED
    BY <2>4, <2>5, RequestMoves
<1>2. CASE Admission!LosesRace(s)
  <2>1. PICK r \in records : req' = [req EXCEPT ![s].step = "replay", ![s].run = r.run]
    BY <1>2 DEF Admission!LosesRace, Admission!Found
  <2>2. req[s] \in Admission!Requests /\ UNCHANGED <<now, tokens, runs, records, nonces>>
    BY <1>2, TableFacts DEF Admission!LosesRace
  <2>3. r.run \in Admission!RunIds
    BY DEF AdmissionInv, Admission!TypeOK, Admission!Records
  <2> DEFINE q == [req[s] EXCEPT !.step = "replay", !.run = r.run]
  <2>4. q \in Admission!Requests /\ Confirmed(q)
    BY <2>2, <2>3, <1>2 DEF Admission!Requests, Confirmed, AdmissionInv, Admission!LosesRace
  <2>5. req' = [req EXCEPT ![s] = q]
    BY <2>1 DEF AdmissionInv, Admission!TypeOK
  <2> HIDE DEF q
  <2>6. QED
    BY <2>2, <2>4, <2>5, RequestMoves
<1>3. CASE Admission!Refuse(s)
  BY <1>3, RequestMoves, TableFacts DEF Admission!Refuse, Confirmed
<1>4. QED
  BY <1>1, <1>2, <1>3

\* Nobody else used this key or this token: the history check makes the lookup cover every
\* record, a run that exists has its nonce, and one that was deleted an expired token.
LEMMA AdmissibleIsNew ==
    ASSUME AdmissionInv, NEW q \in Admission!Requests, Confirmed(q), q.step = "admit",
           Admission!Admissible(q)
    PROVE  /\ \A r \in records : ~(r.actor = q.actor /\ r.key = q.key)
           /\ \A n \in nonces : n.nonce # q.nonce
           /\ \A i \in DOMAIN runs : runs[i].nonce # q.nonce
           /\ \A i \in DOMAIN runs : runs[i].status # "deleted" =>
                ~(runs[i].actor = q.actor /\ runs[i].key = q.key)
<1>1. \A r \in records : ~(r.actor = q.actor /\ r.key = q.key)
  BY DEF Admission!Admissible, Admission!HistoryComplete, Admission!Found
<1>2. \A n \in nonces : n.nonce # q.nonce
  BY DEF Admission!Admissible, Admission!BoundTo
<1>3. ASSUME NEW i \in DOMAIN runs PROVE runs[i].nonce # q.nonce
  <2>1. Kept(i) /\ q.nonce \in DOMAIN tokens
    BY DEF AdmissionInv, Confirmed
  <2>2. now \in Nat /\ tokens[q.nonce].exp \in Nat /\ now < tokens[q.nonce].exp
    BY <2>1, TableFacts, RingFacts DEF Token, Admission!Times, Admission!Admissible
  <2>3. QED
    BY <1>2, <2>1, <2>2 DEF Kept
<1>4. ASSUME NEW i \in DOMAIN runs, runs[i].status # "deleted"
      PROVE  ~(runs[i].actor = q.actor /\ runs[i].key = q.key)
  BY <1>1, <1>4 DEF AdmissionInv, Kept
<1>5. QED
  BY <1>1, <1>2, <1>3, <1>4

\* create_run's transaction: the run, its nonce and its record.
LEMMA CreateOK ==
    ASSUME AdmissionInv, NEW s \in Sessions, Admission!Create(s)
    PROVE  AdmissionInv'
<1> DEFINE q == req[s]
           id == Len(runs) + 1
           run == [actor |-> q.actor, key |-> q.key, body |-> q.body,
                   nonce |-> q.nonce, status |-> "active", endedAt |-> 0]
           nonce == [nonce |-> q.nonce, run |-> id, version |-> tokens[q.nonce].kid]
           record == [run |-> id, actor |-> q.actor, key |-> q.key, body |-> q.body,
                      keyVersion |-> q.at.idempotency[1],
                      confirmationVersion |-> tokens[q.nonce].kid]
<1>1. /\ q.step = "admit" /\ Admission!Admissible(q) /\ Len(runs) < MaxRuns
      /\ runs' = Append(runs, run)
      /\ nonces' = nonces \cup {nonce} /\ records' = records \cup {record}
      /\ req' = [req EXCEPT ![s] = Admission!NoRequest] /\ UNCHANGED <<now, tokens>>
  BY DEF Admission!Create
<1>2. /\ q \in Admission!Requests /\ Confirmed(q) /\ q.nonce \in DOMAIN tokens
      /\ q.at \in Deployments
  BY <1>1, TableFacts DEF AdmissionInv, Confirmed, Admission!Requests
<1>3. id \in Admission!RunIds /\ id \in Nat /\ id \notin DOMAIN runs
  BY <1>1, TableFacts, RingFacts DEF Admission!RunIds
<1>4. tokens[q.nonce].kid \in Admission!Versions /\ q.at.idempotency[1] \in Admission!Versions
  BY <1>2, TableFacts, RingFacts DEF Token
<1>5. run \in Run /\ 0 \in Admission!Times
  BY <1>2, RingFacts DEF Run, Admission!Requests, Admission!Times
<1>6. /\ nonce \in [nonce : Admission!Nonces, run : Admission!RunIds, version : Admission!Versions]
      /\ record \in Admission!Records
  BY <1>2, <1>3, <1>4 DEF Admission!Requests, Admission!Records
<1>7. /\ run.actor = q.actor /\ run.key = q.key /\ run.nonce = q.nonce /\ run.status = "active"
      /\ nonce.nonce = q.nonce /\ nonce.run = id
      /\ record.run = id /\ record.actor = q.actor /\ record.key = q.key
  OBVIOUS
<1>8. /\ \A r \in records : ~(r.actor = q.actor /\ r.key = q.key)
      /\ \A n \in nonces : n.nonce # q.nonce
      /\ \A i \in DOMAIN runs : runs[i].nonce # q.nonce
      /\ \A i \in DOMAIN runs : runs[i].status # "deleted" =>
           ~(runs[i].actor = q.actor /\ runs[i].key = q.key)
  BY <1>1, <1>2, AdmissibleIsNew
<1> HIDE DEF run, nonce, record
<1>9. /\ runs' \in Seq(Run) /\ DOMAIN runs' = DOMAIN runs \cup {id} /\ runs'[id] = run
      /\ \A i \in DOMAIN runs : runs'[i] = runs[i]
  BY <1>1, <1>5, TableFacts
<1>10. \A t \in Sessions : req'[t] = IF t = s THEN Admission!NoRequest ELSE req[t]
  BY <1>1 DEF AdmissionInv, Admission!TypeOK
<1> HIDE DEF q, id
<1>11. Admission!TypeOK'
  <2>1. /\ now' \in 1 .. LastInstant /\ tokens' \in Seq(Token) /\ runs' \in Seq(Run)
        /\ records' \subseteq Admission!Records
        /\ nonces' \subseteq [nonce : Admission!Nonces, run : Admission!RunIds,
                              version : Admission!Versions]
    BY <1>1, <1>6, <1>9, TableFacts DEF AdmissionInv, Admission!TypeOK
  <2>2. req' \in [Sessions -> Admission!Requests \cup {Admission!NoRequest}]
    BY <1>1 DEF AdmissionInv, Admission!TypeOK
  <2>3. \A n, m \in nonces' : n.nonce = m.nonce => n = m
    BY <1>1, <1>7, <1>8 DEF AdmissionInv, Admission!TypeOK
  <2>4. \A r, p \in records' :
          r.actor = p.actor /\ r.key = p.key /\ r.keyVersion = p.keyVersion => r = p
    BY <1>1, <1>7, <1>8 DEF AdmissionInv, Admission!TypeOK
  <2>5. \A x \in records' \cup nonces' : runs'[x.run].status # "deleted"
    BY <1>1, <1>7, <1>9 DEF AdmissionInv, Admission!TypeOK
  <2>6. QED
    BY <2>1, <2>2, <2>3, <2>4, <2>5 DEF Admission!TypeOK, Token, Run
<1>12. \A t \in Sessions : Confirmed(req[t])'
  BY <1>1, <1>10, TableFacts DEF AdmissionInv, Confirmed
<1>13. \A x \in records' \cup nonces' : x.run \in DOMAIN runs'
  BY <1>1, <1>7, <1>9 DEF AdmissionInv
<1>14. \A i \in DOMAIN runs' : Kept(i)'
  <2>1. ASSUME NEW i \in DOMAIN runs PROVE Kept(i)'
    BY <1>1, <1>9 DEF AdmissionInv, Kept
  <2>2. PICK i : i = id
    OBVIOUS
  <2>3. Kept(i)'
    BY <1>1, <1>2, <1>7, <1>9, <2>2 DEF Kept
  <2>4. QED
    BY <1>9, <2>1, <2>2, <2>3
<1>15. Admission!OneRunPerKey' /\ Admission!OneRunPerToken'
  BY <1>7, <1>8, <1>9
  DEF AdmissionInv, Admission!OneRunPerKey, Admission!OneRunPerToken, Admission!Live
<1>16. QED
  BY <1>1, <1>11, <1>12, <1>13, <1>14, <1>15 DEF AdmissionInv

\* A replay binds a fresh token to the run whose record it found.
LEMMA ReplayOK ==
    ASSUME AdmissionInv, NEW s \in Sessions, Admission!Replay(s)
    PROVE  AdmissionInv'
<1> DEFINE q == req[s]
           nonce == [nonce |-> q.nonce, run |-> q.run, version |-> tokens[q.nonce].kid]
<1>1. /\ q.step = "replay" /\ Admission!Replayable(q)
      /\ nonces' = IF Admission!BoundTo(q.nonce) # {} THEN nonces ELSE nonces \cup {nonce}
      /\ req' = [req EXCEPT ![s] = Admission!NoRequest] /\ UNCHANGED <<now, tokens, runs, records>>
  BY DEF Admission!Replay
<1>2. q \in Admission!Requests /\ q.nonce \in DOMAIN tokens
  BY <1>1, TableFacts DEF AdmissionInv, Confirmed
<1>3. q.run \in DOMAIN runs /\ q.run \in Admission!RunIds /\ runs[q.run].status # "deleted"
  BY <1>1 DEF Admission!Replayable, AdmissionInv, Admission!TypeOK, Admission!Records
<1>4. nonce \in [nonce : Admission!Nonces, run : Admission!RunIds, version : Admission!Versions]
  BY <1>2, <1>3, TableFacts DEF Token
<1>5. nonce.nonce = q.nonce /\ nonce.run = q.run
  OBVIOUS
<1>6. Admission!BoundTo(q.nonce) = {} => \A n \in nonces : n.nonce # q.nonce
  BY DEF Admission!BoundTo
<1>7. \A t \in Sessions : req'[t] = IF t = s THEN Admission!NoRequest ELSE req[t]
  BY <1>1 DEF AdmissionInv, Admission!TypeOK
<1>8. req' \in [Sessions -> Admission!Requests \cup {Admission!NoRequest}]
  BY <1>1 DEF AdmissionInv, Admission!TypeOK
<1> HIDE DEF q, nonce
<1>9. /\ nonces \subseteq nonces'
      /\ nonces' \subseteq [nonce : Admission!Nonces, run : Admission!RunIds, version : Admission!Versions]
      /\ \A n, m \in nonces' : n.nonce = m.nonce => n = m
      /\ \A n \in nonces' : n.run \in DOMAIN runs /\ runs[n.run].status # "deleted"
  BY <1>1, <1>3, <1>4, <1>5, <1>6 DEF AdmissionInv, Admission!TypeOK
<1>10. Admission!TypeOK'
  BY <1>1, <1>8, <1>9 DEF AdmissionInv, Admission!TypeOK
<1>11. \A t \in Sessions : Confirmed(req[t])'
  BY <1>1, <1>7, TableFacts DEF AdmissionInv, Confirmed
<1>12. \A i \in DOMAIN runs' : Kept(i)'
  BY <1>1, <1>9 DEF AdmissionInv, Kept
<1>13. QED
  BY <1>1, <1>9, <1>10, <1>11, <1>12
  DEF AdmissionInv, Admission!OneRunPerKey, Admission!OneRunPerToken, Admission!Live

\* A run changes its status; its record and nonces stay unless it is deleted.
LEMMA RunMoves ==
    ASSUME AdmissionInv, NEW i \in DOMAIN runs, NEW run \in Run,
           runs' = [runs EXCEPT ![i] = run], UNCHANGED <<now, tokens, req>>,
           run.actor = runs[i].actor, run.key = runs[i].key, run.nonce = runs[i].nonce,
           runs[i].status # "deleted",
           run.status = "ended" => run.endedAt = now,
           run.status = "deleted" => tokens[run.nonce].exp <= now,
           records' = {r \in records : run.status = "deleted" => r.run # i},
           nonces' = {n \in nonces : run.status = "deleted" => n.run # i}
    PROVE  AdmissionInv'
<1>1. /\ runs' \in Seq(Run) /\ DOMAIN runs' = DOMAIN runs /\ runs'[i] = run
      /\ \A j \in DOMAIN runs : j # i => runs'[j] = runs[j]
  BY TableFacts, ExceptSeq
<1>2. Admission!TypeOK'
  <2>1. /\ now' \in 1 .. LastInstant /\ tokens' \in Seq(Token) /\ runs' \in Seq(Run)
        /\ records' \subseteq Admission!Records
        /\ nonces' \subseteq [nonce : Admission!Nonces, run : Admission!RunIds,
                              version : Admission!Versions]
        /\ req' \in [Sessions -> Admission!Requests \cup {Admission!NoRequest}]
    BY <1>1, TableFacts DEF AdmissionInv, Admission!TypeOK
  <2>2. /\ \A n, m \in nonces' : n.nonce = m.nonce => n = m
        /\ \A r, p \in records' :
             r.actor = p.actor /\ r.key = p.key /\ r.keyVersion = p.keyVersion => r = p
    BY DEF AdmissionInv, Admission!TypeOK
  <2>3. \A x \in records' \cup nonces' : runs'[x.run].status # "deleted"
    <3>1. ASSUME NEW x \in records' \cup nonces' PROVE runs'[x.run].status # "deleted"
      <4>1. x.run \in DOMAIN runs /\ runs[x.run].status # "deleted"
        BY DEF AdmissionInv, Admission!TypeOK
      <4>2. x.run = i => run.status # "deleted"
        OBVIOUS
      <4>3. QED
        BY <1>1, <4>1, <4>2
    <3>2. QED
      BY <3>1
  <2>4. QED
    BY <2>1, <2>2, <2>3 DEF Admission!TypeOK, Token, Run
<1>3. \A s \in Sessions : Confirmed(req[s])'
  BY DEF AdmissionInv, Confirmed
<1>4. \A x \in records' \cup nonces' : x.run \in DOMAIN runs'
  BY <1>1 DEF AdmissionInv
<1>5. ASSUME NEW j \in DOMAIN runs, j # i PROVE Kept(j)'
  <2>1. Kept(j) /\ runs'[j] = runs[j]
    BY <1>1, <1>5 DEF AdmissionInv
  <2>2. /\ \A r \in records : r.run = j => r \in records'
        /\ \A n \in nonces : n.run = j => n \in nonces'
    BY <1>5
  <2>3. QED
    BY <2>1, <2>2 DEF Kept
<1>6. Kept(i)'
  <2>1. Kept(i)
    BY DEF AdmissionInv
  <2>2. run.status # "deleted" => records' = records /\ nonces' = nonces
    OBVIOUS
  <2>3. now <= now /\ tokens[run.nonce].exp <= now + TTL
    BY <2>1, TableFacts DEF Kept, AdmissionInv
  <2>4. QED
    BY <1>1, <2>1, <2>2, <2>3 DEF Kept
<1>7. Admission!OneRunPerKey' /\ Admission!OneRunPerToken'
  BY <1>1 DEF AdmissionInv, Admission!OneRunPerKey, Admission!OneRunPerToken, Admission!Live
<1>8. QED
  BY <1>1, <1>2, <1>3, <1>4, <1>5, <1>6, <1>7 DEF AdmissionInv

\* A run that ends, and one whose retention has run out.
LEMMA RunsOK ==
    ASSUME AdmissionInv, NEW i \in DOMAIN runs,
           Admission!EndRun(i) \/ Admission!DeleteExpiredRunMetadata(i)
    PROVE  AdmissionInv'
<1>1. runs[i] \in Run /\ now \in Admission!Times /\ now \in Nat
  BY TableFacts, RingFacts DEF Admission!Times
<1>2. CASE Admission!EndRun(i)
  <2> DEFINE run == [runs[i] EXCEPT !.status = "ended", !.endedAt = now]
  <2>1. /\ run \in Run /\ run.actor = runs[i].actor /\ run.key = runs[i].key
        /\ run.nonce = runs[i].nonce /\ run.status = "ended" /\ run.endedAt = now
    BY <1>1 DEF Run
  <2>2. /\ runs' = [runs EXCEPT ![i] = run] /\ UNCHANGED <<now, tokens, records, nonces, req>>
        /\ runs[i].status = "active"
    BY <1>2, TableFacts DEF Admission!EndRun
  <2> HIDE DEF run
  <2>3. /\ records' = {r \in records : run.status = "deleted" => r.run # i}
        /\ nonces' = {n \in nonces : run.status = "deleted" => n.run # i}
    BY <2>1, <2>2
  <2>4. QED
    BY <2>1, <2>2, <2>3, RunMoves
<1>3. CASE Admission!DeleteExpiredRunMetadata(i)
  <2> DEFINE run == [runs[i] EXCEPT !.status = "deleted"]
  <2>1. /\ run \in Run /\ run.actor = runs[i].actor /\ run.key = runs[i].key
        /\ run.nonce = runs[i].nonce /\ run.status = "deleted"
    BY <1>1 DEF Run
  <2>2. /\ runs' = [runs EXCEPT ![i] = run] /\ UNCHANGED <<now, tokens, req>>
        /\ runs[i].status = "ended" /\ runs[i].endedAt + Retention <= now
        /\ records' = {r \in records : r.run # i} /\ nonces' = {n \in nonces : n.run # i}
    BY <1>3, TableFacts DEF Admission!DeleteExpiredRunMetadata, Admission!Expired
  <2>3. runs[i].nonce \in DOMAIN tokens /\ tokens[runs[i].nonce].exp <= runs[i].endedAt + TTL
    BY <2>2 DEF AdmissionInv, Kept
  <2>4. tokens[runs[i].nonce].exp \in Nat /\ runs[i].endedAt \in Nat
    BY <1>1, <2>3, TableFacts, RingFacts DEF Token, Run, Admission!Times
  <2>5. tokens[runs[i].nonce].exp <= now
    BY <1>1, <2>2, <2>3, <2>4, RingFacts
  <2> HIDE DEF run
  <2>6. /\ records' = {r \in records : run.status = "deleted" => r.run # i}
        /\ nonces' = {n \in nonces : run.status = "deleted" => n.run # i}
    BY <2>1, <2>2
  <2>7. QED
    BY <2>1, <2>2, <2>5, <2>6, RunMoves
<1>4. QED
  BY <1>2, <1>3

\* Time passes.
LEMMA TickOK ==
    ASSUME AdmissionInv, Admission!Tick
    PROVE  AdmissionInv'
<1>1. /\ now' = now + 1 /\ now < LastInstant /\ UNCHANGED <<tokens, runs, records, nonces, req>>
      /\ now \in Nat /\ now' \in 1 .. LastInstant
  BY TableFacts, RingFacts DEF Admission!Tick
<1>2. Admission!TypeOK'
  BY <1>1 DEF AdmissionInv, Admission!TypeOK
<1>3. \A n \in DOMAIN tokens : tokens[n].exp \in Nat
  BY TableFacts, RingFacts DEF Token, Admission!Times
<1>4. \A n \in DOMAIN tokens' : tokens'[n].exp <= now' + TTL
  BY <1>1, <1>3, RingFacts DEF AdmissionInv
<1>5. \A i \in DOMAIN runs' : Kept(i)'
  <2>1. \A i \in DOMAIN runs : runs[i].endedAt \in Nat
    BY TableFacts, RingFacts DEF Run, Admission!Times
  <2>2. QED
    BY <1>1, <1>3, <2>1 DEF AdmissionInv, Kept
<1>6. QED
  BY <1>1, <1>2, <1>4, <1>5
  DEF AdmissionInv, Confirmed, Admission!OneRunPerKey, Admission!OneRunPerToken, Admission!Live

\* Every step of admission, and stuttering.
LEMMA AdmissionStep ==
    ASSUME AdmissionInv, Admission!Next \/ UNCHANGED <<clockVars, admissionVars>>
    PROVE  AdmissionInv'
<1>1. CASE UNCHANGED <<clockVars, admissionVars>>
  BY <1>1 DEF clockVars, admissionVars, AdmissionInv, Admission!TypeOK, Kept, Confirmed,
              Admission!OneRunPerKey, Admission!OneRunPerToken, Admission!Live
<1>2. CASE Admission!Next
  BY <1>2, PreflightOK, LookupsOK, CreateOK, ReplayOK, RunsOK, TickOK DEF Admission!Next
<1>3. QED
  BY <1>1, <1>2

\* No token has been signed.
LEMMA AdmissionInit == Admission!Init => AdmissionInv
<1> SUFFICES ASSUME Admission!Init PROVE AdmissionInv
  OBVIOUS
<1>1. 1 \in 1 .. LastInstant /\ Len(<< >>) <= MaxTokens /\ DOMAIN << >> = {}
  BY RequestsAssumption DEF Admission!BoundsAssumption
<1>2. \A s \in Sessions : req[s].step = "none"
  BY DEF Admission!Init, Admission!NoRequest
<1>3. QED
  BY <1>1, <1>2 DEF Admission!Init, AdmissionInv, Admission!TypeOK, Confirmed, Kept,
                    Admission!OneRunPerKey, Admission!OneRunPerToken
-----------------------------------------------------------------------------
(* Listings. *)

\* The elements of S that R puts before x.
Before(S, R, x) == {y \in S : <<y, x>> \in R}

\* In a finite set that R orders strictly and totally, every place is taken by the one
\* element with so many before it.
LEMMA Ranking ==
    ASSUME NEW S, IsFiniteSet(S), NEW R,
           \A x \in S : <<x, x>> \notin R,
           \A x, y \in S : x = y \/ <<x, y>> \in R \/ <<y, x>> \in R,
           \A x, y, z \in S : <<x, y>> \in R /\ <<y, z>> \in R => <<x, z>> \in R
    PROVE  /\ Cardinality(S) \in Nat
           /\ \A x \in S : Cardinality(Before(S, R, x)) \in 0 .. Cardinality(S) - 1
           /\ \A x, y \in S : <<x, y>> \in R =>
                 Cardinality(Before(S, R, x)) < Cardinality(Before(S, R, y))
           /\ \A i \in 1 .. Cardinality(S) : \E x \in S : Cardinality(Before(S, R, x)) = i - 1
<1> DEFINE n == Cardinality(S)
<1>1. n \in Nat
  BY FS_CardinalityType
<1>2. ASSUME NEW T \in SUBSET S, NEW U \in SUBSET T, U # T
      PROVE  Cardinality(U) \in Nat /\ Cardinality(T) \in Nat /\ Cardinality(U) < Cardinality(T)
  <2>1. IsFiniteSet(T)
    BY FS_Subset
  <2>2. IsFiniteSet(U) /\ Cardinality(U) <= Cardinality(T) /\ Cardinality(T) # Cardinality(U)
    BY <1>2, <2>1, FS_Subset
  <2>3. Cardinality(T) \in Nat /\ Cardinality(U) \in Nat
    BY <2>1, <2>2, FS_CardinalityType
  <2>4. QED
    BY <2>2, <2>3
<1>3. ASSUME NEW x \in S PROVE Cardinality(Before(S, R, x)) \in 0 .. n - 1
  <2>1. Before(S, R, x) \in SUBSET S /\ Before(S, R, x) # S
    BY DEF Before
  <2>2. Cardinality(Before(S, R, x)) \in Nat /\ Cardinality(Before(S, R, x)) < n
    BY <1>2, <2>1
  <2>3. QED
    BY <1>1, <2>2
<1>4. ASSUME NEW x \in S, NEW y \in S, <<x, y>> \in R
      PROVE  Cardinality(Before(S, R, x)) < Cardinality(Before(S, R, y))
  <2>1. /\ Before(S, R, y) \in SUBSET S /\ Before(S, R, x) \in SUBSET Before(S, R, y)
        /\ Before(S, R, x) # Before(S, R, y)
    BY <1>4 DEF Before
  <2>2. QED
    BY <1>2, <2>1
<1> DEFINE place == [x \in S |-> Cardinality(Before(S, R, x)) + 1]
<1>5. place \in [S -> 1 .. n]
  <2>1. \A x \in S : Cardinality(Before(S, R, x)) + 1 \in 1 .. n
    BY <1>1, <1>3
  <2>2. QED
    BY <2>1
<1>6. ASSUME NEW x \in S, NEW y \in S, x # y PROVE place[x] # place[y]
  <2>1. Cardinality(Before(S, R, x)) \in Nat /\ Cardinality(Before(S, R, y)) \in Nat
    BY <1>1, <1>3
  <2>2. \/ Cardinality(Before(S, R, x)) < Cardinality(Before(S, R, y))
        \/ Cardinality(Before(S, R, y)) < Cardinality(Before(S, R, x))
    BY <1>4, <1>6
  <2>3. /\ place[x] = Cardinality(Before(S, R, x)) + 1
        /\ place[y] = Cardinality(Before(S, R, y)) + 1
    OBVIOUS
  <2>4. Cardinality(Before(S, R, x)) + 1 # Cardinality(Before(S, R, y)) + 1
    BY ONLY <2>1, <2>2
  <2>5. QED
    BY ONLY <2>3, <2>4, Zenon
<1> HIDE DEF place
<1>7. place \in Injection(S, 1 .. n)
  BY <1>5, <1>6 DEF Injection, IsInjective
<1>8. IsFiniteSet(1 .. n) /\ Cardinality(1 .. n) = n
  <2>1. IsFiniteSet(1 .. n) /\ Cardinality(1 .. n) = IF 1 > n THEN 0 ELSE n - 1 + 1
    BY <1>1, FS_Interval
  <2>2. QED
    BY <1>1, <2>1
<1>9. place \in Surjection(S, 1 .. n)
  BY <1>7, <1>8, FS_Injection
<1>10. ASSUME NEW i \in 1 .. n PROVE \E x \in S : Cardinality(Before(S, R, x)) = i - 1
  <2>1. PICK x \in S : place[x] = i
    BY <1>9 DEF Surjection
  <2>2. Cardinality(Before(S, R, x)) + 1 = i
    BY <2>1 DEF place
  <2>3. QED
    BY <1>3, <2>2
<1>11. QED
  BY <1>1, <1>3, <1>4, <1>10

\* What a listing knows of its rows.
ListingTypes ==
    /\ order \in Listing!Orders /\ time \in [Ids -> Timestamps]

\* The constants of a listing.
LEMMA ListingFacts ==
    /\ IsFiniteSet(Ids) /\ \A a \in Ids : a \in Nat
    /\ \A t \in Timestamps : t \in Nat
    /\ \A l \in Limits : l \in Nat /\ l > 0
<1>1. Listing!IsFiniteSet(Ids) = IsFiniteSet(Ids)
  BY DEF Listing!IsFiniteSet, IsFiniteSet
<1>2. QED
  BY <1>1, RequestsAssumption DEF Listing!ListingAssumption

\* ORDER BY is a strict total order, and the cursor's condition is that order.
LEMMA OrderIsTotal ==
    ASSUME ListingTypes
    PROVE  /\ \A x \in Ids : ~Listing!Precedes(x, x)
           /\ \A x, y \in Ids : x = y \/ Listing!Precedes(x, y) \/ Listing!Precedes(y, x)
           /\ \A x, y, z \in Ids :
                 Listing!Precedes(x, y) /\ Listing!Precedes(y, z) => Listing!Precedes(x, z)
           /\ \A x, y \in Ids : Listing!After(x, y) <=> Listing!Precedes(x, y)
<1>1. \A x \in Ids : x \in Nat /\ time[x] \in Nat
  BY ListingFacts DEF ListingTypes
<1>2. order = "id" \/ order = "time" \/ order = "sequence"
  BY DEF ListingTypes, Listing!Orders
<1>3. CASE order = "id"
  BY <1>1, <1>3 DEF Listing!Precedes, Listing!After
<1>4. CASE order = "time"
  BY <1>1, <1>4 DEF Listing!Precedes, Listing!After
<1>5. CASE order = "sequence"
  BY <1>1, <1>5 DEF Listing!Precedes, Listing!After
<1>6. QED
  BY <1>2, <1>3, <1>4, <1>5

\* The query returns every row that matches, once, in order.
LEMMA InOrderIs ==
    ASSUME ListingTypes, NEW S \in SUBSET Ids
    PROVE  /\ Len(Listing!InOrder(S)) \in Nat /\ Listing!InOrder(S) \in Seq(S)
           /\ \A x \in S : \E i \in 1 .. Len(Listing!InOrder(S)) : Listing!InOrder(S)[i] = x
           /\ \A i, j \in 1 .. Len(Listing!InOrder(S)) :
                 i < j => Listing!Precedes(Listing!InOrder(S)[i], Listing!InOrder(S)[j])
<1> DEFINE R == {c \in S \X S : Listing!Precedes(c[1], c[2])}
<1> DEFINE n == Cardinality(S)
<1> DEFINE C(x) == Cardinality(Before(S, R, x))
<1>1. IsFiniteSet(S)
  BY ListingFacts, FS_Subset
<1>2. \A x, y \in S : <<x, y>> \in R <=> Listing!Precedes(x, y)
  OBVIOUS
<1>3. /\ \A x \in S : <<x, x>> \notin R
      /\ \A x, y \in S : x = y \/ <<x, y>> \in R \/ <<y, x>> \in R
      /\ \A x, y, z \in S : <<x, y>> \in R /\ <<y, z>> \in R => <<x, z>> \in R
  <2> HIDE DEF R
  <2>1. QED
    BY <1>2, OrderIsTotal
<1> HIDE DEF R
<1>4. /\ n \in Nat
      /\ \A x \in S : C(x) \in 0 .. n - 1
      /\ \A x, y \in S : <<x, y>> \in R => C(x) < C(y)
      /\ \A i \in 1 .. n : \E x \in S : C(x) = i - 1
  BY <1>1, <1>3, Ranking
<1>5. ASSUME NEW x \in S PROVE Listing!Cardinality({y \in S : Listing!Precedes(y, x)}) = C(x)
  <2>1. {y \in S : Listing!Precedes(y, x)} = Before(S, R, x)
    BY <1>2 DEF Before
  <2>2. QED
    BY <2>1 DEF Listing!Cardinality, Cardinality
<1>6. Listing!Cardinality(S) = n
  BY DEF Listing!Cardinality, Cardinality
<1> DEFINE q == Listing!InOrder(S)
<1>7. q = [i \in 1 .. n |-> CHOOSE x \in S : Listing!Cardinality({y \in S : Listing!Precedes(y, x)}) = i - 1]
  BY <1>6, Zenon DEF Listing!InOrder
<1> HIDE DEF q, n, C
<1>8. \A i \in 1 .. n : q[i] \in S /\ C(q[i]) = i - 1
  <2>1. ASSUME NEW i \in 1 .. n PROVE q[i] \in S /\ C(q[i]) = i - 1
    <3>1. q[i] = CHOOSE x \in S : Listing!Cardinality({y \in S : Listing!Precedes(y, x)}) = i - 1
      BY <1>7
    <3>2. PICK x \in S : C(x) = i - 1
      BY <1>4
    <3>3. Listing!Cardinality({y \in S : Listing!Precedes(y, x)}) = i - 1
      BY <1>5, <3>2, Zenon
    <3>4. q[i] \in S /\ Listing!Cardinality({y \in S : Listing!Precedes(y, q[i])}) = i - 1
      BY <3>1, <3>3, Zenon
    <3>5. QED
      BY <1>5, <3>4, Zenon
  <2>2. QED
    BY <2>1
<1>9. q \in [1 .. n -> S] /\ q \in Seq(S) /\ Len(q) = n
  <2>1. q \in [1 .. n -> S]
    BY <1>7, <1>8
  <2>2. QED
    BY <1>4, <2>1
<1>10. ASSUME NEW x \in S PROVE \E i \in 1 .. n : q[i] = x
  <2>1. C(x) \in Nat /\ ~(C(x) < C(x))
    BY <1>4
  <2>2. C(x) + 1 \in 1 .. n /\ C(q[C(x) + 1]) = C(x) /\ q[C(x) + 1] \in S
    BY <1>4, <1>8
  <2>3. q[C(x) + 1] = x
    BY <1>3, <1>4, <2>2, <2>1
  <2>4. QED
    BY <2>2, <2>3
<1>11. ASSUME NEW i \in 1 .. n, NEW j \in 1 .. n, i < j PROVE Listing!Precedes(q[i], q[j])
  <2>1. q[i] \in S /\ q[j] \in S /\ C(q[i]) < C(q[j]) /\ C(q[i]) \in Nat /\ C(q[j]) \in Nat
    BY <1>4, <1>8, <1>11
  <2>2. ~(C(q[j]) < C(q[i])) /\ q[i] # q[j]
    BY <2>1
  <2>3. <<q[i], q[j]>> \in R
    BY <1>3, <1>4, <2>1, <2>2, Zenon
  <2>4. QED
    BY <1>2, <2>1, <2>3
<1>12. QED
  BY <1>4, <1>9, <1>10, <1>11 DEF q

\* The walk has returned the row.
Returned(row) == \E i \in 1 .. Len(returned) : returned[i] = row

\* The cursor names the last row returned, and what matched all along was returned or comes
\* after it.
ListInv ==
    /\ ListingTypes
    /\ returned \in Seq(Ids)
    /\ rows \subseteq Ids /\ present \subseteq rows
    /\ ended \in BOOLEAN
    /\ cursor = IF ended \/ returned = << >> THEN {} ELSE {returned[Len(returned)]}
    /\ Listing!ReturnedOnce
    /\ \A row \in present :
         Returned(row) \/ (~ended /\ \A key \in cursor : Listing!Precedes(key, row))

\* The first m of a sequence.
LEMMA Prefix ==
    ASSUME NEW S, NEW q \in Seq(S), NEW m \in Nat, m <= Len(q)
    PROVE  /\ SubSeq(q, 1, m) \in Seq(S) /\ Len(SubSeq(q, 1, m)) = m
           /\ \A i \in 1 .. m : SubSeq(q, 1, m)[i] = q[i]
BY SubSeqProperties

\* What one request reads, returns and hands out as its cursor.
LEMMA PageItems ==
    ASSUME NEW S, NEW q \in Seq(S), NEW limit \in Nat, limit > 0
    PROVE  LET found == SubSeq(q, 1, IF Len(q) > limit THEN limit + 1 ELSE Len(q))
               items == SubSeq(found, 1, IF Len(found) > limit THEN limit ELSE Len(found))
           IN  /\ items \in Seq(S) /\ Len(items) <= Len(q)
               /\ \A i \in 1 .. Len(items) : items[i] = q[i]
               /\ Len(q) > limit =>
                    Len(items) > 0 /\ Listing!NextCursor(found, limit) = {q[Len(items)]}
               /\ Len(q) <= limit =>
                    Len(items) = Len(q) /\ Listing!NextCursor(found, limit) = {}
<1> DEFINE found == SubSeq(q, 1, IF Len(q) > limit THEN limit + 1 ELSE Len(q))
<1> DEFINE items == SubSeq(found, 1, IF Len(found) > limit THEN limit ELSE Len(found))
<1>1. Len(q) \in Nat
  OBVIOUS
<1>2. CASE Len(q) > limit
  <2>1. limit + 1 \in Nat /\ limit + 1 <= Len(q)
    BY <1>1, <1>2
  <2>2. found = SubSeq(q, 1, limit + 1)
    BY <1>2
  <2> HIDE DEF found
  <2>3. found \in Seq(S) /\ Len(found) = limit + 1 /\ \A i \in 1 .. limit + 1 : found[i] = q[i]
    BY <2>1, <2>2, Prefix
  <2>4. limit <= Len(found) /\ Len(found) > limit
    BY <2>3
  <2>5. items = SubSeq(found, 1, limit)
    BY <2>4
  <2> HIDE DEF items
  <2>6. items \in Seq(S) /\ Len(items) = limit /\ \A i \in 1 .. limit : items[i] = found[i]
    BY <2>3, <2>4, <2>5, Prefix
  <2>7. limit \in 1 .. limit + 1 /\ \A i \in 1 .. limit : i \in 1 .. limit + 1
    OBVIOUS
  <2>8. Listing!NextCursor(found, limit) = {q[limit]}
    BY <2>3, <2>4, <2>7 DEF Listing!NextCursor
  <2>9. \A i \in 1 .. Len(items) : items[i] = q[i]
    BY <2>3, <2>6, <2>7
  <2>10. Len(items) <= Len(q) /\ Len(items) > 0
    BY <1>1, <2>1, <2>6
  <2>11. QED
    BY <1>1, <1>2, <2>6, <2>8, <2>9, <2>10 DEF found, items
<1>3. CASE Len(q) <= limit
  <2>1. found = SubSeq(q, 1, Len(q))
    BY <1>1, <1>3
  <2> HIDE DEF found
  <2>2. found \in Seq(S) /\ Len(found) = Len(q) /\ \A i \in 1 .. Len(q) : found[i] = q[i]
    BY <1>1, <2>1, Prefix
  <2>3. ~(Len(found) > limit)
    BY <1>1, <1>3, <2>2
  <2>4. items = SubSeq(found, 1, Len(found))
    BY <2>3
  <2> HIDE DEF items
  <2>5. items \in Seq(S) /\ Len(items) = Len(q) /\ \A i \in 1 .. Len(q) : items[i] = found[i]
    BY <1>1, <2>2, <2>4, Prefix
  <2>6. Listing!NextCursor(found, limit) = {}
    BY <2>3 DEF Listing!NextCursor
  <2>7. QED
    BY <1>1, <1>3, <2>2, <2>5, <2>6 DEF found, items
<1>4. QED
  BY <1>1, <1>2, <1>3

\* A page more keeps the order across pages and leaves nothing out.
LEMMA PageKeeps ==
    ASSUME ListInv, ~ended, NEW S, S = {row \in rows : \A key \in cursor : Listing!After(key, row)},
           NEW items \in Seq(S),
           \A i, j \in 1 .. Len(items) : i < j => Listing!Precedes(items[i], items[j]),
           returned' = returned \o items,
           UNCHANGED <<order, time, rows, present>>,
           ended' = (cursor' = {}),
           ended' => \A x \in S : \E i \in 1 .. Len(items) : items[i] = x,
           ~ended' => /\ Len(items) > 0 /\ cursor' = {items[Len(items)]}
                      /\ \A x \in S : \/ \E i \in 1 .. Len(items) : items[i] = x
                                      \/ Listing!Precedes(items[Len(items)], x)
    PROVE  ListInv'
<1> DEFINE k == Len(returned)
<1> DEFINE m == Len(items)
<1>1. /\ k \in Nat /\ m \in Nat /\ returned \in Seq(Ids) /\ S \subseteq Ids /\ items \in Seq(Ids)
      /\ \A i \in 1 .. k : returned[i] \in Ids
      /\ \A i \in 1 .. m : items[i] \in S
  <2>1. returned \in Seq(Ids) /\ S \subseteq Ids
    BY DEF ListInv
  <2>2. items \in Seq(Ids)
    BY <2>1
  <2>3. QED
    BY <2>1, <2>2
<1>2. /\ returned' \in Seq(Ids) /\ Len(returned') = k + m
      /\ \A i \in 1 .. k : returned'[i] = returned[i]
      /\ \A i \in 1 .. m : returned'[k + i] = items[i]
  BY <1>1
<1>3. \A i \in 1 .. k + m : i \in 1 .. k \/ (i - k \in 1 .. m /\ returned'[i] = items[i - k])
  <2>1. \A i \in 1 .. k + m : i \in 1 .. k \/ (i - k \in 1 .. m /\ i = k + (i - k))
    BY <1>1
  <2>2. QED
    BY <1>2, <2>1
<1> HIDE DEF k, m
<1>4. ListingTypes /\ ListingTypes'
  BY DEF ListInv, ListingTypes, Listing!Orders
<1>5. \A x, y : Listing!Precedes(x, y)' <=> Listing!Precedes(x, y)
  BY DEF Listing!Precedes
<1>6. ASSUME NEW i \in 1 .. k, NEW x \in S PROVE Listing!Precedes(returned[i], x)
  <2>1. k \in 1 .. k /\ cursor = {returned[k]}
    BY <1>1, <1>6 DEF ListInv, k
  <2>2. x \in Ids /\ returned[k] \in Ids /\ returned[i] \in Ids
    BY <1>1, <2>1
  <2>3. Listing!Precedes(returned[k], x)
    BY <1>4, <2>1, <2>2, OrderIsTotal
  <2>4. i = k \/ Listing!Precedes(returned[i], returned[k])
    <3>1. i = k \/ i < k
      BY <1>1
    <3>2. QED
      BY <2>1, <3>1 DEF ListInv, Listing!ReturnedOnce, k
  <2>5. QED
    BY <1>4, <2>2, <2>3, <2>4, OrderIsTotal
<1>7. ASSUME NEW i \in 1 .. k + m, NEW j \in 1 .. k + m, i < j
      PROVE  Listing!Precedes(returned'[i], returned'[j])
  <2>1. CASE i \in 1 .. k /\ j \in 1 .. k
    BY <1>2, <1>7, <2>1 DEF ListInv, Listing!ReturnedOnce, k
  <2>2. CASE i \in 1 .. k /\ j - k \in 1 .. m /\ returned'[j] = items[j - k]
    BY <1>1, <1>2, <1>6, <2>2
  <2>3. CASE /\ i - k \in 1 .. m /\ returned'[i] = items[i - k]
             /\ j - k \in 1 .. m /\ returned'[j] = items[j - k]
    <3>1. i - k < j - k
      BY <1>1, <1>7
    <3>2. QED
      BY <2>3, <3>1 DEF m
  <2>4. ~(j \in 1 .. k /\ i \notin 1 .. k)
    BY <1>1, <1>7
  <2>5. QED
    BY <1>3, <2>1, <2>2, <2>3, <2>4
<1>8. Listing!ReturnedOnce'
  BY <1>2, <1>5, <1>7 DEF Listing!ReturnedOnce
<1>9. cursor' = IF ended' \/ returned' = << >> THEN {} ELSE {returned'[Len(returned')]}
  <2>1. CASE ended'
    BY <2>1
  <2>2. CASE ~ended'
    <3>1. m > 0 /\ cursor' = {items[m]}
      BY <2>2 DEF m
    <3>2. m \in 1 .. m /\ k + m # 0
      BY <1>1, <3>1
    <3>3. returned'[k + m] = items[m] /\ returned' # << >>
      BY <1>2, <3>2
    <3>4. QED
      BY <1>2, <2>2, <3>1, <3>3
  <2>3. QED
    BY <2>1, <2>2
<1>10. ASSUME NEW row \in present'
       PROVE  Returned(row)' \/ (~ended' /\ \A key \in cursor' : Listing!Precedes(key, row)')
  <2>1. row \in present /\ row \in Ids /\ row \in rows
    BY DEF ListInv
  <2>2. CASE Returned(row)
    <3>1. PICK i \in 1 .. k : returned[i] = row
      BY <2>2 DEF Returned, k
    <3>2. i \in 1 .. k + m /\ returned'[i] = row
      BY <1>1, <1>2, <3>1
    <3>3. QED
      BY <1>2, <3>2 DEF Returned
  <2>3. CASE \A key \in cursor : Listing!Precedes(key, row)
    <3>1. \A key \in cursor : key \in Ids
      BY <1>1 DEF ListInv, k
    <3>2. row \in S
      BY <1>4, <2>1, <2>3, <3>1, OrderIsTotal
    <3>3. ASSUME NEW i \in 1 .. m, items[i] = row PROVE Returned(row)'
      <4>1. k + i \in 1 .. k + m /\ returned'[k + i] = row
        BY <1>1, <1>2, <3>3
      <4>2. QED
        BY <1>2, <4>1 DEF Returned
    <3>4. CASE ended'
      BY <3>2, <3>3, <3>4 DEF m
    <3>5. CASE ~ended'
      <4>1. (\E i \in 1 .. m : items[i] = row) \/ Listing!Precedes(items[m], row)
        BY <3>2, <3>5 DEF m
      <4>2. cursor' = {items[m]}
        BY <3>5 DEF m
      <4>3. QED
        BY <1>5, <3>3, <3>5, <4>1, <4>2
    <3>6. QED
      BY <3>4, <3>5
  <2>4. QED
    BY <2>1, <2>2, <2>3 DEF ListInv
<1>11. QED
  BY <1>2, <1>4, <1>8, <1>9, <1>10 DEF ListInv

\* One request of the walk.
LEMMA PageOK ==
    ASSUME ListInv, NEW limit \in Limits, Listing!Page(limit)
    PROVE  ListInv'
<1> DEFINE S == {row \in rows : \A key \in cursor : Listing!After(key, row)}
<1> DEFINE q == Listing!InOrder(S)
<1> DEFINE found == SubSeq(q, 1, IF Len(q) > limit THEN limit + 1 ELSE Len(q))
<1> DEFINE items == SubSeq(found, 1, IF Len(found) > limit THEN limit ELSE Len(found))
<1>1. /\ ~ended /\ returned' = returned \o items
      /\ cursor' = Listing!NextCursor(found, limit) /\ ended' = (cursor' = {})
      /\ UNCHANGED <<order, time, rows, present>>
  BY Zenon DEF Listing!Page
<1>2. limit \in Nat /\ limit > 0
  BY ListingFacts
<1>3. ListingTypes /\ S \in SUBSET Ids
  BY DEF ListInv
<1> HIDE DEF S
<1>5. /\ Len(q) \in Nat /\ q \in Seq(S)
      /\ \A x \in S : \E i \in 1 .. Len(q) : q[i] = x
      /\ \A i, j \in 1 .. Len(q) : i < j => Listing!Precedes(q[i], q[j])
  BY <1>3, InOrderIs
<1> HIDE DEF q
<1>6. /\ items \in Seq(S) /\ Len(items) <= Len(q)
      /\ \A i \in 1 .. Len(items) : items[i] = q[i]
      /\ Len(q) > limit =>
           Len(items) > 0 /\ Listing!NextCursor(found, limit) = {q[Len(items)]}
      /\ Len(q) <= limit =>
           Len(items) = Len(q) /\ Listing!NextCursor(found, limit) = {}
  BY <1>2, <1>5, PageItems, Zenon
<1> HIDE DEF items, found
<1>7. Len(items) \in Nat /\ \A i \in 1 .. Len(items) : i \in 1 .. Len(q)
  BY <1>5, <1>6
<1>8. \A i, j \in 1 .. Len(items) : i < j => Listing!Precedes(items[i], items[j])
  BY <1>5, <1>6, <1>7
<1>9. CASE Len(q) > limit
  <2>1. Len(items) \in 1 .. Len(items) /\ cursor' = {items[Len(items)]} /\ ~ended' /\ Len(items) > 0
    <3>1. Len(items) > 0 /\ cursor' = {q[Len(items)]}
      BY <1>1, <1>6, <1>9, Zenon
    <3>2. Len(items) \in 1 .. Len(items)
      BY <1>7, <3>1
    <3>3. items[Len(items)] = q[Len(items)] /\ cursor' # {}
      BY <1>6, <3>1, <3>2
    <3>4. QED
      BY <1>1, <3>1, <3>2, <3>3
  <2>2. ASSUME NEW x \in S
        PROVE  (\E i \in 1 .. Len(items) : items[i] = x) \/ Listing!Precedes(items[Len(items)], x)
    <3>1. PICK i \in 1 .. Len(q) : q[i] = x
      BY <1>5
    <3>2. CASE i \in 1 .. Len(items)
      BY <1>6, <3>1, <3>2
    <3>3. CASE i \notin 1 .. Len(items)
      <4>1. Len(items) < i /\ Len(items) \in 1 .. Len(q)
        <5>1. \A a \in Nat : i \notin 1 .. a => a < i
          BY <1>5, <3>1
        <5>2. QED
          BY <1>7, <2>1, <3>3, <5>1
      <4>2. QED
        BY <1>5, <1>6, <2>1, <3>1, <4>1
    <3>4. QED
      BY <3>2, <3>3
  <2>3. QED
    BY <1>1, <1>6, <1>8, <2>1, <2>2, PageKeeps DEF S
<1>10. CASE Len(q) <= limit
  <2>1. cursor' = {} /\ ended' /\ Len(items) = Len(q)
    BY <1>1, <1>6, <1>10
  <2>2. \A x \in S : \E i \in 1 .. Len(items) : items[i] = x
    BY <1>5, <1>6, <2>1
  <2>3. QED
    BY <1>1, <1>6, <1>8, <2>1, <2>2, PageKeeps DEF S
<1>11. QED
  BY <1>2, <1>5, <1>9, <1>10

\* A row comes or goes between two pages.
LEMMA RowsChange ==
    ASSUME ListInv, UNCHANGED <<order, time, cursor, returned, ended>>,
           rows' \subseteq Ids, present' \subseteq present, present' \subseteq rows'
    PROVE  ListInv'
<1>1. \A x, y : Listing!Precedes(x, y)' <=> Listing!Precedes(x, y)
  BY DEF Listing!Precedes
<1>2. \A x : Returned(x)' <=> Returned(x)
  BY DEF Returned
<1>3. ListingTypes'
  BY DEF ListInv, ListingTypes, Listing!Orders
<1>4. Listing!ReturnedOnce'
  BY <1>1 DEF ListInv, Listing!ReturnedOnce
<1>5. QED
  BY <1>1, <1>2, <1>3, <1>4 DEF ListInv

\* Every step of a walk, and stuttering.
LEMMA ListStep ==
    ASSUME ListInv, Listing!Next \/ UNCHANGED listingVars
    PROVE  ListInv'
<1>1. rows \subseteq Ids /\ present \subseteq rows
  BY DEF ListInv
<1>2. CASE UNCHANGED listingVars
  BY <1>1, <1>2, RowsChange DEF listingVars
<1>3. ASSUME NEW row \in Ids, Listing!Appear(row) PROVE ListInv'
  BY <1>1, <1>3, RowsChange DEF Listing!Appear
<1>4. ASSUME NEW row \in Ids, Listing!Disappear(row) PROVE ListInv'
  BY <1>1, <1>4, RowsChange DEF Listing!Disappear
<1>5. QED
  BY <1>2, <1>3, <1>4, PageOK DEF Listing!Next

\* Nothing has been returned.
LEMMA ListInit == Listing!Init => ListInv
<1> SUFFICES ASSUME Listing!Init PROVE ListInv
  OBVIOUS
<1>1. returned \in Seq(Ids) /\ Len(returned) = 0 /\ cursor = {} /\ ended = FALSE
  BY DEF Listing!Init
<1>2. \A i \in 1 .. Len(returned) : FALSE
  BY <1>1
<1>3. Listing!ReturnedOnce
  BY <1>2 DEF Listing!ReturnedOnce
<1>4. QED
  BY <1>1, <1>3 DEF Listing!Init, ListInv, ListingTypes

\* The invariant gives what is promised of a walk.
LEMMA ListSafe ==
    ASSUME ListInv
    PROVE  Listing!TypeOK /\ Listing!ReturnedOnce /\ Listing!NothingSkipped
<1>1. returned \in Seq(Ids) /\ Len(returned) \in Nat /\ \A i \in 1 .. Len(returned) : returned[i] \in Ids
  BY DEF ListInv
<1>2. \A i, j \in 1 .. Len(returned) : i # j => returned[i] # returned[j]
  <2>1. \A i, j \in 1 .. Len(returned) : i < j => returned[i] # returned[j]
    BY <1>1, OrderIsTotal DEF ListInv, Listing!ReturnedOnce
  <2>2. QED
    BY <1>1, <2>1
<1>3. returned \in Injection(1 .. Len(returned), Ids)
  BY <1>1, <1>2 DEF Injection, IsInjective
<1>4. IsFiniteSet(1 .. Len(returned)) /\ Cardinality(1 .. Len(returned)) = Len(returned)
  <2>1. /\ IsFiniteSet(1 .. Len(returned))
        /\ Cardinality(1 .. Len(returned)) = IF 1 > Len(returned) THEN 0 ELSE Len(returned) - 1 + 1
    BY <1>1, FS_Interval
  <2>2. QED
    BY <1>1, <2>1
<1>5. Len(returned) <= Cardinality(Ids)
  BY <1>3, <1>4, ListingFacts, FS_Injection
<1>6. Listing!Cardinality(Ids) = Cardinality(Ids)
  BY DEF Listing!Cardinality, Cardinality
<1>7. cursor \subseteq Ids
  BY <1>1 DEF ListInv
<1>8. Listing!TypeOK
  BY <1>1, <1>5, <1>6, <1>7 DEF ListInv, ListingTypes, Listing!TypeOK
<1>9. Listing!NothingSkipped
  BY DEF ListInv, Returned, Listing!NothingSkipped
<1>10. QED
  BY <1>8, <1>9 DEF ListInv
-----------------------------------------------------------------------------
(* Replay records. *)

\* No clock has the record expired.
FreshRecord(r) == \A p \in Processes \cup {Worker} : now + SkewOf[p] < r.expires

\* The record was written since the last stage that lasted ended.
Young(r) == now + Lifetime <= r.expires + overlap

\* A process that serves, or served, signed the record; if it may have expired then a stage
\* lasted since.
Written(r) ==
    \E a \in DOMAIN Rollout :
        /\ a <= stage
        /\ \E o \in Rollout[a] : Replays!Active(o) = r.version
        /\ \/ Young(r)
           \/ \E m \in DOMAIN Rollout : a <= m /\ m <= stage /\ Replays!Lasts(m)

\* Version v was written before a stage that lasted, and later a process that no longer held
\* it wrote w.
GivenUp(v, w) ==
    \E a, m, s \in DOMAIN Rollout :
        /\ a <= m /\ m <= s /\ s <= stage /\ Replays!Lasts(m)
        /\ \E o \in Rollout[a], q \in Rollout[s] :
              Replays!Active(o) = v /\ ~Replays!Configured(q, v) /\ Replays!Active(q) = w

\* The mutation is recent: its retry is promised the replay.
Recent(i) == now < mutations[i].at + Promise

ReplayInv ==
    /\ Replays!TypeOK /\ Replays!NotRepeated /\ Replays!AnswersMatch
    /\ \A i \in DOMAIN mutations : mutations[i].at <= now
    /\ \A i \in DOMAIN mutations : Recent(i) => \E r \in records : r.mutation = i
    /\ \A r \in records : Written(r) /\ mutations[r.mutation].at + Lifetime <= r.expires
    /\ \A r, q \in records :
         /\ r.mutation = q.mutation => r = q
         /\ r.key = q.key /\ r.mutation < q.mutation => GivenUp(r.version, q.version)

\* The constants of the replay records.
LEMMA ReplayFacts ==
    /\ Lifetime \in Nat /\ Promise \in Nat /\ Promise > 0 /\ MaxClock \in Nat /\ MaxClock > 0
    /\ MaxOverlap \in Nat
    /\ \A p \in Processes \cup {Worker} :
         SkewOf[p] \in Nat /\ SkewOf[p] + Promise <= Lifetime /\ SkewOf[p] + MaxOverlap < Lifetime
    /\ Rollout \in Seq(SUBSET Processes) /\ Len(Rollout) \in Nat /\ Len(Rollout) > 0
    /\ DOMAIN Rollout = 1 .. Len(Rollout)
    /\ \A s \in DOMAIN Rollout : \A p \in Rollout[s] : p \in Processes
    /\ \A p \in Processes : Replays!Active(p) \in Replays!Versions /\ Replays!Configured(p, Replays!Active(p))
<1>1. Rollout \in Seq(SUBSET Processes) /\ Rollout # << >>
  BY RequestsAssumption DEF Replays!RolloutAssumption
<1>2. Len(Rollout) \in Nat /\ Len(Rollout) > 0 /\ DOMAIN Rollout = 1 .. Len(Rollout)
  BY <1>1
<1>3. \A s \in DOMAIN Rollout : \A p \in Rollout[s] : p \in Processes
  BY <1>1
<1>4. ASSUME NEW p \in Processes
      PROVE  Replays!Active(p) \in Replays!Versions /\ Replays!Configured(p, Replays!Active(p))
  <2>1. 1 \in DOMAIN RingOf[p]
    BY RequestsAssumption DEF Replays!RingsAssumption
  <2>2. {RingOf[p][i] : i \in DOMAIN RingOf[p]} \in {{RingOf[x][i] : i \in DOMAIN RingOf[x]} : x \in Processes}
    OBVIOUS
  <2>3. RingOf[p][1] \in {RingOf[p][i] : i \in DOMAIN RingOf[p]}
    BY <2>1
  <2>4. QED
    BY <2>1, <2>2, <2>3, Zenon DEF Replays!Active, Replays!Versions, Replays!Configured
<1>5. /\ Lifetime \in Nat /\ Promise \in Nat /\ Promise > 0 /\ MaxClock \in Nat /\ MaxClock > 0
      /\ MaxOverlap \in Nat
      /\ \A p \in Processes \cup {Worker} :
           SkewOf[p] \in Nat /\ SkewOf[p] + Promise <= Lifetime /\ SkewOf[p] + MaxOverlap < Lifetime
  BY RequestsAssumption DEF Replays!SkewAssumption
<1>6. QED
  BY <1>1, <1>2, <1>3, <1>4, <1>5

\* Rotations go forward.
LEMMA Forward ==
    ASSUME stage \in DOMAIN Rollout, NEW p \in Rollout[stage], NEW v, NEW w, GivenUp(v, w),
           Replays!Configured(p, v), Replays!Configured(p, w)
    PROVE  Replays!Active(p) = w
<1>1. PICK a \in DOMAIN Rollout, m \in DOMAIN Rollout, s \in DOMAIN Rollout :
         /\ a <= m /\ m <= s /\ s <= stage /\ Replays!Lasts(m)
         /\ \E o \in Rollout[a], q \in Rollout[s] :
               Replays!Active(o) = v /\ ~Replays!Configured(q, v) /\ Replays!Active(q) = w
  BY DEF GivenUp
<1>2. PICK o \in Rollout[a], q \in Rollout[s] :
         Replays!Active(o) = v /\ ~Replays!Configured(q, v) /\ Replays!Active(q) = w
  BY <1>1
<1>3. Replays!ForwardAssumption
  BY RequestsAssumption
<1>4. /\ ~Replays!Configured(q, Replays!Active(o)) /\ Replays!Configured(p, Replays!Active(o))
      /\ Replays!Configured(p, Replays!Active(q))
  BY <1>2
<1>5. Replays!Active(p) = Replays!Active(q)
  BY <1>1, <1>2, <1>3, <1>4 DEF Replays!ForwardAssumption
<1>6. QED
  BY <1>2, <1>5

\* The tables.
LEMMA ReplayTables ==
    ASSUME ReplayInv
    PROVE  /\ now \in Nat /\ now >= 1 /\ now <= MaxClock /\ stage \in DOMAIN Rollout
           /\ overlap \in Nat /\ overlap <= MaxOverlap
           /\ mutations \in Seq([key : ApiKeys, body : ApiBodies, at : Nat]) /\ Len(mutations) \in Nat
           /\ DOMAIN mutations = 1 .. Len(mutations)
           /\ \A i \in DOMAIN mutations :
                 mutations[i].key \in ApiKeys /\ mutations[i].body \in ApiBodies /\ mutations[i].at \in Nat
           /\ \A r \in records :
                 /\ r.expires \in Nat /\ r.mutation \in DOMAIN mutations /\ r.mutation \in Nat
                 /\ mutations[r.mutation].key = r.key /\ mutations[r.mutation].body = r.body
<1>1. Replays!TypeOK
  BY DEF ReplayInv
<1>2. /\ mutations \in Seq([key : ApiKeys, body : ApiBodies, at : Nat])
      /\ stage \in DOMAIN Rollout /\ now \in 1 .. MaxClock /\ overlap \in 0 .. MaxOverlap
  BY <1>1, Zenon DEF Replays!TypeOK
<1>3. /\ Len(mutations) \in Nat /\ DOMAIN mutations = 1 .. Len(mutations)
      /\ \A i \in DOMAIN mutations : mutations[i] \in [key : ApiKeys, body : ApiBodies, at : Nat]
  <2>1. PICK S : S = [key : ApiKeys, body : ApiBodies, at : Nat]
    OBVIOUS
  <2>2. mutations \in Seq(S)
    BY <1>2, <2>1
  <2>3. Len(mutations) \in Nat /\ DOMAIN mutations = 1 .. Len(mutations) /\ \A i \in DOMAIN mutations : mutations[i] \in S
    BY ONLY <2>2
  <2>4. QED
    BY <2>1, <2>3
<1>4. \A i \in DOMAIN mutations :
         mutations[i].key \in ApiKeys /\ mutations[i].body \in ApiBodies /\ mutations[i].at \in Nat
  BY <1>3
<1>5. \A r \in records : /\ r.expires \in Nat /\ r.mutation \in DOMAIN mutations /\ r.mutation \in Nat
                         /\ mutations[r.mutation].key = r.key /\ mutations[r.mutation].body = r.body
  <2>1. \A r \in Replays!Records : r.expires \in Nat /\ r.mutation \in Nat
    BY DEF Replays!Records
  <2>2. /\ records \subseteq Replays!Records
        /\ \A r \in records :
             /\ r.mutation \in DOMAIN mutations
             /\ mutations[r.mutation].key = r.key /\ mutations[r.mutation].body = r.body
    BY <1>1, Zenon DEF Replays!TypeOK
  <2>3. QED
    BY <2>1, <2>2
<1>6. QED
  BY <1>2, <1>3, <1>4, <1>5, ReplayFacts

\* The record of a recent mutation has not expired by any clock.
LEMMA RecentIsFresh ==
    ASSUME ReplayInv, NEW r \in records, Recent(r.mutation)
    PROVE  FreshRecord(r)
<1>1. /\ now \in Nat /\ r.expires \in Nat /\ mutations[r.mutation].at \in Nat
      /\ mutations[r.mutation].at + Lifetime <= r.expires
  BY ReplayTables DEF ReplayInv
<1>2. ASSUME NEW p \in Processes \cup {Worker} PROVE now + SkewOf[p] < r.expires
  <2>1. SkewOf[p] \in Nat /\ SkewOf[p] + Promise <= Lifetime /\ Promise \in Nat /\ Lifetime \in Nat
    BY ReplayFacts
  <2>2. now < mutations[r.mutation].at + Promise
    BY DEF Recent
  <2>3. QED
    BY <1>1, <2>1, <2>2
<1>3. QED
  BY <1>2 DEF FreshRecord

\* Nor has a record that was written since processes of several stages serve together.
LEMMA YoungIsFresh ==
    ASSUME ReplayInv, NEW r \in records, Young(r)
    PROVE  FreshRecord(r)
<1>1. /\ now \in Nat /\ r.expires \in Nat /\ overlap \in Nat /\ overlap <= MaxOverlap
      /\ now + Lifetime <= r.expires + overlap
  BY ReplayTables DEF Young
<1>2. ASSUME NEW p \in Processes \cup {Worker} PROVE now + SkewOf[p] < r.expires
  <2>1. /\ SkewOf[p] \in Nat /\ SkewOf[p] + MaxOverlap < Lifetime
        /\ MaxOverlap \in Nat /\ Lifetime \in Nat
    BY ReplayFacts
  <2>2. QED
    BY <1>1, <2>1
<1>3. QED
  BY <1>2 DEF FreshRecord

\* Two records of one key and their order.
LEMMA TwoRecords ==
    ASSUME ReplayInv, NEW r \in records, NEW q \in records, r # q, r.key = q.key
    PROVE  \/ r.mutation < q.mutation /\ GivenUp(r.version, q.version)
           \/ q.mutation < r.mutation /\ GivenUp(q.version, r.version)
<1>1. r.mutation \in Nat /\ q.mutation \in Nat /\ r.mutation # q.mutation
  BY ReplayTables DEF ReplayInv
<1>2. r.mutation < q.mutation \/ q.mutation < r.mutation
  BY <1>1
<1>3. QED
  BY <1>2 DEF ReplayInv

\* A request that executes: it removed the expired record it found, if it found one.
Executes(p, k, b, kept) ==
    /\ p \in Rollout[stage] /\ k \in ApiKeys /\ b \in ApiBodies
    /\ Replays!HistoryComplete(p) /\ Replays!Perform(p, k, b, kept)
    /\ kept \subseteq records
    /\ \A r \in records \ kept :
         r.key = k /\ Replays!Configured(p, r.version) /\ Replays!HasExpired(r, p)
    /\ \A r \in kept : r.key = k /\ Replays!Configured(p, r.version) => records \ kept # {}
    /\ UNCHANGED <<now, stage, overlap>>

\* What a process cannot read it has given up.
LEMMA Unreadable ==
    ASSUME ReplayInv, NEW p \in Rollout[stage], Replays!HistoryComplete(p),
           NEW r \in records, ~Replays!Configured(p, r.version)
    PROVE  GivenUp(r.version, Replays!Active(p))
<1>1. stage \in DOMAIN Rollout /\ stage \in Nat /\ p \in Processes
  BY ReplayTables, ReplayFacts
<1>2. ~FreshRecord(r)
  <2>1. now \in Nat /\ r.expires \in Nat /\ SkewOf[p] \in Nat
    BY <1>1, ReplayTables, ReplayFacts
  <2>2. ~(r.expires > now + SkewOf[p])
    BY DEF Replays!HistoryComplete, Replays!ClockOf
  <2>3. QED
    BY <1>1, <2>1, <2>2 DEF FreshRecord
<1>3. PICK a \in DOMAIN Rollout :
         /\ a <= stage
         /\ \E o \in Rollout[a] : Replays!Active(o) = r.version
         /\ \E m \in DOMAIN Rollout : a <= m /\ m <= stage /\ Replays!Lasts(m)
  BY <1>2, YoungIsFresh DEF ReplayInv, Written
<1>4. PICK m \in DOMAIN Rollout : a <= m /\ m <= stage /\ Replays!Lasts(m)
  BY <1>3
<1>5. PICK o \in Rollout[a] : Replays!Active(o) = r.version
  BY <1>3
<1>6. stage <= stage
  BY <1>1
<1>7. QED
  BY <1>1, <1>4, <1>5, <1>6 DEF GivenUp

\* Whatever record of the key is left, its version was given up for the one written now.
LEMMA Superseded ==
    ASSUME ReplayInv, NEW p, NEW k, NEW b, NEW kept, Executes(p, k, b, kept),
           NEW r \in kept, r.key = k
    PROVE  GivenUp(r.version, Replays!Active(p))
<1>1. p \in Rollout[stage] /\ r \in records /\ stage \in DOMAIN Rollout
  BY ReplayTables DEF Executes
<1>2. CASE ~Replays!Configured(p, r.version)
  BY <1>1, <1>2, Unreadable DEF Executes
<1>3. CASE Replays!Configured(p, r.version)
  <2>1. PICK z \in records \ kept : z.key = k /\ Replays!Configured(p, z.version)
    BY <1>3 DEF Executes
  <2>2. z # r /\ r.version # Replays!Active(p)
    BY <2>1 DEF Executes, Replays!Perform
  <2>3. CASE GivenUp(z.version, r.version)
    BY <1>1, <1>3, <2>1, <2>2, <2>3, Forward
  <2>4. CASE GivenUp(r.version, z.version)
    <3>1. Replays!Active(p) = z.version
      BY <1>1, <1>3, <2>1, <2>4, Forward
    <3>2. QED
      BY <2>4, <3>1
  <2>5. QED
    BY <1>1, <2>1, <2>2, <2>3, <2>4, TwoRecords
<1>4. QED
  BY <1>2, <1>3

\* A mutation is executed only when no recent one had its key.
LEMMA NoneRecent ==
    ASSUME ReplayInv, NEW p, NEW k, NEW b, NEW kept, Executes(p, k, b, kept),
           NEW i \in DOMAIN mutations, mutations[i].key = k
    PROVE  mutations[i].at + Promise <= now
<1> SUFFICES ASSUME Recent(i) PROVE FALSE
  BY ReplayTables, ReplayFacts DEF Recent
<1>1. PICK r \in records : r.mutation = i
  BY DEF ReplayInv
<1>2. FreshRecord(r) /\ r.key = k
  BY <1>1, RecentIsFresh, ReplayTables
<1>3. p \in Rollout[stage] /\ stage \in DOMAIN Rollout /\ p \in Processes
  BY ReplayTables, ReplayFacts DEF Executes
<1>4. now + SkewOf[p] < r.expires /\ now \in Nat /\ SkewOf[p] \in Nat /\ r.expires \in Nat
  BY <1>2, <1>3, ReplayTables, ReplayFacts DEF FreshRecord
<1>5. ~Replays!HasExpired(r, p) /\ r.expires > Replays!ClockOf(p)
  BY <1>4 DEF Replays!HasExpired, Replays!ClockOf
<1>6. r \in kept /\ Replays!Configured(p, r.version)
  BY <1>5 DEF Executes, Replays!HistoryComplete
<1>7. PICK z \in records \ kept : z.key = k /\ Replays!Configured(p, z.version)
  BY <1>2, <1>6 DEF Executes
<1>8. z # r /\ r.version # Replays!Active(p)
  BY <1>2, <1>6, <1>7 DEF Executes, Replays!Perform
<1>9. CASE GivenUp(z.version, r.version)
  BY <1>3, <1>6, <1>7, <1>8, <1>9, Forward
<1>10. CASE r.mutation < z.mutation
  <2>1. z.mutation \in DOMAIN mutations /\ mutations[z.mutation].key = k
    BY <1>7, ReplayTables
  <2>2. mutations[i].at + Promise <= mutations[z.mutation].at /\ mutations[z.mutation].at <= now
    BY <1>1, <1>10, <2>1 DEF ReplayInv, Replays!NotRepeated
  <2>3. now \in Nat /\ mutations[i].at \in Nat /\ mutations[z.mutation].at \in Nat
    BY <2>1, ReplayTables
  <2>4. QED
    BY <2>2, <2>3, ReplayFacts DEF Recent
<1>11. QED
  BY <1>2, <1>7, <1>8, <1>9, <1>10, TwoRecords

\* What a record says of stages does not change while the stage and the clock stay.
LEMMA SameStage ==
    ASSUME UNCHANGED <<now, stage, overlap>>
    PROVE  /\ \A r : Written(r)' <=> Written(r)
           /\ \A v, w : GivenUp(v, w)' <=> GivenUp(v, w)
<1>1. \A r : Young(r)' <=> Young(r)
  BY DEF Young
<1>2. QED
  BY <1>1 DEF Written, GivenUp

\* The mutation is executed and recorded.
LEMMA ExecutesOK ==
    ASSUME ReplayInv, NEW p, NEW k, NEW b, NEW kept, Executes(p, k, b, kept)
    PROVE  ReplayInv'
<1> DEFINE n == Len(mutations)
<1> DEFINE v == Replays!Active(p)
<1> DEFINE x == [key |-> k, body |-> b, at |-> now]
<1> DEFINE e == [key |-> k, body |-> b, version |-> v,
                 expires |-> (now + SkewOf[p]) + Lifetime, mutation |-> n + 1]
<1>1. /\ p \in Rollout[stage] /\ stage \in DOMAIN Rollout /\ stage \in Nat /\ p \in Processes
      /\ k \in ApiKeys /\ b \in ApiBodies /\ kept \subseteq records
      /\ now' = now /\ stage' = stage /\ overlap' = overlap /\ overlap \in Nat /\ now \in Nat /\ now >= 1 /\ n \in Nat
      /\ SkewOf[p] \in Nat /\ v \in Replays!Versions
  BY ReplayTables, ReplayFacts DEF Executes
<1>2. /\ \A r \in kept : r.key = k => r.version # v
      /\ mutations' = Append(mutations, x) /\ records' = kept \cup {e}
      /\ reply' = [key |-> k, body |-> b, mutation |-> n + 1]
  BY Zenon DEF Executes, Replays!Perform, Replays!ClockOf
<1>3. x \in [key : ApiKeys, body : ApiBodies, at : Nat] /\ x.key = k /\ x.body = b /\ x.at = now
  BY <1>1
<1>4. /\ e.key = k /\ e.body = b /\ e.version = v /\ e.expires = (now + SkewOf[p]) + Lifetime
      /\ e.mutation = n + 1 /\ e.expires \in Nat /\ e \in Replays!Records
  BY <1>1, ReplayFacts, SMTT(20) DEF Replays!Records
<1> HIDE DEF x, e, v
<1>5. /\ mutations' \in Seq([key : ApiKeys, body : ApiBodies, at : Nat])
      /\ Len(mutations') = n + 1 /\ DOMAIN mutations' = 1 .. n + 1
      /\ \A i \in 1 .. n : mutations'[i] = mutations[i]
      /\ mutations'[n + 1] = x
  <2>1. PICK S : S = [key : ApiKeys, body : ApiBodies, at : Nat]
    OBVIOUS
  <2>2. mutations \in Seq(S) /\ x \in S
    BY <1>3, <2>1, ReplayTables
  <2>3. /\ Append(mutations, x) \in Seq(S) /\ Len(Append(mutations, x)) = Len(mutations) + 1
        /\ DOMAIN Append(mutations, x) = 1 .. Len(mutations) + 1
        /\ \A i \in 1 .. Len(mutations) : Append(mutations, x)[i] = mutations[i]
        /\ Append(mutations, x)[Len(mutations) + 1] = x
    BY ONLY <2>2
  <2>4. QED
    BY <1>2, <2>1, <2>3
<1>6. DOMAIN mutations = 1 .. n /\ \A i \in 1 .. n : i # n + 1 /\ i < n + 1 /\ i \in Nat /\ i \in 1 .. n + 1
  BY <1>1, ReplayTables
<1> HIDE DEF n
<1>7. \A i \in DOMAIN mutations' : (i \in 1 .. n /\ i \in DOMAIN mutations /\ mutations'[i] = mutations[i]) \/ (i = n + 1 /\ mutations'[i] = x)
  <2>1. \A i \in 1 .. n + 1 : i \in 1 .. n \/ i = n + 1
    BY <1>1
  <2>2. QED
    BY <1>5, <1>6, <2>1
<1>8. \A r \in records' : (r \in kept /\ r \in records /\ r.mutation \in 1 .. n) \/ r = e
  BY <1>1, <1>2, <1>6, ReplayTables
<1>9. Replays!TypeOK'
  <2>1. \A r, q \in records' : r.key = q.key /\ r.version = q.version => r = q
    <3>1. \A r, q \in records : r.key = q.key /\ r.version = q.version => r = q
      BY DEF ReplayInv, Replays!TypeOK
    <3>2. QED
      BY <1>2, <1>4, <1>8, <3>1
  <2>2. \A r \in records' : /\ r.mutation \in DOMAIN mutations'
                            /\ mutations'[r.mutation].key = r.key /\ mutations'[r.mutation].body = r.body
    <3>1. ASSUME NEW r \in kept, r \in records, r.mutation \in 1 .. n
          PROVE  /\ r.mutation \in DOMAIN mutations'
                 /\ mutations'[r.mutation].key = r.key /\ mutations'[r.mutation].body = r.body
      BY <1>5, <1>6, <3>1, ReplayTables
    <3>2. n + 1 \in DOMAIN mutations' /\ mutations'[e.mutation].key = e.key /\ mutations'[e.mutation].body = e.body
      BY <1>1, <1>3, <1>4, <1>5
    <3>3. QED
      BY <1>4, <1>8, <3>1, <3>2
  <2>3. reply' \in [key : ApiKeys, body : ApiBodies, mutation : DOMAIN mutations']
    BY <1>1, <1>2, <1>5
  <2>4. records' \subseteq Replays!Records
    <3>1. records \subseteq Replays!Records
      BY DEF ReplayInv, Replays!TypeOK
    <3>2. QED
      BY <1>4, <1>8, <3>1
  <2>5. now' \in 1 .. MaxClock /\ stage' \in DOMAIN Rollout /\ overlap' \in 0 .. MaxOverlap
    BY <1>1 DEF ReplayInv, Replays!TypeOK
  <2>6. Replays!Records' = Replays!Records
    BY DEF Replays!Records, Replays!Versions
  <2>7. QED
    BY <1>5, <2>1, <2>2, <2>3, <2>4, <2>5, <2>6, Zenon DEF Replays!TypeOK
<1>10. Replays!NotRepeated'
  <2>1. ASSUME NEW i \in DOMAIN mutations', NEW j \in DOMAIN mutations', i < j,
               mutations'[i].key = mutations'[j].key
        PROVE  mutations'[i].at + Promise <= mutations'[j].at
    <3>1. i \in 1 .. n /\ i \in DOMAIN mutations /\ mutations'[i] = mutations[i]
      <4>1. ~(i = n + 1)
        BY <1>1, <1>5, <2>1
      <4>2. QED
        BY <1>7, <4>1
    <3>2. CASE j \in 1 .. n /\ j \in DOMAIN mutations /\ mutations'[j] = mutations[j]
      BY <2>1, <3>1, <3>2 DEF ReplayInv, Replays!NotRepeated
    <3>3. CASE j = n + 1 /\ mutations'[j] = x
      <4>1. mutations[i].key = k
        BY <1>3, <2>1, <3>1, <3>3
      <4>2. mutations[i].at + Promise <= now
        BY <3>1, <4>1, NoneRecent
      <4>3. QED
        BY <1>3, <3>1, <3>3, <4>2
    <3>4. QED
      BY <1>7, <3>2, <3>3
  <2>2. QED
    BY <2>1 DEF Replays!NotRepeated
<1>11. Replays!AnswersMatch'
  BY <1>2, <1>3, <1>5 DEF Replays!AnswersMatch
<1>12. \A i \in DOMAIN mutations' : mutations'[i].at <= now'
  <2>1. now <= now
    BY <1>1
  <2>2. QED
    BY <1>1, <1>3, <1>7, <2>1 DEF ReplayInv
<1>13. ASSUME NEW i \in DOMAIN mutations', Recent(i)' PROVE \E r \in records' : r.mutation = i
  <2>1. CASE i = n + 1
    BY <1>2, <1>4, <2>1
  <2>2. CASE i \in DOMAIN mutations /\ mutations'[i] = mutations[i]
    <3>1. Recent(i)
      BY <1>1, <1>13, <2>2 DEF Recent
    <3>2. PICK r \in records : r.mutation = i
      BY <2>2, <3>1 DEF ReplayInv
    <3>3. FreshRecord(r)
      BY <3>1, <3>2, RecentIsFresh
    <3>4. ~Replays!HasExpired(r, p)
      <4>1. now + SkewOf[p] < r.expires /\ r.expires \in Nat
        BY <1>1, <3>3, ReplayTables DEF FreshRecord
      <4>2. QED
        BY <1>1, <4>1 DEF Replays!HasExpired, Replays!ClockOf
    <3>5. r \in records'
      BY <1>2, <3>4 DEF Executes
    <3>6. QED
      BY <3>2, <3>5
  <2>3. QED
    BY <1>7, <2>1, <2>2
<1>14. /\ \A r : Written(r)' <=> Written(r)
       /\ \A u, w : GivenUp(u, w)' <=> GivenUp(u, w)
  BY <1>1, SameStage
<1>15. Written(e)
  <2>1. Young(e)
    <3>1. Lifetime \in Nat
      BY ReplayFacts
    <3>2. now + Lifetime <= ((now + SkewOf[p]) + Lifetime) + overlap
      BY <1>1, <3>1
    <3>3. QED
      BY <1>4, <3>2 DEF Young
  <2>2. stage <= stage /\ Replays!Active(p) = e.version
    BY <1>1, <1>4 DEF v
  <2>3. QED
    BY <1>1, <2>1, <2>2 DEF Written
<1>16. ASSUME NEW r \in records' PROVE Written(r)' /\ mutations'[r.mutation].at + Lifetime <= r.expires
  <2>1. CASE r \in records /\ r.mutation \in 1 .. n
    BY <1>5, <1>14, <2>1 DEF ReplayInv
  <2>2. CASE r = e
    <3>1. mutations'[r.mutation].at = now
      BY <1>3, <1>4, <1>5, <2>2
    <3>2. now + Lifetime <= e.expires
      BY <1>1, <1>4, ReplayFacts, SMTT(20)
    <3>3. QED
      BY <1>14, <1>15, <2>2, <3>1, <3>2
  <2>3. QED
    BY <1>8, <2>1, <2>2
<1>17. ASSUME NEW r \in records', NEW q \in records'
       PROVE  /\ r.mutation = q.mutation => r = q
              /\ r.key = q.key /\ r.mutation < q.mutation => GivenUp(r.version, q.version)'
  <2>1. CASE r \in records /\ q \in records
    BY <1>14, <2>1 DEF ReplayInv
  <2>2. CASE r = e /\ q = e
    BY <1>1, <1>4, <2>2
  <2>3. CASE r = e /\ q \in kept /\ q.mutation \in 1 .. n
    <3>1. ~(r.mutation = q.mutation) /\ ~(r.mutation < q.mutation)
      BY <1>1, <1>4, <2>3
    <3>2. QED
      BY <3>1
  <2>4. CASE r \in kept /\ r.mutation \in 1 .. n /\ q = e
    <3>1. r.mutation # q.mutation
      BY <1>4, <1>6, <2>4
    <3>2. r.key = k => GivenUp(r.version, q.version)
      BY <1>4, <2>4, Superseded DEF v
    <3>3. QED
      BY <1>4, <1>14, <2>4, <3>1, <3>2
  <2>5. QED
    BY <1>8, <2>1, <2>2, <2>3, <2>4
<1>18. QED
  BY <1>9, <1>10, <1>11, <1>12, <1>13, <1>16, <1>17 DEF ReplayInv

\* idempotent_mutation, when it executes.
LEMMA RequestsExecute ==
    ASSUME ReplayInv, NEW p \in Rollout[stage], NEW k \in ApiKeys, NEW b \in ApiBodies,
           Replays!FirstRequest(p, k, b) \/ Replays!RequestAfterExpiry(p, k, b)
    PROVE  ReplayInv'
<1>1. CASE Replays!FirstRequest(p, k, b)
  <2>1. /\ Replays!HistoryComplete(p) /\ Replays!Perform(p, k, b, records)
        /\ Replays!Matching(p, k) = {} /\ UNCHANGED <<now, stage, overlap>>
    BY <1>1 DEF Replays!FirstRequest
  <2>2. \A r \in records : ~(r.key = k /\ Replays!Configured(p, r.version))
    BY <2>1 DEF Replays!Matching
  <2>3. Executes(p, k, b, records)
    BY <2>1, <2>2 DEF Executes
  <2>4. QED
    BY <2>3, ExecutesOK
<1>2. CASE Replays!RequestAfterExpiry(p, k, b)
  <2>1. PICK z \in Replays!Matching(p, k) :
           Replays!HasExpired(z, p) /\ Replays!Perform(p, k, b, records \ {z})
    BY <1>2 DEF Replays!RequestAfterExpiry
  <2>2. z \in records /\ z.key = k /\ Replays!Configured(p, z.version)
    BY <2>1 DEF Replays!Matching
  <2>3. records \ (records \ {z}) = {z} /\ records \ {z} \subseteq records
    BY <2>2
  <2>4. Executes(p, k, b, records \ {z})
    BY <1>2, <2>1, <2>2, <2>3 DEF Executes, Replays!RequestAfterExpiry
  <2>5. QED
    BY <2>4, ExecutesOK
<1>3. QED
  BY <1>1, <1>2

\* A request that is answered from its record.
LEMMA RepeatedOK ==
    ASSUME ReplayInv, NEW p, NEW k \in ApiKeys, NEW b \in ApiBodies, Replays!RepeatedRequest(p, k, b)
    PROVE  ReplayInv'
<1>1. PICK r \in Replays!Matching(p, k) :
         Replays!SameRequest(r, b) /\ reply' = [key |-> k, body |-> b, mutation |-> r.mutation]
  BY DEF Replays!RepeatedRequest
<1>2. UNCHANGED <<now, stage, overlap, records, mutations>>
  BY DEF Replays!RepeatedRequest
<1>3. r \in records /\ r.key = k /\ r.body = b
  BY <1>1 DEF Replays!Matching, Replays!SameRequest
<1>4. /\ r.mutation \in DOMAIN mutations
      /\ mutations[r.mutation].key = k /\ mutations[r.mutation].body = b
  BY <1>3, ReplayTables
<1>5. reply' \in [key : ApiKeys, body : ApiBodies, mutation : DOMAIN mutations]
  BY <1>1, <1>4
<1>6. Replays!AnswersMatch'
  BY <1>1, <1>2, <1>4 DEF Replays!AnswersMatch
<1>7. Replays!TypeOK'
  <2>1. Replays!Records' = Replays!Records
    BY DEF Replays!Records, Replays!Versions
  <2>2. QED
    BY <1>2, <1>5, <2>1, Zenon DEF ReplayInv, Replays!TypeOK
<1>8. Replays!NotRepeated'
  BY <1>2 DEF ReplayInv, Replays!NotRepeated
<1>9. /\ \A x : Written(x)' <=> Written(x)
      /\ \A v, w : GivenUp(v, w)' <=> GivenUp(v, w)
  BY <1>2, SameStage
<1>10. \A i : Recent(i)' <=> Recent(i)
  BY <1>2 DEF Recent
<1>11. QED
  BY <1>2, <1>6, <1>7, <1>8, <1>9, <1>10 DEF ReplayInv

\* The tables stay, except that expired records may go; time and the stages only advance.
LEMMA Advances ==
    ASSUME ReplayInv, records' \subseteq records, UNCHANGED <<mutations, reply>>,
           now' \in 1 .. MaxClock, now <= now', stage' \in DOMAIN Rollout, stage <= stage',
           overlap' \in 0 .. MaxOverlap,
           \A r \in records \ records' : ~FreshRecord(r),
           \A r \in records : Written(r) => Written(r)'
    PROVE  ReplayInv'
<1>1. Replays!TypeOK'
  <2>1. Replays!Records' = Replays!Records
    BY DEF Replays!Records, Replays!Versions
  <2>2. /\ records \subseteq Replays!Records
        /\ \A r, q \in records : r.key = q.key /\ r.version = q.version => r = q
        /\ \A r \in records :
             /\ r.mutation \in DOMAIN mutations
             /\ mutations[r.mutation].key = r.key /\ mutations[r.mutation].body = r.body
        /\ mutations \in Seq([key : ApiKeys, body : ApiBodies, at : Nat])
        /\ reply \in [key : ApiKeys, body : ApiBodies, mutation : DOMAIN mutations] \cup {Replays!NoReply}
    BY Zenon DEF ReplayInv, Replays!TypeOK
  <2>3. records' \subseteq Replays!Records
    BY <2>2
  <2>4. Replays!NoReply' = Replays!NoReply
    BY DEF Replays!NoReply
  <2>5. /\ \A r, q \in records' : r.key = q.key /\ r.version = q.version => r = q
        /\ \A r \in records' :
             /\ r.mutation \in DOMAIN mutations'
             /\ mutations'[r.mutation].key = r.key /\ mutations'[r.mutation].body = r.body
    BY <2>2
  <2>6. QED
    BY <2>1, <2>2, <2>3, <2>4, <2>5, Zenon DEF Replays!TypeOK
<1>2. Replays!NotRepeated' /\ Replays!AnswersMatch'
  BY DEF ReplayInv, Replays!NotRepeated, Replays!AnswersMatch, Replays!NoReply
<1>3. now \in Nat /\ now' \in Nat /\ stage \in Nat /\ stage' \in Nat
  BY ReplayTables, ReplayFacts
<1>4. \A i \in DOMAIN mutations : mutations[i].at \in Nat /\ mutations[i].at <= now
  BY ReplayTables DEF ReplayInv
<1>5. \A i \in DOMAIN mutations : mutations[i].at <= now'
  BY <1>3, <1>4
<1>6. ASSUME NEW i \in DOMAIN mutations, Recent(i)' PROVE \E r \in records' : r.mutation = i
  <2>1. Recent(i)
    <3>1. now' < mutations[i].at + Promise
      BY <1>6 DEF Recent
    <3>2. QED
      BY <1>3, <1>4, <3>1, ReplayFacts DEF Recent
  <2>2. PICK r \in records : r.mutation = i
    BY <2>1 DEF ReplayInv
  <2>3. FreshRecord(r)
    BY <2>1, <2>2, RecentIsFresh
  <2>4. QED
    BY <2>2, <2>3
<1>7. ASSUME NEW v, NEW w, GivenUp(v, w) PROVE GivenUp(v, w)'
  <2>1. \A s \in DOMAIN Rollout : s <= stage => s <= stage'
    BY <1>3, ReplayFacts
  <2>2. QED
    BY <1>7, <2>1 DEF GivenUp
<1>8. QED
  BY <1>1, <1>2, <1>5, <1>6, <1>7 DEF ReplayInv

\* purge_expired_api_idempotency
LEMMA PurgeOK == ASSUME ReplayInv, Replays!Purge PROVE ReplayInv'
<1>1. PICK S \in SUBSET Replays!Purgeable : records' = records \ S
  BY DEF Replays!Purge
<1>2. UNCHANGED <<now, stage, overlap, mutations, reply>>
  BY DEF Replays!Purge
<1>3. ASSUME NEW r \in records \ records' PROVE ~FreshRecord(r)
  <2>1. r.expires <= now + SkewOf[Worker]
    BY <1>1, <1>3 DEF Replays!Purgeable, Replays!ClockOf
  <2>2. r.expires \in Nat /\ now \in Nat /\ SkewOf[Worker] \in Nat
    BY ReplayTables, ReplayFacts
  <2>3. ~(now + SkewOf[Worker] < r.expires)
    BY <2>1, <2>2
  <2>4. QED
    BY <2>3 DEF FreshRecord
<1>4. /\ now' \in 1 .. MaxClock /\ now <= now' /\ stage' \in DOMAIN Rollout /\ stage <= stage'
      /\ overlap' \in 0 .. MaxOverlap
  <2>1. /\ now \in Nat /\ now >= 1 /\ now <= MaxClock /\ stage \in DOMAIN Rollout /\ stage \in Nat
        /\ MaxClock \in Nat /\ overlap \in Nat /\ overlap <= MaxOverlap /\ MaxOverlap \in Nat
    BY ReplayTables, ReplayFacts
  <2>2. QED
    BY <1>2, <2>1
<1>5. \A r : Written(r)' <=> Written(r)
  BY <1>2, SameStage
<1>6. QED
  BY <1>1, <1>2, <1>3, <1>4, <1>5, Advances

\* Processes are replaced.
LEMMA DeployOK == ASSUME ReplayInv, Replays!Deploy PROVE ReplayInv'
<1>1. /\ stage < Len(Rollout) /\ stage' = stage + 1 /\ UNCHANGED <<now, records, mutations, reply>>
      /\ overlap' = IF Replays!Lasts(stage + 1) THEN 0 ELSE overlap
  BY DEF Replays!Deploy
<1>2. /\ now \in Nat /\ now >= 1 /\ now <= MaxClock /\ stage \in DOMAIN Rollout /\ MaxClock \in Nat
      /\ DOMAIN Rollout = 1 .. Len(Rollout) /\ Len(Rollout) \in Nat
      /\ overlap \in Nat /\ overlap <= MaxOverlap /\ MaxOverlap \in Nat
  BY ReplayTables, ReplayFacts
<1>3. /\ now' \in 1 .. MaxClock /\ now <= now' /\ stage' \in DOMAIN Rollout /\ stage <= stage'
      /\ overlap' \in 0 .. MaxOverlap
  BY <1>1, <1>2
<1>4. \A s \in DOMAIN Rollout : s <= stage => s <= stage'
  BY <1>1, <1>2
<1>5. CASE Replays!Lasts(stage')
  <2>1. \A a \in DOMAIN Rollout : a <= stage => a <= stage' /\ stage' <= stage'
    BY <1>2, <1>3, <1>4
  <2>2. \A r : Written(r) => Written(r)'
    BY <1>3, <1>5, <2>1 DEF Written
  <2>3. QED
    BY <1>1, <1>3, <2>2, Advances
<1>6. CASE ~Replays!Lasts(stage')
  <2>1. \A r : Young(r)' <=> Young(r)
    BY <1>1, <1>6 DEF Young
  <2>2. \A r : Written(r) => Written(r)'
    BY <1>4, <2>1 DEF Written
  <2>3. QED
    BY <1>1, <1>3, <2>2, Advances
<1>7. QED
  BY <1>5, <1>6

\* Time passes.
LEMMA TimeOK == ASSUME ReplayInv, Replays!Tick PROVE ReplayInv'
<1>1. /\ now < MaxClock /\ now' = now + 1 /\ UNCHANGED <<stage, records, mutations, reply>>
      /\ \/ Replays!Lasts(stage) /\ overlap' = overlap
         \/ overlap < MaxOverlap /\ overlap' = overlap + 1
  BY DEF Replays!Tick
<1>2. /\ now \in Nat /\ now >= 1 /\ stage \in DOMAIN Rollout /\ MaxClock \in Nat /\ stage \in Nat
      /\ overlap \in Nat /\ overlap <= MaxOverlap /\ MaxOverlap \in Nat /\ Lifetime \in Nat
  BY ReplayTables, ReplayFacts
<1>3. /\ now' \in 1 .. MaxClock /\ now <= now' /\ stage' \in DOMAIN Rollout /\ stage <= stage'
      /\ overlap' \in 0 .. MaxOverlap
  BY <1>1, <1>2
<1>4. ASSUME Replays!Lasts(stage), NEW r, Written(r) PROVE Written(r)'
  <2>1. PICK a \in DOMAIN Rollout : a <= stage /\ \E o \in Rollout[a] : Replays!Active(o) = r.version
    BY <1>4 DEF Written
  <2>2. \E m \in DOMAIN Rollout : a <= m /\ m <= stage' /\ Replays!Lasts(m)
    BY <1>1, <1>2, <1>3, <1>4, <2>1
  <2>3. QED
    BY <1>1, <2>1, <2>2 DEF Written
<1>5. ASSUME overlap' = overlap + 1, NEW r \in records, Written(r) PROVE Written(r)'
  <2>1. Young(r) => Young(r)'
    BY <1>1, <1>2, <1>5, ReplayTables DEF Young
  <2>2. QED
    BY <1>1, <1>5, <2>1 DEF Written
<1>6. QED
  BY <1>1, <1>3, <1>4, <1>5, Advances

\* Every step, and stuttering.
LEMMA ReplayStep ==
    ASSUME ReplayInv, Replays!Next \/ UNCHANGED <<clockVars, replayVars>>
    PROVE  ReplayInv'
<1>1. CASE UNCHANGED <<clockVars, replayVars>>
  <2>1. UNCHANGED <<now, records, stage, overlap, mutations, reply>>
    BY <1>1 DEF clockVars, replayVars
  <2>2. /\ now \in Nat /\ now >= 1 /\ now <= MaxClock /\ stage \in DOMAIN Rollout /\ stage \in Nat
        /\ MaxClock \in Nat /\ overlap \in Nat /\ overlap <= MaxOverlap /\ MaxOverlap \in Nat
    BY ReplayTables, ReplayFacts
  <2>3. /\ now' \in 1 .. MaxClock /\ now <= now' /\ stage' \in DOMAIN Rollout /\ stage <= stage'
        /\ overlap' \in 0 .. MaxOverlap
    BY <2>1, <2>2
  <2>4. \A r : Written(r)' <=> Written(r)
    BY <2>1, SameStage
  <2>5. QED
    BY <2>1, <2>3, <2>4, Advances
<1>2. CASE Replays!Next
  BY <1>2, RequestsExecute, RepeatedOK, PurgeOK, DeployOK, TimeOK DEF Replays!Next
<1>3. QED
  BY <1>1, <1>2

\* No mutation has been executed.
LEMMA ReplayInit == Replays!Init => ReplayInv
<1> SUFFICES ASSUME Replays!Init PROVE ReplayInv
  OBVIOUS
<1>1. /\ now = 1 /\ stage = 1 /\ overlap = 0 /\ records = {} /\ mutations = << >> /\ reply = Replays!NoReply
  BY DEF Replays!Init
<1>2. 1 \in 1 .. MaxClock /\ 1 \in DOMAIN Rollout /\ 0 \in 0 .. MaxOverlap
  BY ReplayFacts
<1>3. mutations \in Seq([key : ApiKeys, body : ApiBodies, at : Nat]) /\ DOMAIN mutations = {}
  BY <1>1
<1>4. Replays!TypeOK
  BY <1>1, <1>2, <1>3 DEF Replays!TypeOK
<1>5. QED
  BY <1>1, <1>3, <1>4 DEF ReplayInv, Replays!NotRepeated, Replays!AnswersMatch
-----------------------------------------------------------------------------
(* The theorems. *)

\* The invariant of the subject of a behaviour.
SubjectInv ==
    /\ subject = "admission" => AdmissionInv
    /\ subject = "membership" => MemberInv
    /\ subject = "login" => LoginInv
    /\ subject = "listing" => ListInv
    /\ subject = "replays" => ReplayInv

\* Each subject's invariant holds throughout, whatever else is requested.
THEOREM RequestsInvariant == Spec => []SubjectInv
<1>1. Init => SubjectInv
  BY AdmissionInit, MemberInit, LoginInit, ListInit, ReplayInit DEF Init, SubjectInv
<1>2. SubjectInv /\ [Next]_vars => SubjectInv'
  <2> SUFFICES ASSUME SubjectInv, [Next]_vars PROVE SubjectInv'
    OBVIOUS
  <2>1. subject' = subject
    BY DEF Next, vars
  <2>2. subject = "admission" => Admission!Next \/ UNCHANGED <<clockVars, admissionVars>>
    BY DEF Next, vars
  <2>3. subject = "membership" => Membership!Next \/ UNCHANGED memberVars
    BY DEF Next, vars
  <2>4. subject = "login" => FirstLogin!Next \/ UNCHANGED loginVars
    BY DEF Next, vars
  <2>5. subject = "listing" => Listing!Next \/ UNCHANGED listingVars
    BY DEF Next, vars
  <2>6. subject = "replays" => Replays!Next \/ UNCHANGED <<clockVars, replayVars>>
    BY DEF Next, vars
  <2>7. QED
    BY <2>1, <2>2, <2>3, <2>4, <2>5, <2>6, AdmissionStep, MemberStep, LoginStep, ListStep,
       ReplayStep DEF SubjectInv
<1>3. QED
  BY <1>1, <1>2, PTL DEF Spec

\* However requests race and whichever key ring serves them, a key names at most one run
\* that exists, a token creates at most one run ever, and none beside the run it is bound
\* to (create_run, _replay_existing_run).
THEOREM KeyKept == Spec => []OneRunPerKey
<1>1. SubjectInv => OneRunPerKey
  <2>1. AdmissionInv => Admission!TokensAreBound
    BY DEF AdmissionInv, Kept, Admission!TypeOK, Admission!Live, Admission!TokensAreBound
  <2>2. QED
    BY <2>1 DEF SubjectInv, AdmissionInv, OneRunPerKey
<1>2. QED
  BY <1>1, RequestsInvariant, PTL

\* A workspace keeps an admin, and what commits is authorized (set_membership_role).
THEOREM AdminKept == Spec => []AdminRemains
<1>1. SubjectInv => AdminRemains
  BY DEF SubjectInv, MemberInv, AdminRemains
<1>2. QED
  BY <1>1, RequestsInvariant, PTL

\* First requests of one principal act as one committed user (resolve_user).
THEOREM IdentityKept == Spec => []OneIdentity
<1>1. SubjectInv => OneIdentity
  BY LoginSafe DEF SubjectInv, OneIdentity
<1>2. QED
  BY <1>1, RequestsInvariant, PTL

\* Rows that come and go while a client follows the cursors are returned at most once, and
\* a row that matched throughout the walk is returned by its end (list_runs and its siblings).
THEOREM NothingLost == Spec => []NothingSkipped
<1>1. SubjectInv => NothingSkipped
  BY ListSafe DEF SubjectInv, NothingSkipped
<1>2. QED
  BY <1>1, RequestsInvariant, PTL

\* While keys rotate forward, and the skew of a clock leaves a record's lifetime room for the
\* promise and for the time two generations of processes serve together, a mutation is not
\* executed again for its idempotency key within the promised time, and a replayed answer
\* is that of the same request (idempotent_mutation,
\* purge_expired_api_idempotency).
THEOREM MutationsKept == Spec => []NotRepeated
<1>1. SubjectInv => NotRepeated
  BY DEF SubjectInv, ReplayInv, NotRepeated
<1>2. QED
  BY <1>1, RequestsInvariant, PTL
=============================================================================
