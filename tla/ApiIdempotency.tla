-------------------------- MODULE ApiIdempotency --------------------------
(***************************************************************************)
(* api/idempotency.py: the replay records of the API's other mutations.    *)
(* A mutation holds its workspace's lock from the first statement to the   *)
(* commit, so requests run one after the other; what makes it hard is      *)
(* time.  Records expire after Lifetime, each process reads its own clock, *)
(* the worker purges by its clock, and processes with different key rings  *)
(* serve requests while keys are rotated.                                  *)
(***************************************************************************)
EXTENDS Naturals, Sequences, FiniteSets

CONSTANTS
    Processes,   \* API processes
    Rollout,     \* the sets of processes that serve together, stage after stage
    RingOf,      \* RingOf[p]: its key versions, the active one first
    SkewOf,      \* SkewOf[p]: how far its clock runs ahead
    Worker,      \* the process that purges; its clock is SkewOf[Worker]
    Keys,        \* idempotency keys of one actor and route
    Bodies,      \* canonical request bodies
    Lifetime,    \* how long a record is kept: 7 days
    Promise,     \* how long a retry must be replayed: 24 hours
    MaxOverlap,  \* how long processes of several stages serve together at a stretch
    BatchSize,   \* batch_size
    MaxClock,    \* bound: the last instant of true time
    MaxMutations \* bound: mutations executed

Versions == UNION {{RingOf[p][i] : i \in DOMAIN RingOf[p]} : p \in Processes}

RolloutAssumption == Rollout \in Seq(SUBSET Processes) /\ Rollout # << >>
RingsAssumption == \A p \in Processes : 1 \in DOMAIN RingOf[p]
SkewAssumption ==
    /\ Lifetime \in Nat /\ Promise \in Nat \ {0} /\ MaxClock \in Nat \ {0}
    /\ MaxOverlap \in Nat
    /\ \A p \in Processes \cup {Worker} :
         SkewOf[p] \in Nat /\ SkewOf[p] + Promise <= Lifetime /\ SkewOf[p] + MaxOverlap < Lifetime

Configured(p, v) == \E i \in DOMAIN RingOf[p] : RingOf[p][i] = v

\* The key a process signs new records with.
Active(p) == RingOf[p][1]

\* A stage that may last; processes of two stages serve together only for a while, never
\* for a record's lifetime.
Lasts(s) == Cardinality(Rollout[s]) = 1

\* Rotations go forward, as the runbook asks (new keys first, old ones dropped last): when q
\* no longer holds a version written before a lasting stage, a process that still holds it,
\* and holds what q writes, writes that too.
ForwardAssumption ==
    \A r, m, s, t \in DOMAIN Rollout : r <= m /\ m <= s /\ s <= t /\ Lasts(m) =>
        \A o \in Rollout[r], q \in Rollout[s], p \in Rollout[t] :
            ~Configured(q, Active(o)) /\ Configured(p, Active(o)) /\ Configured(p, Active(q))
                => Active(p) = Active(q)

VARIABLES
    now,        \* true time
    stage,      \* the stage of the rollout
    overlap,    \* how long processes of several stages have been serving together
    records,    \* api_idempotency_records
    mutations,  \* history: the mutations executed and committed
    reply       \* the last answer given

vars == <<now, stage, overlap, records, mutations, reply>>

Records == [key : Keys, body : Bodies, version : Versions, expires : Nat, mutation : Nat \ {0}]

NoReply == [key |-> "none"]

\* The types of the tables; the unique constraint holds, and a record stands for a
\* mutation that was executed with its key and body.
TypeOK ==
    /\ now \in 1 .. MaxClock
    /\ stage \in DOMAIN Rollout /\ overlap \in 0 .. MaxOverlap
    /\ records \subseteq Records
    /\ mutations \in Seq([key : Keys, body : Bodies, at : Nat])
    /\ reply \in [key : Keys, body : Bodies, mutation : DOMAIN mutations] \cup {NoReply}
    /\ \A r, q \in records : r.key = q.key /\ r.version = q.version => r = q
    /\ \A r \in records :
         /\ r.mutation \in DOMAIN mutations
         /\ mutations[r.mutation].key = r.key /\ mutations[r.mutation].body = r.body

Init ==
    /\ now = 1 /\ stage = 1 /\ overlap = 0
    /\ records = {}
    /\ mutations = << >>
    /\ reply = NoReply
-----------------------------------------------------------------------------
ClockOf(p) == now + SkewOf[p]

\* Mutant: the history is not checked.
HistoryComplete_Skipped(p) == TRUE

\* _require_complete_key_history
HistoryComplete(p) == \A r \in records : r.expires > ClockOf(p) => Configured(p, r.version)

\* The rows that match the key under one of the process's versions; the query takes
\* whichever comes first.
Matching(p, k) == {r \in records : r.key = k /\ Configured(p, r.version)}

\* The operation, and the record of its response; a record with the same key and version
\* would violate the unique constraint and undo both.
Perform(p, k, b, kept) ==
    LET v == Active(p) IN
    /\ Len(mutations) < MaxMutations
    /\ \A r \in kept : r.key = k => r.version # v
    /\ mutations' = Append(mutations, [key |-> k, body |-> b, at |-> now])
    /\ records' = kept \cup {[key |-> k, body |-> b, version |-> v,
                              expires |-> ClockOf(p) + Lifetime, mutation |-> Len(mutations) + 1]}
    /\ reply' = [key |-> k, body |-> b, mutation |-> Len(mutations) + 1]

\* idempotent_mutation, when the key is unknown.
FirstRequest(p, k, b) ==
    /\ HistoryComplete(p)
    /\ Matching(p, k) = {}
    /\ Perform(p, k, b, records)
    /\ UNCHANGED <<now, stage, overlap>>

HasExpired(r, p) == r.expires <= ClockOf(p)

\* The record found has expired: it is deleted and the mutation is executed.
RequestAfterExpiry(p, k, b) ==
    /\ HistoryComplete(p)
    /\ \E r \in Matching(p, k) : HasExpired(r, p) /\ Perform(p, k, b, records \ {r})
    /\ UNCHANGED <<now, stage, overlap>>

\* Mutant: the request is not compared with the recorded one.
SameRequest_Any(r, b) == TRUE

SameRequest(r, b) == r.body = b

\* The record found is current: its response is the answer, or the request conflicts.
RepeatedRequest(p, k, b) ==
    /\ HistoryComplete(p)
    /\ \E r \in Matching(p, k) :
         /\ ~HasExpired(r, p)
         /\ SameRequest(r, b)
         /\ reply' = [key |-> k, body |-> b, mutation |-> r.mutation]
    /\ UNCHANGED <<now, stage, overlap, records, mutations>>

Purgeable == {r \in records : r.expires <= ClockOf(Worker)}

\* purge_expired_api_idempotency: the oldest BatchSize of the expired records.
Purge ==
    /\ Purgeable # {}
    /\ \E S \in SUBSET Purgeable :
         /\ Cardinality(S) = IF Cardinality(Purgeable) < BatchSize
                             THEN Cardinality(Purgeable) ELSE BatchSize
         /\ \A r \in S, q \in Purgeable \ S : r.expires <= q.expires
         /\ records' = records \ S
    /\ UNCHANGED <<now, stage, overlap, mutations, reply>>

\* Time passes, in the middle of a rotation too.
Tick ==
    /\ now < MaxClock
    /\ IF Lasts(stage) THEN UNCHANGED overlap
       ELSE overlap < MaxOverlap /\ overlap' = overlap + 1
    /\ now' = now + 1
    /\ UNCHANGED <<stage, records, mutations, reply>>

\* Processes are replaced.
Deploy ==
    /\ stage < Len(Rollout)
    /\ stage' = stage + 1
    /\ overlap' = IF Lasts(stage + 1) THEN 0 ELSE overlap
    /\ UNCHANGED <<now, records, mutations, reply>>

Next ==
    \/ \E p \in Rollout[stage], k \in Keys, b \in Bodies :
         FirstRequest(p, k, b) \/ RequestAfterExpiry(p, k, b) \/ RepeatedRequest(p, k, b)
    \/ Purge \/ Deploy \/ Tick

Spec == Init /\ [][Next]_vars
-----------------------------------------------------------------------------
(* Properties. *)

\* For as long as a retry is promised its replay, no process executes the mutation of a
\* key again: not when its clock runs ahead, its ring was rotated, or the purge ran.
NotRepeated ==
    \A i, j \in DOMAIN mutations :
        i < j /\ mutations[i].key = mutations[j].key =>
            mutations[i].at + Promise <= mutations[j].at

\* The answer to a request is the response of a mutation of that key and body.
AnswersMatch ==
    reply # NoReply =>
        /\ mutations[reply.mutation].key = reply.key
        /\ mutations[reply.mutation].body = reply.body
=============================================================================
