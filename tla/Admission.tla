----------------------------- MODULE Admission -----------------------------
(***************************************************************************)
(* How execution/service.py admits a run: preflight signs a confirmation   *)
(* token, create_run consumes its nonce and records the caller's           *)
(* idempotency key in the transaction that creates the run.  create_run    *)
(* looks its key up without a lock, then either replays the run it found   *)
(* or looks again under the workspace's lock and creates one.  Processes   *)
(* with different key rings run side by side while keys are rotated.       *)
(* Targets, limits and quarantine are RunLedger's; a request that is       *)
(* refused changes nothing and is left out, unless it was refused late.    *)
(***************************************************************************)
EXTENDS Naturals, Sequences, FiniteSets

CONSTANTS
    Sessions,      \* create_run transactions in progress
    Actors,        \* users of the workspace
    Keys,          \* idempotency keys
    Bodies,        \* canonical requests
    DigestOf,      \* DigestOf[b]: the argument digest of a canonical request
    Deployments,   \* the pairs of key rings that running processes are configured with
    TTL,           \* confirmation_ttl_seconds
    Retention,     \* run_retention_days
    MaxClock,      \* bound: the last instant of the clock
    MaxTokens,     \* bound: tokens signed
    MaxRuns        \* bound: runs created

Digests == {DigestOf[b] : b \in Bodies}

InRing(ring, v) == \E i \in DOMAIN ring : ring[i] = v

\* _validate_keyring: no ring is empty, no version occurs twice.
DeploymentsAssumption ==
    \A d \in Deployments : \A ring \in {d.confirmation, d.idempotency} :
        1 \in DOMAIN ring /\ \A i, j \in DOMAIN ring : i # j => ring[i] # ring[j]

\* ExecutionLimits: a run outlives the tokens that were valid when it ended.
TimesAssumption == TTL \in Nat \ {0} /\ Retention \in Nat /\ TTL <= Retention

BoundsAssumption == MaxClock \in Nat \ {0} /\ MaxTokens \in Nat /\ MaxRuns \in Nat

VARIABLES
    now,       \* the database clock
    tokens,    \* the tokens signed so far; a token's index is its nonce
    runs,      \* the runs created so far
    records,   \* idempotency_records
    nonces,    \* confirmation_nonces
    req        \* the create_run call of each session

vars == <<now, tokens, runs, records, nonces, req>>

Versions == UNION {{ring[i] : i \in DOMAIN ring} :
                     ring \in UNION {{d.confirmation, d.idempotency} : d \in Deployments}}

RunIds == 1 .. MaxRuns
Nonces == 1 .. MaxTokens
Times == 0 .. MaxClock + TTL

Records == [run : RunIds, actor : Actors, key : Keys, body : Bodies,
            keyVersion : Versions, confirmationVersion : Versions]

NoRequest == [step |-> "none"]

Requests ==
    [step : {"admit", "replay"}, actor : Actors, key : Keys, body : Bodies,
     nonce : Nonces, at : Deployments, run : RunIds \cup {0}]

\* The types of the tables. A nonce is stored once, and an idempotency key once for each
\* key version (the unique constraints); what names a run names one that exists.
TypeOK ==
    /\ now \in 1 .. MaxClock
    /\ tokens \in Seq([actor : Actors, digest : Digests, kid : Versions, exp : Times])
    /\ runs \in Seq([actor : Actors, key : Keys, body : Bodies, nonce : Nonces,
                     status : {"active", "ended", "deleted"}, endedAt : Times])
    /\ records \subseteq Records
    /\ nonces \subseteq [nonce : Nonces, run : RunIds, version : Versions]
    /\ req \in [Sessions -> Requests \cup {NoRequest}]
    /\ \A n, m \in nonces : n.nonce = m.nonce => n = m
    /\ \A r, q \in records :
         r.actor = q.actor /\ r.key = q.key /\ r.keyVersion = q.keyVersion => r = q
    /\ \A x \in records \cup nonces : runs[x.run].status # "deleted"

Init ==
    /\ now = 1
    /\ tokens = << >> /\ runs = << >>
    /\ records = {} /\ nonces = {}
    /\ req = [s \in Sessions |-> NoRequest]
-----------------------------------------------------------------------------
(* Reading. *)

\* _require_confirmation_key_history and _require_idempotency_key_history: every version
\* a retained row was made with is configured here.
HistoryComplete(d) ==
    /\ \A r \in records :
         /\ InRing(d.idempotency, r.keyVersion)
         /\ InRing(d.confirmation, r.confirmationVersion)
    /\ \A n \in nonces : InRing(d.confirmation, n.version)

\* _find_idempotency_record: the key's HMAC under each configured version.
Found(d, actor, key) ==
    {r \in records : r.actor = actor /\ r.key = key /\ InRing(d.idempotency, r.keyVersion)}

\* The run a nonce is bound to, if it was consumed.
BoundTo(nonce) == {n.run : n \in {m \in nonces : m.nonce = nonce}}

\* _decode_confirmation and _require_confirmation_bindings, without expiry.
Confirms(d, nonce, actor, body) ==
    /\ InRing(d.confirmation, tokens[nonce].kid)
    /\ tokens[nonce].actor = actor
    /\ tokens[nonce].digest = DigestOf[body]
-----------------------------------------------------------------------------
(* Requests. *)

Preflight(d, actor, digest) ==
    /\ Len(tokens) < MaxTokens
    /\ tokens' = Append(tokens, [actor |-> actor, digest |-> digest,
                                 kid |-> d.confirmation[1], exp |-> now + TTL])
    /\ UNCHANGED <<now, runs, records, nonces, req>>

\* create_run up to its first lookup, which no lock protects.
Open(s, d, actor, key, body, nonce) ==
    /\ req[s].step = "none"
    /\ HistoryComplete(d)
    /\ Confirms(d, nonce, actor, body)
    /\ \E run \in IF Found(d, actor, key) = {} THEN {0}
                  ELSE {r.run : r \in Found(d, actor, key)} :
         req' = [req EXCEPT ![s] =
                   [step |-> IF run = 0 THEN "admit" ELSE "replay", actor |-> actor, key |-> key,
                    body |-> body, nonce |-> nonce, at |-> d, run |-> run]]
    /\ UNCHANGED <<now, tokens, runs, records, nonces>>

\* The second lookup finds the run of a concurrent creator: the savepoint is rolled back.
LosesRace(s) ==
    LET q == req[s] IN
    /\ q.step = "admit"
    /\ HistoryComplete(q.at)
    /\ \E r \in Found(q.at, q.actor, q.key) :
         req' = [req EXCEPT ![s].step = "replay", ![s].run = r.run]
    /\ UNCHANGED <<now, tokens, runs, records, nonces>>

\* Mutant: the history is not checked again under the lock.
Admissible_Stale(q) ==
    /\ Found(q.at, q.actor, q.key) = {}
    /\ now < tokens[q.nonce].exp
    /\ BoundTo(q.nonce) = {}

\* Under the workspace's lock: the key is still new, the token neither expired nor used.
Admissible(q) ==
    /\ HistoryComplete(q.at)
    /\ Found(q.at, q.actor, q.key) = {}
    /\ now < tokens[q.nonce].exp
    /\ BoundTo(q.nonce) = {}

\* The rest of create_run: the run, its nonce and its record in one transaction.
Create(s) ==
    LET q == req[s]
        id == Len(runs) + 1 IN
    /\ q.step = "admit"
    /\ Admissible(q)
    /\ Len(runs) < MaxRuns
    /\ runs' = Append(runs, [actor |-> q.actor, key |-> q.key, body |-> q.body,
                             nonce |-> q.nonce, status |-> "active", endedAt |-> 0])
    /\ nonces' = nonces \cup {[nonce |-> q.nonce, run |-> id, version |-> tokens[q.nonce].kid]}
    /\ records' = records \cup
         {[run |-> id, actor |-> q.actor, key |-> q.key, body |-> q.body,
           keyVersion |-> q.at.idempotency[1], confirmationVersion |-> tokens[q.nonce].kid]}
    /\ req' = [req EXCEPT ![s] = NoRequest]
    /\ UNCHANGED <<now, tokens>>

\* _replay_existing_run: the record still exists and was made for the same canonical
\* request; the nonce is fresh or bound to this run. An expired token will do.
Replayable(q) ==
    /\ \E r \in records : r.run = q.run /\ r.body = q.body
    /\ BoundTo(q.nonce) \subseteq {q.run}

Replay(s) ==
    LET q == req[s] IN
    /\ q.step = "replay"
    /\ Replayable(q)
    /\ nonces' = IF BoundTo(q.nonce) # {} THEN nonces
                 ELSE nonces \cup {[nonce |-> q.nonce, run |-> q.run,
                                    version |-> tokens[q.nonce].kid]}
    /\ req' = [req EXCEPT ![s] = NoRequest]
    /\ UNCHANGED <<now, tokens, runs, records>>

\* The call fails: one of the checks above, the argument scan, the schema validation or a
\* lost connection. Its transaction is rolled back.
Refuse(s) ==
    /\ req[s].step # "none"
    /\ req' = [req EXCEPT ![s] = NoRequest]
    /\ UNCHANGED <<now, tokens, runs, records, nonces>>
-----------------------------------------------------------------------------
(* The rest of the ledger, as far as it matters here. *)

EndRun(i) ==
    /\ runs[i].status = "active"
    /\ runs' = [runs EXCEPT ![i].status = "ended", ![i].endedAt = now]
    /\ UNCHANGED <<now, tokens, records, nonces, req>>

Expired(i) == runs[i].status = "ended" /\ runs[i].endedAt + Retention <= now

\* Mutant: the foreign keys do not cascade.
DeleteExpiredRunMetadata_Orphans(i) ==
    /\ Expired(i)
    /\ runs' = [runs EXCEPT ![i].status = "deleted"]
    /\ UNCHANGED <<now, tokens, records, nonces, req>>

\* delete_expired_run_metadata: the deletion cascades to the record and the nonces.
DeleteExpiredRunMetadata(i) ==
    /\ Expired(i)
    /\ runs' = [runs EXCEPT ![i].status = "deleted"]
    /\ records' = {r \in records : r.run # i}
    /\ nonces' = {n \in nonces : n.run # i}
    /\ UNCHANGED <<now, tokens, req>>

Tick ==
    /\ now < MaxClock
    /\ now' = now + 1
    /\ UNCHANGED <<tokens, runs, records, nonces, req>>

Next ==
    \/ \E d \in Deployments, a \in Actors, x \in Digests : Preflight(d, a, x)
    \/ \E s \in Sessions :
         \/ \E d \in Deployments, a \in Actors, k \in Keys, b \in Bodies, n \in DOMAIN tokens :
              Open(s, d, a, k, b, n)
         \/ LosesRace(s) \/ Create(s) \/ Replay(s) \/ Refuse(s)
    \/ \E i \in DOMAIN runs : EndRun(i) \/ DeleteExpiredRunMetadata(i)
    \/ Tick

Spec == Init /\ [][Next]_vars
-----------------------------------------------------------------------------
(* Properties. *)

Live(i) == runs[i].status # "deleted"

\* However requests with one key race, and whichever key ring each is served with, an
\* actor's idempotency key names at most one run that still exists.
OneRunPerKey ==
    \A i, j \in DOMAIN runs :
        Live(i) /\ Live(j) /\ runs[i].actor = runs[j].actor /\ runs[i].key = runs[j].key => i = j

\* A confirmation token creates at most one run, ever: its nonce is kept until it expired.
OneRunPerToken == \A i, j \in DOMAIN runs : runs[i].nonce = runs[j].nonce => i = j

\* A token that created a run or was spent on a replay of one is bound to it: as long as
\* that run exists, no other run that exists was created with the token.
TokensAreBound ==
    \A n \in nonces : \A i \in DOMAIN runs : Live(i) /\ runs[i].nonce = n.nonce => i = n.run
=============================================================================
