-------------------------- MODULE RegistryCatalog --------------------------
(***************************************************************************)
(* The workspace's cache of official Registry searches and the catalogue   *)
(* entries imported from it: OfficialRegistryService in                    *)
(* registry/official.py.                                                   *)
(*                                                                         *)
(* A search reads the cache without a lock, screens what it found in a     *)
(* scanner process, fetches from upstream when it found nothing usable,    *)
(* and only then serializes on the workspace row to store the answer.  An  *)
(* import holds the workspace row throughout.  Between any two awaits the  *)
(* clock moves, the worker purges expired rows, and cleanups registered by *)
(* requests that rolled back delete rows in transactions of their own.     *)
(*                                                                         *)
(* One workspace is modelled (every statement is scoped to one) and one    *)
(* catalogue entry; a search answer is abstracted to the provenance digest *)
(* of that entry's item.  Every request is one transaction: `rows' is what *)
(* is committed, `deleted' what a request has removed so far in its own.   *)
(***************************************************************************)
EXTENDS Naturals, FiniteSets, TLC

CONSTANTS
    Requests,   \* the searches and imports; a stored row bears its search's name
    Queries,    \* normalized queries (query_digest)
    Digests,    \* provenance digests upstream may publish for the entry
    TTL,        \* limits.cache_ttl
    MaxTime,    \* bound of the modelled clock
    MaxRows,    \* limits.max_workspace_cache_rows
    NoRequest

CatalogAssumption ==
    /\ TTL \in Nat \ {0} /\ MaxTime \in Nat /\ MaxRows \in Nat \ {0}
    /\ NoRequest \notin Requests /\ IsFiniteSet(Requests)
    /\ Digests # {}

VARIABLES
    now,        \* the clock all hosts share
    rows,       \* committed RegistrySearchCache rows
    versions,   \* RegistryEntryVersion rows of the entry
    current,    \* RegistryEntry.current_version_id, as a sequence; 0: no entry
    lock,       \* the request that holds the workspace row
    pc,         \* where each request stands
    request,    \* what it asked for: a query, or an import of a cache row
    found,      \* the set holding the cache row it is screening, or empty
    fetched,    \* the digest upstream answered, and fetched_at
    deleted,    \* ids it deleted, not committed
    callbacks   \* ids its after-rollback callbacks will delete

vars == <<now, rows, versions, current, lock, pc, request, found, fetched, deleted, callbacks>>

Row == [id : Requests, query : Queries, digest : Digests, fetched_at : 0..MaxTime]
Version == [sequence : 1..Cardinality(Requests) + 1, digest : Digests]
Request == [search : Queries] \cup [import : Requests]

Searches(r) == "search" \in DOMAIN request[r]

\* expires_at is fetched_at + ttl, so the two expiry predicates coincide.
Fresh(row) == row.fetched_at + TTL > now

\* What r's transaction sees: the committed rows without the ones it deleted.
View(r) == {row \in rows : row.id \notin deleted[r]}

Running == {"begin", "unlocked", "relock", "locked", "fetch", "lock", "last", "store",
            "importing", "import"}
Over == {"hit", "stored", "imported", "failed", "uncleaned"}

\* The cache starts empty; the entry may have been imported before.
Init ==
    /\ now = 0 /\ rows = {} /\ lock = NoRequest
    /\ versions \in {{}} \cup {{[sequence |-> 1, digest |-> d]} : d \in Digests}
    /\ current = Cardinality(versions)
    /\ pc = [r \in Requests |-> "begin"]
    /\ request \in [Requests -> Request]
    /\ found = [r \in Requests |-> {}]
    /\ fetched = [r \in Requests |-> [digest |-> CHOOSE d \in Digests : TRUE, at |-> 0]]
    /\ deleted = [r \in Requests |-> {}]
    /\ callbacks = [r \in Requests |-> {}]
-----------------------------------------------------------------------------
(***************************************************************************)
(* The pieces the requests are made of.                                    *)
(***************************************************************************)

\* _read_cache's query: the live row for the query, latest first.
Cached(r, seen) ==
    LET live == {row \in seen : row.query = request[r].search /\ Fresh(row)}
    IN  {row \in live : \A other \in live : other.fetched_at <= row.fetched_at}

\* require_current_role(serialize_workspace=True): wait for the workspace row,
\* or keep it.
TakeLock(r) == lock \in {NoRequest, r} /\ lock' = r

\* The transaction ends and gives up the workspace row.
Unlock(r) == lock' = IF lock = r THEN NoRequest ELSE lock

\* Commit: the request's deletions, and the row it adds, become visible.
Commit(r, added) == rows' = View(r) \cup added

\* _purge_expired_workspace_cache deletes in the request's own transaction.
PurgeExpired(r) == deleted' = [deleted EXCEPT ![r] = @ \cup {row.id : row \in {x \in rows : ~Fresh(x)}}]

\* _purge_rejected_cache: delete the screened row, and see to it that it is
\* deleted even if this request rolls back.
PurgeRejected(r) ==
    LET ids == {row.id : row \in found[r]}
    IN  /\ deleted' = [deleted EXCEPT ![r] = @ \cup ids]
        /\ callbacks' = [callbacks EXCEPT ![r] = @ \cup ids]

Goto(r, label) == pc' = [pc EXCEPT ![r] = label]
-----------------------------------------------------------------------------
(***************************************************************************)
(* Search.                                                                 *)
(***************************************************************************)

\* search, _search_authorized up to the unlocked read.
ReadUnlocked(r) ==
    /\ pc[r] = "begin" /\ Searches(r)
    /\ \E hit \in SUBSET rows :
          /\ IF Cached(r, rows) = {} THEN hit = {} ELSE hit \subseteq Cached(r, rows) /\ Cardinality(hit) = 1
          /\ found' = [found EXCEPT ![r] = hit]
          /\ Goto(r, IF hit = {} THEN "fetch" ELSE "unlocked")
    /\ UNCHANGED <<now, rows, versions, current, lock, request, fetched, deleted, callbacks>>

\* Mutant: expiry is not looked at again after screening.
Accept_Unchecked(r) ==
    /\ pc[r] \in {"unlocked", "locked", "last"}
    /\ Goto(r, "hit") /\ Commit(r, {}) /\ Unlock(r)
    /\ UNCHANGED <<now, versions, current, request, found, fetched, deleted, callbacks>>

\* The scanner passed the row, its digest and counts agree, and it is still
\* fresh at validated_at: the search answers from the cache and commits.
Accept(r) ==
    /\ pc[r] \in {"unlocked", "locked", "last"}
    /\ \A row \in found[r] : Fresh(row)
    /\ Goto(r, "hit") /\ Commit(r, {}) /\ Unlock(r)
    /\ UNCHANGED <<now, versions, current, request, found, fetched, deleted, callbacks>>

\* The unlocked read was rejected: screening failed, refused it, or took past
\* its expiry.  The search serializes before it decides.
RejectUnlocked(r) ==
    /\ pc[r] = "unlocked"
    /\ Goto(r, "relock")
    /\ UNCHANGED <<now, rows, versions, current, lock, request, found, fetched, deleted, callbacks>>

\* Under the workspace row the cache is read again.
Reread(r) ==
    /\ pc[r] = "relock" /\ TakeLock(r)
    /\ found' = [found EXCEPT ![r] = Cached(r, rows)]
    /\ Goto(r, IF found'[r] = {} THEN "fetch" ELSE "locked")
    /\ UNCHANGED <<now, rows, versions, current, request, fetched, deleted, callbacks>>

\* Rejected under the lock: the row goes, and the search continues.
RejectLocked(r) ==
    /\ pc[r] \in {"locked", "last"}
    /\ PurgeRejected(r)
    /\ Goto(r, IF pc[r] = "locked" THEN "fetch" ELSE "store")
    /\ UNCHANGED <<now, rows, versions, current, lock, request, found, fetched>>

\* _search_screened: upstream answers.
Fetch(r) ==
    /\ pc[r] = "fetch"
    /\ \E d \in Digests : fetched' = [fetched EXCEPT ![r].digest = d]
    /\ Goto(r, "lock")
    /\ UNCHANGED <<now, rows, versions, current, lock, request, found, deleted, callbacks>>

\* Mutant: what another search stored meanwhile is not looked for.
ReadLast_Blind(r) ==
    /\ pc[r] = "lock" /\ TakeLock(r) /\ PurgeExpired(r)
    /\ found' = [found EXCEPT ![r] = {}]
    /\ fetched' = [fetched EXCEPT ![r].at = now]
    /\ Goto(r, "store")
    /\ UNCHANGED <<now, rows, versions, current, request, callbacks>>

\* Serialize (unless already serialized), read the clock for fetched_at, purge
\* what expired, read once more.
ReadLast(r) ==
    /\ pc[r] = "lock" /\ TakeLock(r) /\ PurgeExpired(r)
    /\ found' = [found EXCEPT ![r] = Cached(r, View(r))]
    /\ fetched' = [fetched EXCEPT ![r].at = now]
    /\ Goto(r, IF found'[r] = {} THEN "store" ELSE "last")
    /\ UNCHANGED <<now, rows, versions, current, request, callbacks>>

\* Mutant: one row more than the limit.
HasRoom_OffByOne(r) == Cardinality(View(r)) <= MaxRows

\* The workspace's cache is below max_workspace_cache_rows; the byte limit
\* beside it is the same test on another sum.
HasRoom(r) == Cardinality(View(r)) < MaxRows

\* Store the answer and commit.
Store(r) ==
    /\ pc[r] = "store" /\ HasRoom(r)
    /\ Commit(r, {[id |-> r, query |-> request[r].search, digest |-> fetched[r].digest,
                   fetched_at |-> fetched[r].at]})
    /\ Goto(r, "stored") /\ Unlock(r)
    /\ UNCHANGED <<now, versions, current, request, found, fetched, deleted, callbacks>>
-----------------------------------------------------------------------------
(***************************************************************************)
(* Import.                                                                 *)
(***************************************************************************)

\* import_cached up to the screening of the row it names.
BeginImport(r) ==
    /\ pc[r] = "begin" /\ ~Searches(r) /\ TakeLock(r) /\ PurgeExpired(r)
    /\ \E row \in rows :
          /\ row.id = request[r].import /\ Fresh(row)
          /\ found' = [found EXCEPT ![r] = {row}]
    /\ Goto(r, "importing")
    /\ UNCHANGED <<now, rows, versions, current, request, fetched, callbacks>>

\* Screening rejected the row: it is purged and the import raises.
RejectImport(r) ==
    /\ pc[r] = "importing"
    /\ callbacks' = [callbacks EXCEPT ![r] = @ \cup {row.id : row \in found[r]}]
    /\ deleted' = [deleted EXCEPT ![r] = {}]
    /\ Goto(r, "cleanup") /\ Unlock(r)
    /\ UNCHANGED <<now, rows, versions, current, request, found, fetched>>

\* The row passed, holds the named item (if not, the import fails) and is
\* still fresh.
AcceptImport(r) ==
    /\ pc[r] = "importing"
    /\ \A row \in found[r] : Fresh(row)
    /\ Goto(r, "import")
    /\ UNCHANGED <<now, rows, versions, current, lock, request, found, fetched, deleted, callbacks>>

\* Mutant: a digest imported before is imported again.
Existing_Never(d) == {}

Existing(d) == {v \in versions : v.digest = d}

\* The entry and its versions are looked up, freshness is required a last
\* time, and the import returns the version it has of this digest or appends
\* the next one and makes it current.  Every writer of these tables holds the
\* workspace row, so the lookups and the insert are one step.
Import(r) ==
    /\ pc[r] = "import"
    /\ \E row \in found[r] :
          /\ Fresh(row)
          /\ IF Existing(row.digest) # {}
             THEN UNCHANGED <<versions, current>>
             ELSE /\ current' = Cardinality(versions) + 1
                  /\ versions' = versions \cup {[sequence |-> current', digest |-> row.digest]}
    /\ Commit(r, {}) /\ Goto(r, "imported") /\ Unlock(r)
    /\ UNCHANGED <<now, request, found, fetched, deleted, callbacks>>
-----------------------------------------------------------------------------
(***************************************************************************)
(* Failures, cleanups, and the rest of the world.                          *)
(***************************************************************************)

\* Mutant: rolling back forgets what was registered.
Fail_Forgetful(r) ==
    /\ pc[r] \in Running
    /\ deleted' = [deleted EXCEPT ![r] = {}]
    /\ Goto(r, "failed") /\ Unlock(r)
    /\ UNCHANGED <<now, rows, versions, current, request, found, fetched, callbacks>>

\* Any error, the total timeout, or a refusal (no such row, no room): the
\* transaction rolls back, and what it registered runs afterwards.
Fail(r) ==
    /\ pc[r] \in Running
    /\ deleted' = [deleted EXCEPT ![r] = {}]
    /\ Goto(r, IF callbacks[r] = {} THEN "failed" ELSE "cleanup")
    /\ Unlock(r)
    /\ UNCHANGED <<now, rows, versions, current, request, found, fetched, callbacks>>

\* Mutant: the cleanup deletes by query instead of by id.
Cleaned_ByQuery(r) == {row \in rows : \E old \in found[r] : old.query = row.query}

Cleaned(r) == {row \in rows : row.id \in callbacks[r]}

\* _run_after_rollback_callbacks: a session of its own deletes the rejected
\* rows, waiting for a transaction that is deleting one of them.
Cleanup(r) ==
    /\ pc[r] = "cleanup"
    /\ \A other \in Requests : deleted[other] \cap callbacks[r] = {} \/ pc[other] \in Over
    /\ rows' = rows \ Cleaned(r)
    /\ Goto(r, "failed")
    /\ UNCHANGED <<now, versions, current, lock, request, found, fetched, deleted, callbacks>>

\* The cleanup timed out or raised: it is logged and given up.
CleanupFails(r) ==
    /\ pc[r] = "cleanup" /\ Goto(r, "uncleaned")
    /\ UNCHANGED <<now, rows, versions, current, lock, request, found, fetched, deleted, callbacks>>

\* purge_expired_registry_cache, one batch of the worker: the earliest expired
\* row that no open transaction is deleting.
WorkerPurge ==
    /\ \E row \in rows :
          /\ ~Fresh(row)
          /\ \A r \in Requests : row.id \notin deleted[r] \/ pc[r] \in Over
          /\ rows' = rows \ {row}
    /\ UNCHANGED <<now, versions, current, lock, pc, request, found, fetched, deleted, callbacks>>

Tick ==
    /\ now < MaxTime /\ now' = now + 1
    /\ UNCHANGED <<rows, versions, current, lock, pc, request, found, fetched, deleted, callbacks>>

Step(r) ==
    \/ ReadUnlocked(r) \/ Accept(r) \/ RejectUnlocked(r) \/ Reread(r) \/ RejectLocked(r)
    \/ Fetch(r) \/ ReadLast(r) \/ Store(r)
    \/ BeginImport(r) \/ RejectImport(r) \/ AcceptImport(r) \/ Import(r)
    \/ Fail(r) \/ Cleanup(r) \/ CleanupFails(r)

Next == Tick \/ WorkerPurge \/ \E r \in Requests : Step(r)

Spec == Init /\ [][Next]_vars
-----------------------------------------------------------------------------
TypeOK ==
    /\ now \in 0..MaxTime
    /\ rows \subseteq Row
    /\ versions \subseteq Version
    /\ current \in 0..Cardinality(Requests) + 1
    /\ lock \in Requests \cup {NoRequest}
    /\ pc \in [Requests -> Running \cup Over \cup {"cleanup"}]
    /\ request \in [Requests -> Request]
    /\ \A r \in Requests : found[r] \subseteq Row /\ Cardinality(found[r]) <= 1
    /\ fetched \in [Requests -> [digest : Digests, at : 0..MaxTime]]
    /\ deleted \in [Requests -> SUBSET Requests]
    /\ callbacks \in [Requests -> SUBSET Requests]

\* However searches for one query interleave, expire and reject, the
\* workspace holds at most one cached answer for it: the read repeated under
\* the workspace row in _search_authorized finds what another search stored.
OneRowPerQuery == \A a, b \in rows : a.query = b.query => a = b

\* The workspace never holds more cached answers than
\* max_workspace_cache_rows, although the count is taken before the insert.
CacheIsBounded == Cardinality(rows) <= MaxRows

\* A row that screening rejected under the lock is gone once the request that
\* rejected it is over, whether that request committed or rolled back
\* (_purge_rejected_cache and register_after_rollback), unless the cleanup
\* itself failed.
RejectedRowsAreGone ==
    \A r \in Requests : pc[r] \in Over \ {"uncleaned"} =>
        \A row \in rows : row.id \notin callbacks[r]

\* A live row leaves the cache only because some request rejected it: the
\* cleanup a rolled back request runs later never deletes the fresh answer
\* another search stored for the same query meanwhile.
LiveRowsAreKept ==
    \A row \in rows \ rows' :
        ~Fresh(row) \/ \E r \in Requests : row.id \in callbacks[r]

\* No answer is served, and no version imported, from a cache row that
\* expired while the scanner process was looking at it.
AnswersAreFresh ==
    \A r \in Requests :
        pc'[r] # pc[r] /\ pc'[r] \in {"hit", "imported"} => \A row \in found[r] : Fresh(row)

\* The entry's versions are numbered without gaps, no digest appears twice,
\* and the current version is the latest: import_cached under the workspace
\* row.
VersionHistory ==
    /\ {v.sequence : v \in versions} = 1..Cardinality(versions)
    /\ \A v, w \in versions : v.digest = w.digest => v = w
    /\ current = Cardinality(versions)
=============================================================================
