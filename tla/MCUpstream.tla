---------------------------- MODULE MCUpstream ----------------------------
(***************************************************************************)
(* What comes from servers this program does not trust, for TLC: the       *)
(* Registry cache and catalogue, the paging loops, the answer to a tool    *)
(* call, the search for forbidden bytes in it, and the issuer's keys.      *)
(* They share nothing, so a behaviour is about one, the subject, and       *)
(* variables of the others are None throughout.  A variable that two       *)
(* components have serves whichever of them is the subject.                *)
(***************************************************************************)
EXTENDS Naturals, Sequences, FiniteSets, TLC

CONSTANTS
    Requests, NoRequest, Queries, Digests, TTL, MaxRows, LastSearch,
    Cursors, NoCursor, Items, PageItems, MaxPages, MaxItems, MaxBytes,
    ResponseBytes,
    Bytes, MaxPattern, MaxStream, MaxChunk,
    Kids, NoKid, RefreshInterval, NegativeTtl, MaxNegativeKids, Lifespan, LastRefresh,
    None                          \* the value of what is not modelled

VARIABLES
    subject,
    now, pc, found, outcome, transport,
    rows, versions, current, lock, request, fetched, deleted, callbacks,
    upstream, pager, pages, cursor, seen_cursors, items, total_bytes,
    dispatched, received, budget, answer, half, pending, passed, sent, answered, tainted,
    patterns, states, stream,
    published, revoked_at, signing_keys, next_refresh_at, negative_kids, cached, resolved

catalogVars == <<rows, versions, current, lock, request, fetched, deleted, callbacks>>
pagingVars == <<upstream, pager, pages, cursor, seen_cursors, items, total_bytes>>
responseVars ==
    <<dispatched, received, budget, answer, half, pending, passed, sent, answered, tainted>>
matcherVars == <<patterns, states, stream>>
keyVars ==
    <<published, revoked_at, signing_keys, next_refresh_at, negative_kids, cached, resolved>>
sharedVars == <<now, pc, found, outcome, transport>>
vars == <<subject, sharedVars, catalogVars, pagingVars, responseVars, matcherVars, keyVars>>

Catalog == INSTANCE RegistryCatalog WITH MaxTime <- LastSearch

Paging == INSTANCE UpstreamPaging

Response == INSTANCE ToolResponse

Matcher == INSTANCE ByteMatcher

Keys == INSTANCE SigningKeys WITH MaxTime <- LastRefresh

\* Pages that are empty, hold one item, two, or one twice.
SomePages == {<<>>, <<"a">>, <<"b", "c">>, <<"a", "a">>}

ASSUME UpstreamAssumption ==
    /\ Catalog!CatalogAssumption
    /\ Paging!PagingAssumption
    /\ Response!BytesAssumption
    /\ Matcher!MatcherAssumption
    /\ Keys!KeysAssumption

\* Requests and queries differ in nothing but their names.
Symmetric == Permutations(Requests) \cup Permutations(Queries)
-----------------------------------------------------------------------------
NoCatalog ==
    /\ rows = None /\ versions = None /\ current = None /\ lock = None
    /\ request = None /\ fetched = None /\ deleted = None /\ callbacks = None
NoPaging ==
    /\ upstream = None /\ pager = None /\ pages = None /\ cursor = None
    /\ seen_cursors = None /\ items = None /\ total_bytes = None
NoResponse ==
    /\ dispatched = None /\ received = None /\ budget = None /\ answer = None /\ half = None
    /\ pending = None /\ passed = None /\ sent = None /\ answered = None /\ tainted = None
NoMatcher == patterns = None /\ states = None /\ stream = None
NoKeys ==
    /\ published = None /\ revoked_at = None /\ signing_keys = None /\ next_refresh_at = None
    /\ negative_kids = None /\ cached = None /\ resolved = None

Init ==
    \/ /\ subject = "catalog" /\ Catalog!Init /\ outcome = None /\ transport = None
       /\ NoPaging /\ NoResponse /\ NoMatcher /\ NoKeys
    \/ /\ subject = "paging" /\ Paging!Init /\ now = None /\ pc = None /\ found = None
       /\ NoCatalog /\ NoResponse /\ NoMatcher /\ NoKeys
    \/ /\ subject = "response" /\ Response!Init /\ now = None /\ found = None
       /\ NoCatalog /\ NoPaging /\ NoMatcher /\ NoKeys
    \/ /\ subject = "matcher" /\ Matcher!Init
       /\ now = None /\ pc = None /\ outcome = None /\ transport = None
       /\ NoCatalog /\ NoPaging /\ NoResponse /\ NoKeys
    \/ /\ subject = "keys" /\ Keys!Init
       /\ pc = None /\ found = None /\ outcome = None /\ transport = None
       /\ NoCatalog /\ NoPaging /\ NoResponse /\ NoMatcher

Next ==
    /\ UNCHANGED subject
    /\ \/ /\ subject = "catalog" /\ Catalog!Next
          /\ UNCHANGED <<outcome, transport, pagingVars, responseVars, matcherVars, keyVars>>
       \/ /\ subject = "paging" /\ Paging!Next
          /\ UNCHANGED <<now, pc, found, catalogVars, responseVars, matcherVars, keyVars>>
       \/ /\ subject = "response" /\ Response!Next
          /\ UNCHANGED <<now, found, catalogVars, pagingVars, matcherVars, keyVars>>
       \/ /\ subject = "matcher" /\ Matcher!Next
          /\ UNCHANGED <<now, pc, outcome, transport, catalogVars, pagingVars, responseVars, keyVars>>
       \/ /\ subject = "keys" /\ Keys!Next
          /\ UNCHANGED <<pc, found, outcome, transport, catalogVars, pagingVars, responseVars,
                         matcherVars>>

Spec == Init /\ [][Next]_vars
-----------------------------------------------------------------------------
\* However searches and imports interleave, expire, reject and roll back: one cached
\* answer for a query, no more of them than the limit, none that was rejected under the
\* lock, and an entry whose versions are numbered without gaps or repeated digests
\* (OfficialRegistryService).
CacheIsSound ==
    subject = "catalog" =>
        /\ Catalog!TypeOK /\ Catalog!OneRowPerQuery /\ Catalog!CacheIsBounded
        /\ Catalog!RejectedRowsAreGone /\ Catalog!VersionHistory

\* A cached answer leaves the cache only when it expired or was rejected, also when the
\* cleanup of a rolled back request runs late, and none is served or imported that expired
\* while it was screened (_purge_rejected_cache, _read_cache, import_cached).
FreshOrRejected ==
    [][subject = "catalog" => Catalog!LiveRowsAreKept /\ Catalog!AnswersAreFresh]_vars

\* A paging loop returns all of a finite listing within its limits, or fails
\* (_search_with_client, _discover).
WholeOrNothing == subject = "paging" => Paging!TypeOK /\ Paging!WholeOrNothing

\* How invoke ends agrees with what became of the call: a definite failure after the
\* dispatch only when the answer arrived whole, then always, and "not dispatched" only when
\* the request never left, whichever of timeout, refusal, overrun and answer comes first.
OutcomeIsTrue ==
    subject = "response" =>
        /\ Response!TypeOK /\ Response!DefiniteIsAnswered
        /\ Response!AnsweredIsDefinite /\ Response!UndispatchedIsUnsent

\* No result is returned from an answer that held a forbidden value, cut between parts or
\* not, although an event stream is passed on before it has ended (LimitedByteStream).
ResultIsClean == subject = "response" => Response!ResultIsClean

\* The matcher has reported a match exactly when one of its strings occurs in what it was
\* fed, and forgets nothing that could become one (_IncrementalByteMatcher).
FoundWhereverCut ==
    subject = "matcher" => Matcher!TypeOK /\ Matcher!FoundWhereverCut /\ Matcher!StatesAreLongest

\* Through failed refreshes, empty answers and the library's own cache a revoked key is
\* used for less than the refresh interval, and a key that is loaded is never masked by the
\* memory of its absence, which stays bounded (PyJwkSigningKeyResolver.resolve).
RevokedKeysStop ==
    [][subject = "keys" =>
          Keys!RevokedKeysStop /\ Keys!NegativeNeverMasks /\ Keys!TypeOK']_vars
=============================================================================
