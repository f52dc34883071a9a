----------------------------- MODULE SigningKeys -----------------------------
(***************************************************************************)
(* PyJwkSigningKeyResolver of identity/auth.py: the issuer's signing keys  *)
(* as the API holds them, while the issuer rotates and revokes keys and    *)
(* its endpoint fails.  resolve runs under the resolver's lock, fetch      *)
(* included, so it is one step.                                            *)
(*                                                                         *)
(* PyJWKClient is external: a call without refresh=True may be answered    *)
(* from the response it cached, for `lifespan'; a request that fails       *)
(* clears that cache; a response without a usable key is cached and then   *)
(* raises.                                                                 *)
(***************************************************************************)
EXTENDS Naturals, FiniteSets, Sequences, SequencesExt

CONSTANTS
    Kids, NoKid,      \* key identifiers; a token may name none
    RefreshInterval,  \* refresh_interval_seconds
    NegativeTtl,      \* negative_ttl_seconds
    MaxNegativeKids,  \* max_negative_kids
    Lifespan,         \* PyJWKClient's lifespan
    MaxTime           \* bound of the modelled clock

KeysAssumption ==
    /\ {RefreshInterval, NegativeTtl, MaxNegativeKids, Lifespan} \subseteq Nat \ {0}
    /\ MaxTime \in Nat
    /\ Kids \cap {NoKid, "none", "unavailable", "refused"} = {}

VARIABLES
    now,
    published,      \* the keys the issuer publishes now
    revoked_at,     \* when each key was last published, 0 if never
    signing_keys,   \* _signing_keys: a set holding the loaded key set, or empty
    next_refresh_at,
    negative_kids,  \* _negative_kids, oldest first
    cached,         \* PyJWKClient's cache: the responses it holds, at most one
    resolved        \* how the last call ended

vars == <<now, published, revoked_at, signing_keys, next_refresh_at, negative_kids, cached, resolved>>

Negative == [kid : Kids, until : 0..MaxTime + NegativeTtl]

Init ==
    /\ now = 0 /\ published \in SUBSET Kids
    /\ revoked_at = [k \in Kids |-> 0]
    /\ signing_keys = {} /\ next_refresh_at = 0 /\ negative_kids = <<>>
    /\ cached = {} /\ resolved = "none"
-----------------------------------------------------------------------------
(***************************************************************************)
(* PyJWKClient.get_signing_keys.  Each way it can go is a record: the keys *)
(* returned (a set holding them; empty if it raised) and its cache after.  *)
(***************************************************************************)

\* A request to the issuer: answered, or failed.
Fetches ==
    {[keys |-> IF published = {} THEN {} ELSE {published}, cached |-> {[keys |-> published, at |-> now]}],
     [keys |-> {}, cached |-> {}]}

\* Without refresh=True the cached response serves while it lasts.
GetSigningKeys(refresh) ==
    LET live == {c \in cached : ~refresh /\ now < c.at + Lifespan}
    IN  IF live = {} THEN Fetches
        ELSE {[keys |-> IF c.keys = {} THEN {} ELSE {c.keys}, cached |-> cached] : c \in live}
-----------------------------------------------------------------------------
\* Mutant: a failed refresh goes on with the keys loaded before.
Reload_Lenient ==
    /\ next_refresh_at' = now + RefreshInterval
    /\ \E got \in GetSigningKeys(signing_keys # {}) :
          /\ signing_keys' = IF got.keys = {} THEN signing_keys ELSE got.keys
          /\ cached' = got.cached

\* The keys are loaded or refreshed; the next attempt is set first and the
\* old set dropped first, so that a failure leaves no keys.
Reload ==
    /\ next_refresh_at' = now + RefreshInterval
    /\ \E got \in GetSigningKeys(signing_keys # {}) :
          signing_keys' = got.keys /\ cached' = got.cached

\* Where kid is remembered as unknown.
PlacesOf(kid) == {i \in DOMAIN negative_kids : negative_kids[i].kid = kid}

\* _negative_kids.pop(kid, None)
Without(kid) ==
    IF PlacesOf(kid) = {} THEN negative_kids
    ELSE RemoveAt(negative_kids, CHOOSE i \in PlacesOf(kid) : TRUE)

\* A kid without a loaded key is remembered, the oldest forgotten.
Remember(kid) ==
    LET all == Append(Without(kid), [kid |-> kid, until |-> now + NegativeTtl])
    IN  IF Len(all) > MaxNegativeKids THEN Tail(all) ELSE all

StillNegative(kid) == \E i \in 1..Len(negative_kids) :
    negative_kids[i].kid = kid /\ negative_kids[i].until > now

\* Mutant: the remembered kids are looked at before the keys.
Lookup_NegativeFirst(kid, keys) ==
    IF keys # {} /\ kid \in UNION keys /\ ~StillNegative(kid)
    THEN resolved' = kid /\ UNCHANGED negative_kids
    ELSE /\ resolved' = "refused"
         /\ negative_kids' = IF kid = NoKid \/ StillNegative(kid) THEN negative_kids ELSE Remember(kid)

\* The lookup, given the keys that are loaded.
Lookup(kid, keys) ==
    IF keys = {} THEN UNCHANGED negative_kids /\ resolved' = "unavailable"
    ELSE IF kid = NoKid
    THEN /\ UNCHANGED negative_kids
         /\ resolved' = IF Cardinality(UNION keys) = 1 THEN CHOOSE k \in UNION keys : TRUE ELSE "refused"
    ELSE IF kid \in UNION keys
    THEN /\ resolved' = kid
         /\ negative_kids' = Without(kid)
    ELSE /\ resolved' = "refused"
         /\ negative_kids' = IF StillNegative(kid) THEN negative_kids ELSE Remember(kid)

\* resolve for a token that names a kid, or none.
Resolve(kid) ==
    /\ IF now >= next_refresh_at THEN Reload
       ELSE UNCHANGED <<signing_keys, next_refresh_at, cached>>
    /\ Lookup(kid, signing_keys')
    /\ UNCHANGED <<now, published, revoked_at>>

\* The issuer changes what it publishes.
Rotate ==
    /\ \E keys \in SUBSET Kids :
          /\ keys # published
          /\ published' = keys
          /\ revoked_at' = [k \in Kids |-> IF k \in published \ keys THEN now ELSE revoked_at[k]]
    /\ resolved' = "none"
    /\ UNCHANGED <<now, signing_keys, next_refresh_at, negative_kids, cached>>

Tick ==
    /\ now < MaxTime /\ now' = now + 1 /\ resolved' = "none"
    /\ UNCHANGED <<published, revoked_at, signing_keys, next_refresh_at, negative_kids, cached>>

Next == Tick \/ Rotate \/ \E kid \in Kids \cup {NoKid} : Resolve(kid)

Spec == Init /\ [][Next]_vars
-----------------------------------------------------------------------------
TypeOK ==
    /\ now \in 0..MaxTime /\ published \subseteq Kids
    /\ revoked_at \in [Kids -> 0..MaxTime]
    /\ signing_keys \subseteq SUBSET Kids /\ Cardinality(signing_keys) <= 1
    /\ next_refresh_at \in 0..MaxTime + RefreshInterval
    /\ negative_kids \in Seq(Negative) /\ Len(negative_kids) <= MaxNegativeKids
    /\ \A i, j \in DOMAIN negative_kids : negative_kids[i].kid = negative_kids[j].kid => i = j
    /\ Cardinality(cached) <= 1
    /\ resolved \in Kids \cup {"none", "unavailable", "refused"}

\* A token is resolved with a key only if the issuer publishes that key now,
\* or did less than refresh_interval_seconds ago: through failed refreshes,
\* empty responses and the client library's own, longer-lived cache, a
\* revoked key is never used beyond that ("Fail closed if refresh fails").
RevokedKeysStop ==
    \A k \in Kids : resolved' = k => k \in published \/ now < revoked_at[k] + RefreshInterval

\* A key that is loaded resolves, although its kid was refused before it was
\* published and is still remembered as unknown.
NegativeNeverMasks ==
    \A k \in Kids : Resolve(k) /\ k \in UNION signing_keys' => resolved' = k
=============================================================================
