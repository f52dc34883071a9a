---------------------------- MODULE MCRequests ----------------------------
(***************************************************************************)
(* The requests whose transactions meet in the database, for TLC: run      *)
(* admission, replay records, memberships, first logins and listings.      *)
(* They touch different tables, so nothing is learnt from interleaving     *)
(* them: a behaviour is about one, the subject, and variables of the       *)
(* others are None throughout.  A variable that two components have serves *)
(* whichever of them is the subject.                                       *)
(***************************************************************************)
EXTENDS Naturals, Sequences, FiniteSets, TLC

CONSTANTS
    Sessions, NoSession,          \* database sessions
    Actors, RunKeys, RunBodies, DigestOf, Deployments, TTL, Retention,
    LastInstant, MaxTokens, MaxRuns,   \* admission
    Users, Owner,
    Logins, Principals, NoUser,
    Processes, Rollout, RingOf, SkewOf, Worker, ApiKeys, ApiBodies, Lifetime, Promise,
    MaxOverlap, BatchSize, MaxClock, MaxMutations, \* replay records
    Ids, Timestamps, Limits,      \* rows of a listing
    None                          \* the value of what is not modelled

VARIABLES
    subject,
    now, records,
    tokens, runs, nonces, req,
    stage, overlap, mutations, reply,
    members, holder, txn,
    principal, users, inserted, snapshot, user, pc,
    order, time, rows, cursor, returned, present, ended

clockVars == <<now, records>>
admissionVars == <<tokens, runs, nonces, req>>
replayVars == <<stage, overlap, mutations, reply>>
memberVars == <<members, holder, txn>>
loginVars == <<principal, users, inserted, snapshot, user, pc>>
listingVars == <<order, time, rows, cursor, returned, present, ended>>
vars == <<subject, clockVars, admissionVars, replayVars, memberVars, loginVars, listingVars>>

\* Processes from before and after a key rotation serve requests together.
Rings ==
    {[confirmation |-> <<"v1">>, idempotency |-> <<"v1">>],
     [confirmation |-> <<"v2", "v1">>, idempotency |-> <<"v2", "v1">>]}

OneDigest == [b \in RunBodies |-> 1]

Admission ==
    INSTANCE Admission WITH Keys <- RunKeys, Bodies <- RunBodies, MaxClock <- LastInstant

\* A rotation from v1 to v2: each stage hands over to the next while both serve. The
\* clocks of the second process and of the worker run ahead by one.
Rotation ==
    <<{"before"}, {"before", "during"}, {"during"}, {"during", "after"}, {"after"}>>
RotatedRings == [before |-> <<"v1">>, during |-> <<"v2", "v1">>, after |-> <<"v2">>]
Skews == [before |-> 0, during |-> 1, after |-> 0, worker |-> 1]

Replays == INSTANCE ApiIdempotency WITH Keys <- ApiKeys, Bodies <- ApiBodies

Membership == INSTANCE Membership

FirstLogin == INSTANCE FirstLogin

Listing == INSTANCE PagedListing WITH Times <- Timestamps

ASSUME RequestsAssumption ==
    /\ Admission!DeploymentsAssumption /\ Admission!TimesAssumption
    /\ Admission!BoundsAssumption
    /\ Replays!RolloutAssumption /\ Replays!RingsAssumption /\ Replays!SkewAssumption
    /\ Replays!ForwardAssumption
    /\ Membership!OwnerAssumption /\ Membership!SessionsAssumption
    /\ FirstLogin!LoginAssumption
    /\ Listing!ListingAssumption

\* Sessions and requests differ in nothing but their names.
Symmetric == Permutations(Sessions) \cup Permutations(Logins) \cup Permutations(Principals)
-----------------------------------------------------------------------------
NoClock == now = None /\ records = None
NoAdmission == tokens = None /\ runs = None /\ nonces = None /\ req = None
NoReplays == stage = None /\ overlap = None /\ mutations = None /\ reply = None
NoMembers == members = None /\ holder = None /\ txn = None
NoLogins ==
    /\ principal = None /\ users = None /\ inserted = None
    /\ snapshot = None /\ user = None /\ pc = None
NoListing ==
    /\ order = None /\ time = None /\ rows = None /\ cursor = None
    /\ returned = None /\ present = None /\ ended = None

Init ==
    \/ /\ subject = "admission" /\ Admission!Init
       /\ NoReplays /\ NoMembers /\ NoLogins /\ NoListing
    \/ /\ subject = "replays" /\ Replays!Init
       /\ NoAdmission /\ NoMembers /\ NoLogins /\ NoListing
    \/ /\ subject = "membership" /\ Membership!Init
       /\ NoClock /\ NoAdmission /\ NoReplays /\ NoLogins /\ NoListing
    \/ /\ subject = "login" /\ FirstLogin!Init
       /\ NoClock /\ NoAdmission /\ NoReplays /\ NoMembers /\ NoListing
    \/ /\ subject = "listing" /\ Listing!Init
       /\ NoClock /\ NoAdmission /\ NoReplays /\ NoMembers /\ NoLogins

Next ==
    /\ UNCHANGED subject
    /\ \/ /\ subject = "admission" /\ Admission!Next
          /\ UNCHANGED <<replayVars, memberVars, loginVars, listingVars>>
       \/ /\ subject = "replays" /\ Replays!Next
          /\ UNCHANGED <<admissionVars, memberVars, loginVars, listingVars>>
       \/ /\ subject = "membership" /\ Membership!Next
          /\ UNCHANGED <<clockVars, admissionVars, replayVars, loginVars, listingVars>>
       \/ /\ subject = "login" /\ FirstLogin!Next
          /\ UNCHANGED <<clockVars, admissionVars, replayVars, memberVars, listingVars>>
       \/ /\ subject = "listing" /\ Listing!Next
          /\ UNCHANGED <<clockVars, admissionVars, replayVars, memberVars, loginVars>>

Spec == Init /\ [][Next]_vars
-----------------------------------------------------------------------------
\* However requests with one key or one token race, whichever key ring each is served
\* with and whatever is deleted meanwhile, an actor's idempotency key names at most one
\* run that exists, a confirmation token creates at most one run ever, and a token spent on
\* a replay of a run creates no other beside it (create_run, _replay_existing_run,
\* delete_expired_run_metadata).
OneRunPerKey ==
    subject = "admission" =>
        /\ Admission!TypeOK
        /\ Admission!OneRunPerKey
        /\ Admission!OneRunPerToken
        /\ Admission!TokensAreBound

\* For as long as a retry is promised its replay no process executes the mutation of a
\* key again, during a rotation of keys, with clocks that differ and with the purge
\* running; and every answer is that of the request's own mutation (idempotent_mutation).
NotRepeated ==
    subject = "replays" => Replays!TypeOK /\ Replays!NotRepeated /\ Replays!AnswersMatch

\* The workspace keeps an admin, whoever demotes whom at the same time, and what is about
\* to commit is still authorized (set_membership_role, require_current_role).
AdminRemains ==
    subject = "membership" =>
        Membership!TypeOK /\ Membership!AdminRemains /\ Membership!CommitsAreAuthorized

\* First requests of one principal act as one user, whose row is committed, and none is
\* refused because another was faster (resolve_user).
OneIdentity ==
    subject = "login" =>
        FirstLogin!TypeOK /\ FirstLogin!OneIdentity /\ FirstLogin!LosersFindTheWinner

\* A finished walk through a listing has returned every row that matched all along, in
\* the listing's order and none twice, whatever came and went between its pages.
NothingSkipped ==
    subject = "listing" =>
        Listing!TypeOK /\ Listing!ReturnedOnce /\ Listing!NothingSkipped
=============================================================================
