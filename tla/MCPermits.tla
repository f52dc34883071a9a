----------------------------- MODULE MCPermits -----------------------------
(***************************************************************************)
(* The bounded resources of an API process for TLC: scanner processes,     *)
(* validation processes and request slots.  They share nothing, so nothing *)
(* is learnt from interleaving them: a behaviour is about one, the         *)
(* subject, and variables of the others are None throughout.  A variable   *)
(* that two components have serves whichever of them is the subject.       *)
(***************************************************************************)
EXTENDS Naturals, Sequences, FiniteSets

CONSTANTS
    Scans, Abandonable,               \* scans in loops that wait for them, and that do not
    Loops, LoopOf,
    ScannerLimit, AbandonableLimit,   \* permits for each
    Calls, ValidationLimit,           \* validations
    Requests, Addresses, Proxies, Forwarded, Garbled, NoHeader,
    RateLimit, MaxPeers, MaxSlots, MaxMinute,
    None                              \* the value of what is not modelled

VARIABLES
    subject,
    pc, cancelled,
    available, waiters, granted, future, scheduled, alive, outlived, closed, refused,
    permits, acquired, child, sent, result,
    minute, windows, slots, inFlight, allowed, since, crowded

scannerVars ==
    <<available, waiters, granted, future, scheduled, alive, outlived, closed, refused>>
validationVars == <<permits, acquired, child, sent, result>>
slotVars == <<minute, windows, slots, inFlight, allowed, since, crowded>>
vars == <<subject, pc, cancelled, scannerVars, validationVars, slotVars>>

\* Even scans run in one loop, odd ones in the other.
OddAndEven == [s \in Scans \cup Abandonable |-> IF s % 2 = 0 THEN 1 ELSE 2]

ScansOf(abandon) == IF abandon THEN Abandonable ELSE Scans

LimitOf(abandon) == IF abandon THEN AbandonableLimit ELSE ScannerLimit

\* The scanner processes, where loops close under their scans or do not.
Pool(abandon) ==
    INSTANCE ScannerPermits
        WITH Scans <- ScansOf(abandon), Limit <- LimitOf(abandon), Abandon <- abandon

Validation == INSTANCE ValidationPermits WITH Limit <- ValidationLimit

Slots == INSTANCE ApiAdmission WITH Limit <- RateLimit, Slots <- MaxSlots

ASSUME PermitsAssumption ==
    /\ \A abandon \in BOOLEAN :
         Pool(abandon)!ScansAssumption /\ Pool(abandon)!LimitAssumption
    /\ Validation!LimitAssumption
    /\ Slots!LimitsAssumption
-----------------------------------------------------------------------------
NoScanner ==
    /\ available = None /\ waiters = None /\ granted = None /\ future = None
    /\ scheduled = None /\ alive = None /\ outlived = None /\ closed = None /\ refused = None

NoValidation ==
    permits = None /\ acquired = None /\ child = None /\ sent = None /\ result = None

NoSlots ==
    /\ minute = None /\ windows = None /\ slots = None /\ inFlight = None
    /\ allowed = None /\ since = None /\ crowded = None

Init ==
    \/ subject = "scanner" /\ Pool(FALSE)!Init /\ NoValidation /\ NoSlots
    \/ subject = "abandoned" /\ Pool(TRUE)!Init /\ NoValidation /\ NoSlots
    \/ subject = "validation" /\ Validation!Init /\ NoScanner /\ NoSlots
    \/ subject = "slots" /\ Slots!Init /\ NoScanner /\ NoValidation /\ cancelled = None

OnlyScanner == subject = "scanner" /\ UNCHANGED <<subject, validationVars, slotVars>>
OnlyAbandoned == subject = "abandoned" /\ UNCHANGED <<subject, validationVars, slotVars>>
OnlyValidation == subject = "validation" /\ UNCHANGED <<subject, scannerVars, slotVars>>
OnlySlots == subject = "slots" /\ UNCHANGED <<subject, scannerVars, validationVars, cancelled>>

Next ==
    \/ OnlyScanner /\ Pool(FALSE)!Next
    \/ OnlyAbandoned /\ Pool(TRUE)!Next
    \/ OnlyValidation /\ Validation!Next
    \/ OnlySlots /\ Slots!Next

Spec == Init /\ [][Next]_vars

\* What each component's loops, timers and handlers are sure to do.
FairSpec ==
    /\ Spec
    /\ \A s \in Scans : WF_vars(OnlyScanner /\ Pool(FALSE)!Progress(s))
    /\ \A c \in Calls : WF_vars(OnlyValidation /\ Validation!Progress(c))
    /\ \A r \in Requests : WF_vars(OnlySlots /\ Slots!Progress(r))
-----------------------------------------------------------------------------
\* No permit is lost, made or given to two calls, however answers, timeouts,
\* cancellations, grants and dying children cross: every permit is available or owned by
\* the one call that will give it back, none is idle beside a waiter, and no process runs
\* without one unless it survived SIGTERM and SIGKILL for as long as its cleanup waits: its
\* permit goes back while it runs. When event loops close under their scans the scanner may
\* hand out a permit twice (its destroyed waiters return what was passed on), but loses none.
PermitsConserved ==
    /\ subject = "scanner" =>
         /\ Pool(FALSE)!TypeOK /\ Pool(FALSE)!PermitsConserved
         /\ Pool(FALSE)!NoIdlePermit /\ Pool(FALSE)!ProcessesArePermitted
    /\ subject = "abandoned" => Pool(TRUE)!NoPermitLost /\ Pool(TRUE)!NoIdlePermit
    /\ subject = "validation" =>
         /\ Validation!TypeOK /\ Validation!PermitsBalanced
         /\ Validation!ChildrenArePermitted /\ Validation!FailsClosed
    /\ subject = "slots" => Slots!TypeOK /\ Slots!SlotsBalanced

\* A peer gets more than its limit through in a minute only after MaxPeers other peers
\* crowded it out of the limiter's memory (FixedWindowRateLimiter.allow).
PeersAreLimited == subject = "slots" => Slots!PeersAreLimited

\* Nothing waits for ever: a scan that waits gets its turn, a validation ends although
\* nothing orders the calls that poll for a permit, and a queued request is answered.
CallsEnd ==
    /\ \A s \in Scans :
         (subject = "scanner" /\ pc[s] = "waiting") ~> (subject = "scanner" /\ pc[s] # "waiting")
    /\ \A c \in Calls : subject = "validation" ~> (subject = "validation" /\ pc[c] = "ended")
    /\ \A r \in Requests :
         (subject = "slots" /\ pc[r] = "queued")
            ~> (subject = "slots" /\ pc[r] \in {"answered", "gone"})
=============================================================================
