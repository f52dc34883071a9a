---------------------------- MODULE RunLifecycle ----------------------------
(***************************************************************************)
(* What the ledger promises about a run, without jobs, leases, attempts or *)
(* clocks: it is admitted within the active-run limit, waits, is           *)
(* dispatched at most once, is settled once with an outcome that agrees    *)
(* with whether it was dispatched, and is finally deleted.                 *)
(***************************************************************************)
EXTENDS Naturals, FiniteSets

CONSTANTS Runs, MaxActiveRuns

VARIABLE phase

UndispatchedEnds == {"cancelled", "timed_out", "failed_before_dispatch"}

DispatchedEnds == {"succeeded", "failed_after_dispatch", "indeterminate"}

Settled == UndispatchedEnds \cup DispatchedEnds

Phases == {"absent", "waiting", "dispatched", "deleted"} \cup Settled

InProgress == {r \in Runs : phase[r] \in {"waiting", "dispatched"}}

Admit(r) ==
    /\ phase[r] = "absent"
    /\ Cardinality(InProgress) < MaxActiveRuns
    /\ phase' = [phase EXCEPT ![r] = "waiting"]

Dispatch(r) ==
    /\ phase[r] = "waiting"
    /\ phase' = [phase EXCEPT ![r] = "dispatched"]

\* One transaction may settle several runs.
Settle ==
    /\ phase' \in [Runs -> Phases]
    /\ \A r \in Runs :
         \/ phase'[r] = phase[r]
         \/ phase[r] = "waiting" /\ phase'[r] \in UndispatchedEnds
         \/ phase[r] = "dispatched" /\ phase'[r] \in DispatchedEnds

Delete ==
    /\ phase' \in [Runs -> Phases]
    /\ \A r \in Runs :
         \/ phase'[r] = phase[r]
         \/ phase[r] \in Settled /\ phase'[r] = "deleted"

Init == phase = [r \in Runs |-> "absent"]

Next ==
    \/ \E r \in Runs : Admit(r) \/ Dispatch(r)
    \/ Settle
    \/ Delete

Spec == Init /\ [][Next]_phase
=============================================================================
