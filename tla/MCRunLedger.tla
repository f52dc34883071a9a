---------------------------- MODULE MCRunLedger ----------------------------
(* Small instances of RunLedger for TLC. *)
EXTENDS RunLedger, TLC

Symmetric == Permutations(Runs) \cup Permutations(Workers)

\* The target changes until the runs are settled: afterwards nothing reads it.
AllSettled == \A r \in Runs : Terminal(ledger[r]) \/ ledger[r].status = "deleted"

ReadTargetSpec == Init /\ [][Next /\ (AllSettled => UNCHANGED targetVars)]_vars

\* The target of the runs stays as it is: leaves room for more runs.
StableTargetSpec == Init /\ [][Next /\ UNCHANGED targetVars]_vars

FairStableSpec == StableTargetSpec /\ Fairness
=============================================================================
