------------------------- MODULE MCInvocationWorker -------------------------
(* Small instances of InvocationWorker for TLC. *)
EXTENDS InvocationWorker, TLC

\* Runs and workers differ in nothing but their names.
Symmetric == Permutations(Runs) \cup Permutations(Workers)

\* The target of the runs stays as it is: leaves room for crashes and restores.
StableWorkerSpec == WorkerInit /\ [][WorkerNext /\ UNCHANGED targetVars]_allVars

FairStableWorkerSpec == StableWorkerSpec /\ WorkerFairness
=============================================================================
