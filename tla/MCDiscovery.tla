---------------------------- MODULE MCDiscovery ----------------------------
(* Small instances of Discovery for TLC. *)
EXTENDS Discovery, TLC

\* Contents are alike but for being supported.
Symmetric == Permutations(Supported)
=============================================================================
