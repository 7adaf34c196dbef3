---------------------------- MODULE MCGateRuntime ----------------------------
(* Instances of GateRuntime for TLC. *)
EXTENDS GateRuntime, TLC

CONSTANTS c1, c2, c3, k1, k2, u1, u2

\* Ids, units and keys are only compared for equality.
Symmetry == Permutations(CoaId) \union Permutations(Unit) \union Permutations(Key)
=============================================================================
