----------------------------- MODULE MCStorage -----------------------------
(***************************************************************************)
(* Small instances of Storage for TLC: the keys are used in any order, and *)
(* the paths and the processes are interchangeable.                        *)
(***************************************************************************)
EXTENDS Storage, TLC

CONSTANTS p1, p2, x1, x2, d1, d2, k1, k2, k3

MCProcs == {p1, p2}
MCOneProc == {p1}
MCPaths == {x1, x2}
MCKeys == {k1, k2, k3}
MCTwoKeys == {k1, k2}
MCData == {d1, d2}
MCOneData == {d1}

Symmetry == Permutations(MCPaths) \cup Permutations(MCKeys) \cup Permutations(MCData)
OverlapSymmetry ==
  Permutations(MCProcs) \cup Permutations(MCPaths) \cup Permutations(MCKeys)

=============================================================================
