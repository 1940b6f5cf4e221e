-------------------------- MODULE MCStoreLifecycle --------------------------
(***************************************************************************)
(* One process with every fault, and two that share the path and its lock. *)
(***************************************************************************)
EXTENDS StoreLifecycle, TLC

CONSTANTS p1, p2

MCOneProcess == {p1}
MCTwoProcesses == {p1, p2}
MCAnyKind == {"absent", "empty", "v5", "v4", "partial", "broken"}
MCVersion4 == {"v4"}
MCVersion5 == {"v5"}

Symmetry == Permutations(MCTwoProcesses)
=============================================================================
