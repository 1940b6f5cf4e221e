---------------------------- MODULE MCReflection ----------------------------
(***************************************************************************)
(* Three passes of two sessions and one appraisal, over a turn log whose   *)
(* cap, span limit and debounce are all reached within MaxTurns turns.     *)
(***************************************************************************)
EXTENDS Reflection, TLC

CONSTANTS p1, p2, p3, a1, s1, s2

MCPasses == {p1, p2, p3}
MCRequests == MCPasses \cup {a1}
MCSessions == {s1, s2}
MCRawDeltas == {-3, 0, 3}

\* The concurrent run is about turns and watermarks: one session, no deltas.
MCOneSession == {s1}
MCNoDeltas == {0}

PassSymmetry == Permutations(MCPasses)
=============================================================================
