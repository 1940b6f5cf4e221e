------------------------------- MODULE MCHooks -------------------------------
(***************************************************************************)
(* Hooks for TLC: two sessions, a message and a closer, and files that     *)
(* set nothing, switch the plugin off, are partly malformed or overflow.   *)
(***************************************************************************)
EXTENDS Hooks, TLC

CONSTANTS s1, s2

AllOn == [k \in Switches |-> "on"]

MCDefault == [switch |-> AllOn, overflow |-> FALSE]

MCEntries ==
    {MCDefault,
     [switch |-> [AllOn EXCEPT !["enabled"] = "off", !["drive_enabled"] = "malformed"],
      overflow |-> FALSE],
     [switch |-> [AllOn EXCEPT !["enabled"] = "off"], overflow |-> TRUE]}

Symmetry == Permutations({s1, s2})
=============================================================================
