--------------------------- MODULE Consolidation ---------------------------
(***************************************************************************)
(* What reflection promises of the turn log and the affect it keeps        *)
(* (anansi/reflection.py apply_reflection, "the idempotence core"): one    *)
(* step moves the watermark forward, consolidates every turn it passes,    *)
(* none of them a second time, and adjusts the scalar by one bounded       *)
(* delta.  Turns are captured in order and only the oldest are evicted.    *)
(* Reflection.tla implements this specification when passes come one at a  *)
(* time and the store can be read.                                         *)
(***************************************************************************)
EXTENDS Integers

CONSTANTS MaxTurns,   \* bound: turns captured in a behaviour
          MaxDelta,   \* the largest adjustment of one pass
          Bound       \* the scalar's range is -Bound..Bound

VARIABLES log,        \* the captured turns still kept
          mark,       \* the watermark
          once,       \* the turns consolidated exactly once
          value       \* the scalar

consolidationVars == <<log, mark, once, value>>

ConsolidationInit == log = {} /\ mark = 0 /\ once = {} /\ value = 0

Capture ==
    /\ \E t \in 1..MaxTurns :
          /\ t > mark /\ \A u \in log : u < t
          /\ t \in log' /\ log' \subseteq log \cup {t}
    /\ \A old \in log \ log', kept \in log' : old < kept
    /\ UNCHANGED <<mark, once, value>>

InRange(v) == IF v < -Bound THEN -Bound ELSE IF v > Bound THEN Bound ELSE v

Consolidate ==
    LET batch == once' \ once IN
    /\ mark' \in (mark + 1)..MaxTurns
    /\ once \subseteq once'
    /\ batch # {} /\ batch \subseteq (mark + 1)..mark'
    /\ {t \in log : mark < t /\ t <= mark'} \subseteq batch
    /\ \E d \in (-MaxDelta)..MaxDelta : value' = InRange(value + d)
    /\ UNCHANGED log

ConsolidationNext == Capture \/ Consolidate

ConsolidationSpec == ConsolidationInit /\ [][ConsolidationNext]_consolidationVars

\* Every turn up to the watermark that is still kept was consolidated exactly
\* once, and no turn above it was consolidated at all.
ExactlyOnce == once \subseteq 1..mark /\ \A t \in log : t <= mark => t \in once
=============================================================================
