----------------------------- MODULE MCConcerns -----------------------------
(***************************************************************************)
(* Concerns for TLC: weights in thirds of a unit, documents that add, name *)
(* present and absent rows, repeat themselves and exaggerate.              *)
(***************************************************************************)
EXTENDS Concerns, TLC

CONSTANTS p1, p2, k1, k2

Nothing == [new |-> <<>>, adjust |-> <<>>, resolve |-> {}, found |-> 0, settle |-> {},
            trust |-> <<>>]

MCAnswers ==
    {[Nothing EXCEPT !.new = <<2>>, !.trust = <<[name |-> k1, delta |-> 9]>>],
     [Nothing EXCEPT !.new = <<7, 1>>, !.adjust = <<[name |-> 2, delta |-> 9]>>,
                     !.trust = <<[name |-> k2, delta |-> 0]>>],
     [Nothing EXCEPT !.adjust = <<[name |-> 1, delta |-> 9], [name |-> 1, delta |-> -9]>>,
                     !.found = 1,
                     !.trust = <<[name |-> k1, delta |-> 1], [name |-> k1, delta |-> -9]>>],
     [Nothing EXCEPT !.resolve = {2, 3}, !.settle = {1}]}

\* DECAY_PRUNE_THRESHOLD doubles with every half-life.
MCFadesBelow == [i \in 0..1 |-> 2 ^ i]

Symmetry == Permutations({p1, p2})
=============================================================================
