------------------------- MODULE MCMutationVerdicts -------------------------
(* Two files: one with a symbol of two mutants, of which an edit leaves one, *)
(* and one with a symbol of a single mutant, which an edit takes away.      *)
EXTENDS MutationVerdicts

CONSTANTS a, b, f, g, m1, m2, n1

MCSourceOf == [x \in {f, g} |-> IF x = f THEN a ELSE b]
MCAnchorOf == [m \in {m1, m2, n1} |-> IF m = n1 THEN g ELSE f]
MCMutantsOf ==
  [s \in {a, b} |-> [v \in {1, 2} |->
    CASE s = a /\ v = 1 -> {m1, m2} [] s = a /\ v = 2 -> {m1}
      [] s = b /\ v = 1 -> {n1} [] s = b /\ v = 2 -> {}]]
=============================================================================
