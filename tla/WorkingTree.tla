---------------------------- MODULE WorkingTree ----------------------------
(***************************************************************************)
(* What mutation.py promises of the tree it works in: it "applies mutants  *)
(* in the working tree, one at a time, and always puts it back"            *)
(* (MutationRunner).  A file is lent only by a whole tree, and what        *)
(* follows, after however many kills, is that tree again.                  *)
(***************************************************************************)
CONSTANT Files
VARIABLE tree

Whole == [f \in Files |-> "original"]

Init == tree = Whole

(* One file holds a mutant, or what a kill has left of its write.           *)
Lend(f) ==
  /\ tree = Whole
  /\ \E content \in {"mutant", "torn"} : tree' = [tree EXCEPT ![f] = content]

(* A kill in the write that undoes the mutant.                              *)
Tear(f) == tree[f] = "mutant" /\ tree' = [tree EXCEPT ![f] = "torn"]

Return == tree # Whole /\ tree' = Whole

Next == Return \/ \E f \in Files : Lend(f) \/ Tear(f)

Spec == Init /\ [][Next]_tree
=============================================================================
