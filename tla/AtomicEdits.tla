----------------------------- MODULE AtomicEdits -----------------------------
(***************************************************************************)
(* What Runner.fix promises of its parallel agents: the tree is as if each *)
(* edit were added to its file in one step.  An edit once made is never    *)
(* undone by another agent, and an agent edits only before it is answered. *)
(***************************************************************************)
CONSTANTS
  Groups,  \* the work items of one batch
  Files    \* the files fix agents may write

VARIABLES
  slice,   \* the files each group may write
  tree,    \* the groups whose edit is in each file
  result   \* what each group came to, "none" while it is worked on

Init ==
  /\ slice \in [Groups -> SUBSET Files]
  /\ tree = [f \in Files |-> {}]
  /\ result = [g \in Groups |-> "none"]

Edit(g, f) ==
  /\ result[g] = "none" /\ f \in slice[g]
  /\ tree' = [tree EXCEPT ![f] = @ \cup {g}]
  /\ UNCHANGED <<slice, result>>

Report(g) ==
  /\ result[g] = "none"
  /\ \E outcome \in {"fixed", "disputed", "failed"} :
       result' = [result EXCEPT ![g] = outcome]
  /\ UNCHANGED <<slice, tree>>

Next == \E g \in Groups : Report(g) \/ \E f \in Files : Edit(g, f)

Spec == Init /\ [][Next]_<<slice, tree, result>>
=============================================================================
