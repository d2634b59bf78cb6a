----------------------------- MODULE MCFixLanes -----------------------------
(***************************************************************************)
(* A batch of three groups over two files: every slice, the empty one too, *)
(* up to the names of the files.                                           *)
(***************************************************************************)
EXTENDS FixLanes

CONSTANTS f1, f2

MCSlices ==
  { s \in [Groups -> SUBSET {f1, f2}] :
      \A g \in Groups : s[g] = {f2} => \E h \in 1 .. g - 1 : f1 \in s[h] /\ f2 \notin s[h] }
=============================================================================
