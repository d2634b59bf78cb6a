---------------------------- MODULE MCMutantSwap ----------------------------
(* Instances of MutantSwap: two tasks and two files in one working tree.    *)
EXTENDS MutantSwap

CONSTANTS t1, t2, f1, f2
=============================================================================
