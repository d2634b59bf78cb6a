------------------------------- MODULE MCMerge -------------------------------
(***************************************************************************)
(* One merge over three identities of one rule in one file, two of them on *)
(* the same symbol, and one identity a subsystem owns.  The profile is any *)
(* valid one, so the first rule is also tried off-taxonomy and as a rule   *)
(* that code decides.                                                      *)
(***************************************************************************)
EXTENDS MergeRound

Id(rule, anchor, evidence) == [rule |-> rule, anchor |-> anchor, evidence |-> evidence]

MCIds ==
  { Id("swallow", "send", "e1"), Id("swallow", "send", "e2"), Id("swallow", "recv", "e1"),
    Id("mutant", "send", NoEvidence) }
MCFileOf == [anchor \in {"send", "recv"} |-> "g.py"]

(* Open since round 1, claimed fixed then, and lapsed at the last reopen the *)
(* oscillation guard allows.                                                 *)
MCCarried ==
  { [status |-> s, adjudicated |-> FALSE, first |-> 1, last |-> 1, reopens |-> 0] :
      s \in {"open", "fixed"} }
  \cup
  {[status |-> "lapsed", adjudicated |-> FALSE, first |-> 1, last |-> 1, reopens |-> 1]}
=============================================================================
