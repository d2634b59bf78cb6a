---------------------------- MODULE MCSpecFreeze ----------------------------
(* One item among others, and its finding.                                  *)
EXTENDS SpecFreeze

MCUnimplemented == [i \in Items |-> [rule |-> "unimplemented", anchor |-> i, evidence |-> NoEvidence]]
MCIds == { MCUnimplemented[i] : i \in Items }
MCFileOf == [i \in Items |-> "spec"]
=============================================================================
