----------------------------- MODULE MCTaskLoop -----------------------------
(***************************************************************************)
(* Small tasks: an agent-decided rule with two identities on one symbol, a *)
(* rule a subsystem owns and decides, and a rule the taxonomy may lack.    *)
(***************************************************************************)
EXTENDS TaskLoop

Id(rule, anchor, evidence) == [rule |-> rule, anchor |-> anchor, evidence |-> evidence]
Agent1 == Id("swallow", "send", "e1")
Agent2 == Id("swallow", "send", "e2")
Mutant == Id("mutant", "send", NoEvidence)
Stray  == Id("stray", "send", NoEvidence)

AgentIds == {Agent1, Agent2}
MixedIds == {Mutant, Stray}
OneAgent == {Agent1}
Nobody == {}

MCFileOf == [anchor \in {"send"} |-> "g.py"]

AgentProfile == [rule_ids |-> {"swallow"}, exhaustive |-> {}]
NarrowProfile == [rule_ids |-> {"mutant"}, exhaustive |-> {"mutant"}]
WideProfile == [rule_ids |-> {"mutant", "stray"}, exhaustive |-> {"mutant"}]

JustAgent == {AgentProfile}
MixedProfiles == {NarrowProfile, WideProfile}
=============================================================================
