------------------------------ MODULE Findings ------------------------------
(***************************************************************************)
(* The unit of state of coldsweep: one work item, and the status changes   *)
(* that more than one command makes to it (models.py, merge.py, verify.py).*)
(*                                                                         *)
(* An identity is what models.derive_id hashes: the rule, the anchor and   *)
(* the evidence.  Wording, the shard and the audit trail are left out; of  *)
(* the trail only the number of reopens since the last triage is kept.     *)
(***************************************************************************)
EXTENDS Naturals, FiniteSets

CONSTANTS
  Ids,           \* identities that any scan may report: [rule, anchor, evidence]
  FileOf,        \* the file part of each anchor
  OwnedRules,    \* rules named by the mutation, spec and mechanical blocks
  DeciderRules,  \* the mutation and spec rules among them, which verify re-derives
  AbsenceRules,  \* rules of mode "absence", decided by looking for the evidence
  MaxRound,      \* bound on round numbers, for TLC
  K,             \* convergence.k
  MaxReopens     \* merge.MAX_REOPENS

NoEvidence == "none"
Rounds == 1 .. MaxRound
Rules == { id.rule : id \in Ids } \cup OwnedRules
Anchors == { id.anchor : id \in Ids }

ASSUME BoundsAssumption == MaxRound \in Nat \ {0} /\ K \in Nat \ {0} /\ MaxReopens \in Nat
ASSUME IdsAssumption == \A id \in Ids : DOMAIN id = {"rule", "anchor", "evidence"}
ASSUME FileAssumption == Anchors \subseteq DOMAIN FileOf
ASSUME RulesAssumption == DeciderRules \subseteq OwnedRules

Statuses == {"open", "fixed", "verified", "lapsed", "wontfix", "disputed"}

(* reopens is reopen_count, the reopens since the last triage reset.  It is *)
(* only ever compared with MAX_REOPENS, so it saturates one above it.       *)
Finding ==
  [status : Statuses, adjudicated : BOOLEAN, first : Rounds, last : Rounds,
   reopens : 0 .. MaxReopens + 1]

(* A finding set: the known identities and what is recorded about each.     *)
(* load_findings takes findings.jsonl as it is; that no identity is in it    *)
(* twice is due to the commands, which write one list of distinct findings.  *)
IsFindingSet(fs) == DOMAIN fs \subseteq Ids /\ fs \in [DOMAIN fs -> Finding]

Put(f, x, v) == [y \in DOMAIN f \cup {x} |-> IF y = x THEN v ELSE f[y]]
Later(r, s) == IF r >= s THEN r ELSE s

-----------------------------------------------------------------------------
(* The profile: its taxonomy and the rules in it marked decided_by: code.   *)
ValidProfile(p) ==
  /\ p \in [rule_ids : SUBSET Rules, exhaustive : SUBSET Rules]
  /\ OwnedRules \subseteq p.exhaustive
  /\ p.exhaustive \subseteq p.rule_ids

Unclassified(p, id) == id.rule \notin p.rule_ids
Pending(f) == f.status = "disputed" /\ ~f.adjudicated
(* Mutant: a claimed fix no longer counts as work.                         *)
ClaimedOpen(f) == f.status = "open"

Claimed(f) == f.status \in {"open", "fixed"}

-----------------------------------------------------------------------------
(* Mutant: the round is not passed on, and the model's default of 0 stays.  *)
NewFindingUndated(r) ==
  [status |-> "open", adjudicated |-> FALSE, first |-> 0, last |-> 0, reopens |-> 0]

(* RawFinding.to_finding, as _new_finding stores it.                        *)
NewFinding(r) ==
  [status |-> "open", adjudicated |-> FALSE, first |-> r, last |-> r, reopens |-> 0]

(* Mutant: the flag of an earlier ruling is not cleared.                    *)
DisputeKeepsRuling(f) == [f EXCEPT !.status = "disputed"]

Dispute(f) == [f EXCEPT !.status = "disputed", !.adjudicated = FALSE]

(* A closed or claimed finding turns out not to be done; the oscillation    *)
(* guard turns one reopen too many into a dispute.                          *)
Reopen(f) ==
  LET counted == [f EXCEPT !.reopens = IF @ > MaxReopens THEN @ ELSE @ + 1]
  IN  IF counted.reopens > MaxReopens
        THEN Dispute(counted)
        ELSE [counted EXCEPT !.status = "open"]

(* Mutant: an item that closed by silence is not reopened when it is seen.   *)
TouchKeepsLapsed(f, r) ==
  LET seen == [f EXCEPT !.last = Later(@, r)]
  IN  IF f.status \in {"fixed", "verified"} THEN Reopen(seen) ELSE seen

(* Mutant: last_seen_round is assigned rather than raised.                  *)
TouchBackwards(f, r) ==
  LET seen == [f EXCEPT !.last = r]
  IN  IF f.status \in {"fixed", "verified", "lapsed"} THEN Reopen(seen) ELSE seen

(* Mutant: seeing a disputed finding again reopens it.                      *)
TouchReopensDisputes(f, r) ==
  LET seen == [f EXCEPT !.last = Later(@, r)]
  IN  IF f.status \in {"fixed", "verified", "lapsed", "disputed"} THEN Reopen(seen) ELSE seen

(* Mutant: an item that is open already is reopened by every sighting.      *)
TouchCountsSightings(f, r) ==
  LET seen == [f EXCEPT !.last = Later(@, r)]
  IN  IF f.status \in {"open", "fixed", "verified", "lapsed"} THEN Reopen(seen) ELSE seen

(* Round r re-derived this finding.                                         *)
Touch(f, r) ==
  LET seen == [f EXCEPT !.last = Later(@, r)]
  IN  IF f.status \in {"fixed", "verified", "lapsed"} THEN Reopen(seen) ELSE seen

(* What verify may conclude about a fixed finding.  The decider of the rule *)
(* re-derives it, or fails to run; a snippet is looked for under an absence *)
(* rule; anything else can only be deferred.                                *)
VerdictsOn(p, id) ==
  IF \/ id.rule \in DeciderRules
     \/ id.evidence # NoEvidence /\ id.rule \in AbsenceRules /\ ~Unclassified(p, id)
    THEN {"verified", "reopened", "deferred"}
    ELSE {"deferred"}

(* Mutant: verify reopens without applying the oscillation guard.           *)
JudgeUnguarded(f, verdict) ==
  CASE verdict = "verified" -> [f EXCEPT !.status = "verified"]
    [] verdict = "reopened" ->
         [f EXCEPT !.status = "open", !.reopens = IF @ > MaxReopens THEN @ ELSE @ + 1]
    [] verdict = "deferred" -> f

Judge(f, verdict) ==
  CASE verdict = "verified" -> [f EXCEPT !.status = "verified"]
    [] verdict = "reopened" -> Reopen(f)
    [] verdict = "deferred" -> f
=============================================================================
