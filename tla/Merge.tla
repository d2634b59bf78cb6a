-------------------------------- MODULE Merge --------------------------------
(***************************************************************************)
(* merge.merge_round: folding one round of raw scan output into the        *)
(* finding set, one raw finding at a time.                                 *)
(*                                                                         *)
(* The similarity score depends on the wording of two descriptions, which  *)
(* a scan is free to vary, and the adjudicator is a model that may also    *)
(* fail; so whether the candidate and the finding it is weighed against    *)
(* are ruled the same is left open.  Which finding that is, is not.        *)
(***************************************************************************)
EXTENDS Staleness

CONSTANT MaxCopies  \* bound on how often one round reports one identity

VARIABLES
  profile,    \* the profile in force
  scan,       \* the ScanRound being merged
  mem,        \* the findings, as merged so far
  todo,       \* raw findings not yet ingested: how many of each identity
  claimed,    \* existing findings already matched in this round
  decisions   \* RunRecord.decisions but for their order: the bag of what went into what

mergeVars == <<profile, scan, mem, todo, claimed, decisions>>

ASSUME MaxCopiesAssumption == MaxCopies \in Nat

Raws == [Ids -> 0 .. MaxCopies]
NoRaws == [id \in Ids |-> 0]

(* ok: every shard reported, of which there is at least one.  decided: a     *)
(* deterministic shard is among them.                                       *)
Scan == [round : Rounds, ok : BOOLEAN, decided : BOOLEAN, raws : Raws]

Decision == [id : Ids, into : Ids, method : {"new", "exact", "absorbed"}]

AreDecisions(ds) == DOMAIN ds \subseteq Decision /\ ds \in [DOMAIN ds -> Nat \ {0}]
NoDecisions == [d \in {} |-> 1]

MergeTypeOK ==
  /\ ValidProfile(profile)
  /\ scan \in Scan
  /\ IsFindingSet(mem)
  /\ todo \in Raws
  /\ claimed \subseteq DOMAIN mem
  /\ AreDecisions(decisions)

-----------------------------------------------------------------------------
SameFile(id, other) == FileOf[id.anchor] = FileOf[other.anchor]

(* Mutant: a finding already matched in this round is matched again.        *)
CandidatesClaimedToo(id) ==
  { other \in DOMAIN mem \ {id} : other.rule = id.rule /\ SameFile(id, other) }

(* Mutant: any finding of the same file is a candidate, whatever its rule.   *)
CandidatesAnyRule(id) == { other \in DOMAIN mem \ (claimed \cup {id}) : SameFile(id, other) }

Candidates(id) ==
  { other \in DOMAIN mem \ (claimed \cup {id}) :
      other.rule = id.rule /\ SameFile(id, other) }

(* The pair that is judged: an identical anchor first, else the best score,  *)
(* which may be any of them.                                                 *)
PairToJudge(id) ==
  LET twins == { other \in Candidates(id) : other.anchor = id.anchor }
  IN  IF twins # {} THEN twins ELSE Candidates(id)

Take(id) == todo' = [todo EXCEPT ![id] = @ - 1]

(* How often the record names a decision, and the record with one more.      *)
Times(d, ds) == IF d \in DOMAIN ds THEN ds[d] ELSE 0
OneMore(ds, d) == Put(ds, d, Times(d, ds) + 1)
Decide(id, into, method) ==
  decisions' = OneMore(decisions, [id |-> id, into |-> into, method |-> method])

IngestExact(id) ==
  /\ todo[id] > 0 /\ id \in DOMAIN mem
  /\ Take(id)
  /\ claimed' = claimed \cup {id}
  /\ mem' = [mem EXCEPT ![id] = Touch(@, scan.round)]
  /\ Decide(id, id, "exact")
  /\ UNCHANGED <<profile, scan>>

Absorb(id, best) ==
  /\ todo[id] > 0 /\ id \notin DOMAIN mem
  /\ id.rule \notin profile.exhaustive
  /\ best \in PairToJudge(id)
  /\ Take(id)
  /\ claimed' = claimed \cup {best}
  /\ mem' = [mem EXCEPT ![best] = Touch(@, scan.round)]
  /\ Decide(id, best, "absorbed")
  /\ UNCHANGED <<profile, scan>>

IngestNew(id) ==
  /\ todo[id] > 0 /\ id \notin DOMAIN mem
  /\ Take(id)
  /\ mem' = Put(mem, id, NewFinding(scan.round))
  /\ Decide(id, id, "new")
  /\ UNCHANGED <<profile, scan, claimed>>

MergeStep ==
  \E id \in Ids :
    \/ IngestExact(id)
    \/ \E best \in DOMAIN mem : Absorb(id, best)
    \/ IngestNew(id)

-----------------------------------------------------------------------------
AllIngested == todo = NoRaws
Merged == CloseStale(mem, scan)

(* The record merge_round returns beside the findings.  scan never writes a  *)
(* round without shards (it refuses an empty scope), so a round that is not  *)
(* ok has a failed shard, and this is RunRecord.failed_shards # [].          *)
RunRecord ==
  [new |-> { d.id : d \in { e \in DOMAIN decisions : e.method = "new" } }, failed |-> ~scan.ok]
=============================================================================
