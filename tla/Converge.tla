------------------------------ MODULE Converge ------------------------------
(***************************************************************************)
(* converge.evaluate: the gate, as a computation over the finding set, the *)
(* ingest records and the profile.  records is a function on the rounds    *)
(* whose ingest completed; its fields are the identities the ingest added  *)
(* (MergeStats of method "new") and whether it had failed shards.          *)
(***************************************************************************)
EXTENDS Findings

Record == [new : SUBSET Ids, failed : BOOLEAN]
AreRecords(recs) == DOMAIN recs \subseteq Rounds /\ recs \in [DOMAIN recs -> Record]

(* The last k completed rounds, or all of them when there are fewer.        *)
Tail(done) == { r \in done : Cardinality({ s \in done : s > r }) < K }

NewIn(fs, r) == { id \in DOMAIN fs : fs[id].first = r }

(* Mutant: a claimed fix no longer holds the gate.                          *)
OpenBlockingUnclaimed(fs, p) ==
  { id \in DOMAIN fs : fs[id].status = "open" /\ ~Unclassified(p, id) }

OpenBlocking(fs, p) == { id \in DOMAIN fs : Claimed(fs[id]) /\ ~Unclassified(p, id) }
DisputedPending(fs) == { id \in DOMAIN fs : Pending(fs[id]) }
(* Mutant: an off-taxonomy finding that closed leaves the bucket.           *)
UnclassifiedPendingClaimed(fs, p) ==
  { id \in DOMAIN fs : Unclassified(p, id) /\ Claimed(fs[id]) }

UnclassifiedPending(fs, p) ==
  { id \in DOMAIN fs : Unclassified(p, id) /\ fs[id].status # "wontfix" }

(* Mutant: a round with failed shards can be quiet.                         *)
IsQuietBlind(fs, recs, r) == NewIn(fs, r) = {}

IsQuiet(fs, recs, r) == NewIn(fs, r) = {} /\ ~recs[r].failed

RoundsSettled(fs, recs) ==
  /\ Cardinality(DOMAIN recs) >= K
  /\ \A r \in Tail(DOMAIN recs) : IsQuiet(fs, recs, r)

(* external: a blocker outside the finding set, an unfrozen or drifted spec. *)
Converged(fs, recs, p, external) ==
  /\ RoundsSettled(fs, recs)
  /\ OpenBlocking(fs, p) = {}
  /\ DisputedPending(fs) = {}
  /\ UnclassifiedPending(fs, p) = {}
  /\ ~external

NeedsTriage(fs, recs, p, external) ==
  /\ RoundsSettled(fs, recs)
  /\ OpenBlocking(fs, p) = {}
  /\ DisputedPending(fs) # {} \/ UnclassifiedPending(fs, p) # {}
  /\ ~external

-----------------------------------------------------------------------------
(* The two halves of the taxonomy, each over the same rounds and the same k. *)
Decidable(p) == p.exhaustive
Budgeted(p) == p.rule_ids \ p.exhaustive

(* Mutant: half of a taxonomy is judged without the disputes in it.          *)
HalfUndisputed(fs, recs, rules) ==
  LET mine == { id \in DOMAIN fs : id.rule \in rules }
  IN  /\ rules # {}
      /\ Cardinality(DOMAIN recs) >= K
      /\ \A r \in Tail(DOMAIN recs) : (\A id \in mine : fs[id].first # r) /\ ~recs[r].failed
      /\ \A id \in mine : ~Claimed(fs[id])

(* Convergence over the findings of some rules only.                        *)
Half(fs, recs, rules) ==
  LET mine == { id \in DOMAIN fs : id.rule \in rules }
  IN  /\ rules # {}
      /\ Cardinality(DOMAIN recs) >= K
      /\ \A r \in Tail(DOMAIN recs) :
            /\ \A id \in mine : fs[id].first # r
            /\ ~recs[r].failed
      /\ \A id \in mine : ~Claimed(fs[id]) /\ ~Pending(fs[id])
=============================================================================
