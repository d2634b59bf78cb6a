----------------------------- MODULE Staleness ------------------------------
(***************************************************************************)
(* merge._close_stale, the last step of a merge: what a round that says     *)
(* nothing about a finding does to it.  s is the round that was merged: its *)
(* number, whether every shard reported, and whether a deterministic shard  *)
(* is among them.                                                           *)
(***************************************************************************)
EXTENDS Converge

Proven(id, s) == s.decided /\ id.rule \in OwnedRules

IsStale(f, id, s) ==
  /\ Claimed(f) /\ f.last < s.round /\ f.first < s.round
  /\ s.round - f.last >= (IF Proven(id, s) THEN 1 ELSE K)

CloseStale(fs, s) ==
  [id \in DOMAIN fs |->
    IF s.ok /\ IsStale(fs[id], id, s)
      THEN [fs[id] EXCEPT !.status = IF Proven(id, s) THEN "verified" ELSE "lapsed"]
      ELSE fs[id]]

(* One round of code-decided reports, folded in at once: no two of them are  *)
(* ever taken for one another, so a report meets its own identity or is new. *)
Matched(fs, raws, r) ==
  [id \in DOMAIN fs \cup raws |->
    IF id \notin raws THEN fs[id]
    ELSE IF id \in DOMAIN fs THEN Touch(fs[id], r) ELSE NewFinding(r)]
=============================================================================
