----------------------------- MODULE MergeRound -----------------------------
(***************************************************************************)
(* merge_round on its own: one round, folded into any finding set whose    *)
(* entries are among Carried, and what the result owes to its input.       *)
(***************************************************************************)
EXTENDS Merge

CONSTANT Carried  \* what may be recorded about a finding the merge starts from

ASSUME CarriedAssumption == Carried \subseteq Finding

VARIABLE known    \* the findings the merge was handed

MergeInit ==
  /\ ValidProfile(profile)
  /\ \E ids \in SUBSET Ids : known \in [ids -> Carried]
  /\ scan \in { s \in Scan : s.round = MaxRound }
  /\ mem = known /\ todo = scan.raws
  /\ claimed = {} /\ decisions = NoDecisions

MergeNext == MergeStep /\ UNCHANGED known
MergeSpec == MergeInit /\ [][MergeNext]_<<mergeVars, known>>

(* Nothing a round reports is lost: once the round is merged, the record     *)
(* names, for every identity the round reported, a work item of the same     *)
(* rule and file that counts as seen in this round and is not closed (the    *)
(* merge docstring: a false merge silently deletes a real work item).        *)
ReportedWorkIsKept ==
  AllIngested =>
    \A id \in Ids : scan.raws[id] > 0 =>
      \E d \in DOMAIN decisions :
        /\ d.id = id /\ d.into \in DOMAIN Merged
        /\ d.into.rule = id.rule /\ SameFile(d.into, id)
        /\ Merged[d.into].last >= scan.round
        /\ Merged[d.into].status \in {"open", "disputed", "wontfix"}

(* A rule that code decides has machine-made anchors: two of them are two    *)
(* work items, so each one reported is tracked under its own identity.       *)
CodeItemsStayDistinct ==
  AllIngested =>
    \A id \in Ids : scan.raws[id] > 0 /\ id.rule \in profile.exhaustive =>
      id \in DOMAIN mem /\ mem[id].last >= scan.round

(* A finding that a report of this round went into, by its identity or by     *)
(* similarity, absorbs no further report of the round, the same one repeated *)
(* included: one sighting is merged at most, the next is tracked on its own. *)
(* (An exact match comes through even then: by_id is asked before claimed.)   *)
AbsorbsAtMostOne ==
  [][\A d \in DOMAIN decisions' :
       d.method = "absorbed" /\ Times(d, decisions') > Times(d, decisions) =>
         \A e \in DOMAIN decisions : e.into = d.into => e.method = "new"]_<<mergeVars, known>>

(* On rules that code decides, a round folded in raw by raw is the round     *)
(* folded in at once: whatever else it reports, however often and in         *)
(* whatever order, an item it names is reopened once or added, and one it is *)
(* silent on is left to the staleness rule.                                 *)
CodeRoundIsExact ==
  LET exact == CloseStale(Matched(known, { id \in Ids : scan.raws[id] > 0 }, scan.round), scan)
  IN  AllIngested =>
        \A id \in Ids : id.rule \in profile.exhaustive =>
          /\ id \in DOMAIN Merged <=> id \in DOMAIN exact
          /\ id \in DOMAIN exact => Merged[id] = exact[id]
=============================================================================
