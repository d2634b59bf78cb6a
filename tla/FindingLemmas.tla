---------------------------- MODULE FindingLemmas ----------------------------
(***************************************************************************)
(* What the status changes do to one finding, and what a new entry and the *)
(* staleness rule do to a finding set: the facts the proofs about merges,  *)
(* tasks and specs share.                                                  *)
(***************************************************************************)
EXTENDS Staleness, TLAPS

(* A reopened finding is open within the guard or a pending dispute.        *)
LEMMA ReopenFacts ==
  ASSUME NEW f \in Finding
  PROVE  /\ Reopen(f) \in Finding
         /\ Reopen(f).first = f.first /\ Reopen(f).last = f.last
         /\ \/ Reopen(f).status = "open" /\ Reopen(f).reopens <= MaxReopens
            \/ Reopen(f).status = "disputed" /\ Reopen(f).adjudicated = FALSE
<1> DEFINE g == [f EXCEPT !.reopens = IF @ > MaxReopens THEN @ ELSE @ + 1]
<1>1. g \in Finding /\ g.first = f.first /\ g.last = f.last
  BY BoundsAssumption DEF Finding
<1>2. CASE g.reopens > MaxReopens
  BY <1>1, <1>2 DEF Reopen, Dispute, Finding, Statuses
<1>3. CASE ~(g.reopens > MaxReopens)
  <2>1. g.reopens <= MaxReopens
    BY <1>1, <1>3, BoundsAssumption DEF Finding
  <2> QED BY <1>1, <1>3, <2>1 DEF Reopen, Dispute, Finding, Statuses
<1> QED BY <1>2, <1>3

(* Re-deriving a finding moves last_seen_round forward only, leaves rulings  *)
(* alone and never closes anything.                                         *)
LEMMA TouchFacts ==
  ASSUME NEW f \in Finding, NEW r \in Rounds
  PROVE  /\ Touch(f, r) \in Finding
         /\ Touch(f, r).first = f.first
         /\ Touch(f, r).last >= f.last /\ Touch(f, r).last >= r
         /\ f.status \in {"open", "disputed", "wontfix"} =>
              /\ Touch(f, r).status = f.status
              /\ Touch(f, r).adjudicated = f.adjudicated
              /\ Touch(f, r).reopens = f.reopens
         /\ f.status \in {"fixed", "verified", "lapsed"} =>
              \/ Touch(f, r).status = "open" /\ Touch(f, r).reopens <= MaxReopens
              \/ Touch(f, r).status = "disputed" /\ Touch(f, r).adjudicated = FALSE
<1> DEFINE seen == [f EXCEPT !.last = Later(@, r)]
<1>1. seen \in Finding /\ seen.first = f.first /\ seen.last >= f.last /\ seen.last >= r
  BY BoundsAssumption DEF Finding, Later, Rounds
<1>2. Touch(f, r) = IF f.status \in {"fixed", "verified", "lapsed"} THEN Reopen(seen) ELSE seen
  BY DEF Touch
<1>3. f.status \in Statuses
  BY DEF Finding
<1> HIDE DEF seen
<1>4. CASE f.status \in {"fixed", "verified", "lapsed"}
  BY <1>1, <1>2, <1>4, ReopenFacts
<1>5. CASE f.status \notin {"fixed", "verified", "lapsed"}
  BY <1>1, <1>2, <1>5 DEF seen, Finding
<1> QED BY <1>4, <1>5

(* A finding a round has seen is neither claimed done nor closed, so seeing  *)
(* it again in the same round changes nothing.                              *)
LEMMA SeenFacts ==
  ASSUME NEW f \in Finding, NEW r \in Rounds, f.last >= r,
         f.status \in {"open", "disputed", "wontfix"}
  PROVE  Touch(f, r) = f
<1>1. Later(f.last, r) = f.last
  BY BoundsAssumption DEF Finding, Later, Rounds
<1>2. [f EXCEPT !.last = f.last] = f
  BY DEF Finding
<1> QED BY <1>1, <1>2 DEF Touch

LEMMA TouchTwice ==
  ASSUME NEW f \in Finding, NEW r \in Rounds
  PROVE  Touch(Touch(f, r), r) = Touch(f, r)
<1>1. PICK g : g = Touch(f, r)
  OBVIOUS
<1>2. g \in Finding /\ g.last >= r /\ g.status \in {"open", "disputed", "wontfix"}
  <2>1. f.status \in Statuses
    BY DEF Finding
  <2> QED BY <1>1, <2>1, TouchFacts DEF Statuses
<1> QED BY <1>1, <1>2, SeenFacts

(* A finding that a merge adds is well formed and dated by the merged       *)
(* round.                                                                   *)
LEMMA NewFindingFacts ==
  ASSUME NEW r \in Rounds
  PROVE  /\ NewFinding(r) \in Finding /\ NewFinding(r).first = r
         /\ NewFinding(r).last = r /\ NewFinding(r).status = "open"
BY BoundsAssumption DEF NewFinding, Finding, Statuses

(* A dispute is pending, whatever the finding was before.                   *)
LEMMA DisputeFacts ==
  ASSUME NEW f \in Finding
  PROVE  /\ Dispute(f) \in Finding
         /\ Dispute(f).first = f.first /\ Dispute(f).last = f.last
         /\ Dispute(f).status = "disputed" /\ Dispute(f).adjudicated = FALSE
BY DEF Dispute, Finding, Statuses

(* A verdict closes, reopens or leaves a fixed finding.                     *)
LEMMA JudgeFacts ==
  ASSUME NEW f \in Finding, NEW v \in {"verified", "reopened", "deferred"}
  PROVE  /\ Judge(f, v) \in Finding
         /\ Judge(f, v).first = f.first /\ Judge(f, v).last = f.last
         /\ v = "deferred" => Judge(f, v) = f
         /\ v # "deferred" =>
              \/ Judge(f, v).status = "verified"
              \/ Judge(f, v).status = "open" /\ Judge(f, v).reopens <= MaxReopens
              \/ Judge(f, v).status = "disputed" /\ Judge(f, v).adjudicated = FALSE
<1>1. CASE v = "verified"
  BY <1>1 DEF Judge, Finding, Statuses
<1>2. CASE v = "reopened"
  BY <1>2, ReopenFacts DEF Judge
<1>3. CASE v = "deferred"
  BY <1>3 DEF Judge
<1> QED BY <1>1, <1>2, <1>3

-----------------------------------------------------------------------------
(* Finding sets.                                                            *)

(* Adding one entry keeps the others.                                       *)
LEMMA PutFacts ==
  ASSUME NEW fs, IsFindingSet(fs), NEW id \in Ids, NEW f \in Finding
  PROVE  /\ IsFindingSet(Put(fs, id, f))
         /\ DOMAIN Put(fs, id, f) = DOMAIN fs \cup {id}
         /\ Put(fs, id, f)[id] = f
         /\ \A other \in DOMAIN fs \ {id} : Put(fs, id, f)[other] = fs[other]
BY DEF IsFindingSet, Put

(* Staleness closes claimed work and touches nothing else.                  *)
LEMMA CloseStaleFacts ==
  ASSUME NEW fs, IsFindingSet(fs), NEW s
  PROVE  /\ IsFindingSet(CloseStale(fs, s))
         /\ DOMAIN CloseStale(fs, s) = DOMAIN fs
         /\ \A id \in DOMAIN fs :
              /\ CloseStale(fs, s)[id].first = fs[id].first
              /\ CloseStale(fs, s)[id].last = fs[id].last
              /\ CloseStale(fs, s)[id].reopens = fs[id].reopens
              /\ CloseStale(fs, s)[id].adjudicated = fs[id].adjudicated
              /\ \/ CloseStale(fs, s)[id].status = fs[id].status
                 \/ /\ fs[id].status \in {"open", "fixed"}
                    /\ CloseStale(fs, s)[id].status \in {"verified", "lapsed"}
<1> DEFINE new == CloseStale(fs, s)
<1>1. DOMAIN new = DOMAIN fs
  BY DEF CloseStale
<1>2. ASSUME NEW id \in DOMAIN fs
      PROVE  /\ new[id] \in Finding
             /\ new[id].first = fs[id].first /\ new[id].last = fs[id].last
             /\ new[id].reopens = fs[id].reopens
             /\ new[id].adjudicated = fs[id].adjudicated
             /\ \/ new[id].status = fs[id].status
                \/ /\ fs[id].status \in {"open", "fixed"}
                   /\ new[id].status \in {"verified", "lapsed"}
  <2>1. fs[id] \in Finding
    BY DEF IsFindingSet
  <2>2. CASE s.ok /\ IsStale(fs[id], id, s)
    <3>1. new[id] = [fs[id] EXCEPT !.status = IF Proven(id, s) THEN "verified" ELSE "lapsed"]
      BY <2>2 DEF CloseStale
    <3>2. fs[id].status \in {"open", "fixed"}
      BY <2>2 DEF IsStale, Claimed
    <3> QED BY <2>1, <3>1, <3>2 DEF Finding, Statuses
  <2>3. CASE ~(s.ok /\ IsStale(fs[id], id, s))
    <3>1. new[id] = fs[id]
      BY <2>3 DEF CloseStale
    <3> QED BY <2>1, <3>1
  <2> QED BY <2>2, <2>3
<1>3. new = [id \in DOMAIN fs |-> new[id]]
  BY DEF CloseStale
<1> HIDE DEF new
<1>4. IsFindingSet(new)
  BY <1>1, <1>2, <1>3 DEF IsFindingSet
<1> QED BY <1>1, <1>2, <1>4 DEF new

(* A report that meets its own identity or is new leaves a well-formed set,  *)
(* in which everything reported has been seen.                              *)
LEMMA MatchedFacts ==
  ASSUME NEW fs, IsFindingSet(fs), NEW raws \in SUBSET Ids, NEW r \in Rounds
  PROVE  LET new == Matched(fs, raws, r)
         IN  /\ IsFindingSet(new) /\ DOMAIN new = DOMAIN fs \cup raws
             /\ \A id \in raws :
                  new[id].last >= r /\ new[id].status \in {"open", "disputed", "wontfix"}
<1> DEFINE new == Matched(fs, raws, r)
<1>1. DOMAIN new = DOMAIN fs \cup raws /\ \A id \in DOMAIN fs \ raws : new[id] = fs[id]
  BY DEF Matched
<1>2. ASSUME NEW id \in raws
      PROVE  /\ new[id] \in Finding
             /\ new[id].last >= r /\ new[id].status \in {"open", "disputed", "wontfix"}
  <2>1. CASE id \in DOMAIN fs
    <3>1. PICK f \in Finding : f = fs[id]
      BY <2>1 DEF IsFindingSet
    <3>2. PICK g : g = Touch(f, r)
      OBVIOUS
    <3>3. new[id] = g
      BY <2>1, <3>1, <3>2 DEF Matched
    <3>4. /\ g \in Finding /\ g.last >= r
          /\ f.status \in {"open", "disputed", "wontfix"} => g.status = f.status
          /\ f.status \in {"fixed", "verified", "lapsed"} => g.status \in {"open", "disputed"}
      BY <3>2, TouchFacts
    <3> QED BY <3>3, <3>4 DEF Finding, Statuses
  <2>2. CASE id \notin DOMAIN fs
    <3>1. PICK g : g = NewFinding(r)
      OBVIOUS
    <3>2. new[id] = g
      BY <2>2, <3>1 DEF Matched
    <3> QED BY <3>1, <3>2, NewFindingFacts DEF Rounds
  <2> QED BY <2>1, <2>2
<1>3. new = [id \in DOMAIN new |-> new[id]]
  BY DEF Matched
<1> HIDE DEF new
<1>4. IsFindingSet(new)
  <2>1. \A id \in DOMAIN new : new[id] \in Finding
    BY <1>1, <1>2 DEF IsFindingSet
  <2> QED BY <1>1, <1>3, <2>1 DEF IsFindingSet
<1> QED BY <1>1, <1>2, <1>4 DEF new

(* Folding a round in twice is folding it in once: what it reports was seen, *)
(* and what it closed is no longer claimed.                                 *)
LEMMA FoldTwice ==
  ASSUME NEW fs, IsFindingSet(fs), NEW raws \in SUBSET Ids, NEW s, s.round \in Rounds
  PROVE  LET once == CloseStale(Matched(fs, raws, s.round), s)
         IN  CloseStale(Matched(once, raws, s.round), s) = once
<1> DEFINE met == Matched(fs, raws, s.round)
           once == CloseStale(met, s)
           again == Matched(once, raws, s.round)
<1>1. /\ IsFindingSet(met) /\ DOMAIN met = DOMAIN fs \cup raws
      /\ \A id \in raws : met[id].last >= s.round /\ met[id].status \in {"open", "disputed", "wontfix"}
  BY MatchedFacts
<1> HIDE DEF met
<1>2. IsFindingSet(once) /\ DOMAIN once = DOMAIN met
  BY <1>1, CloseStaleFacts
<1>3. ASSUME NEW id \in DOMAIN met
      PROVE  \/ once[id] = met[id] /\ ~(s.ok /\ IsStale(met[id], id, s))
             \/ ~Claimed(once[id]) /\ id \notin raws
  <2>1. met[id] \in Finding
    BY <1>1 DEF IsFindingSet
  <2>2. CASE s.ok /\ IsStale(met[id], id, s)
    <3>1. id \notin raws
      <4>1. ASSUME id \in raws PROVE FALSE
        <5>1. met[id].last >= s.round /\ met[id].last < s.round /\ met[id].last \in Nat /\ s.round \in Nat
          BY <1>1, <2>1, <2>2, <4>1 DEF IsStale, Finding, Rounds
        <5> QED BY <5>1
      <4> QED BY <4>1
    <3>2. once[id] = [met[id] EXCEPT !.status = IF Proven(id, s) THEN "verified" ELSE "lapsed"]
      BY <2>2 DEF CloseStale
    <3>3. once[id].status \in {"verified", "lapsed"}
      BY <2>1, <3>2 DEF Finding
    <3> QED BY <3>1, <3>3 DEF Claimed
  <2>3. CASE ~(s.ok /\ IsStale(met[id], id, s))
    BY <2>3 DEF CloseStale
  <2> QED BY <2>2, <2>3
<1> HIDE DEF once
<1>4. again = once
  <2>1. DOMAIN again = DOMAIN once
    BY <1>1, <1>2 DEF Matched
  <2>2. ASSUME NEW id \in DOMAIN once
        PROVE  again[id] = once[id]
    <3>1. CASE id \in raws
      <4>1. once[id] = met[id] /\ met[id] \in Finding
        BY <1>1, <1>2, <1>3, <3>1 DEF IsFindingSet
      <4>2. Touch(once[id], s.round) = once[id]
        BY <1>1, <3>1, <4>1, SeenFacts
      <4> QED BY <1>1, <1>2, <3>1, <4>2 DEF Matched
    <3>2. CASE id \notin raws
      BY <1>1, <1>2, <3>2 DEF Matched
    <3> QED BY <3>1, <3>2
  <2>3. again = [id \in DOMAIN again |-> again[id]] /\ once = [id \in DOMAIN once |-> once[id]]
    BY DEF Matched, once, CloseStale
  <2> QED BY <2>1, <2>2, <2>3
<1>5. \A id \in DOMAIN once : ~(s.ok /\ IsStale(once[id], id, s))
  BY <1>2, <1>3 DEF IsStale
<1>6. CloseStale(once, s) = once
  <2>1. once = [id \in DOMAIN once |-> once[id]]
    BY DEF once, CloseStale
  <2> QED BY <1>5, <2>1 DEF CloseStale
<1> QED BY <1>4, <1>6 DEF once, met
=============================================================================
