--------------------------- MODULE MergeRoundProofs ---------------------------
(***************************************************************************)
(* What one merge owes to its round, for every set of identities and every *)
(* finding set it may start from.                                          *)
(***************************************************************************)
EXTENDS MergeRound, FindingLemmas

(* The merge is past a raw finding of this identity.                        *)
Handled(id) == todo[id] < scan.raws[id]

(* A finding that counts as seen in this round and is not closed.           *)
Seen(id) ==
  /\ id \in DOMAIN mem /\ mem[id].last >= scan.round
  /\ mem[id].status \in {"open", "disputed", "wontfix"}

(* The record says what the raw finding went into, and that is seen.        *)
StandsFor(d, id) ==
  d.id = id /\ d.into.rule = id.rule /\ SameFile(d.into, id) /\ Seen(d.into)
Kept(id) == \E d \in DOMAIN decisions : StandsFor(d, id)

HandledAreKept == \A id \in Ids : Handled(id) => Kept(id)
HandledCodeIsSeen == \A id \in Ids : Handled(id) /\ id.rule \in profile.exhaustive => Seen(id)
MatchesAreClaimed == \A d \in DOMAIN decisions : d.method # "new" => d.into \in claimed

IInv ==
  /\ MergeTypeOK
  /\ HandledAreKept /\ HandledCodeIsSeen /\ MatchesAreClaimed

-----------------------------------------------------------------------------
(* Before the first raw finding nothing is owed.                            *)
LEMMA InitIInv == MergeInit => IInv
<1> SUFFICES ASSUME MergeInit PROVE IInv
  OBVIOUS
<1>1. scan \in Scan /\ todo = scan.raws /\ todo \in Raws
  BY DEF MergeInit, Scan
<1>2. IsFindingSet(mem)
  BY CarriedAssumption DEF MergeInit, IsFindingSet
<1>3. \A id \in Ids : ~Handled(id)
  BY <1>1 DEF Handled, Raws
<1>4. AreDecisions(decisions) /\ DOMAIN decisions = {}
  BY DEF MergeInit, AreDecisions, NoDecisions
<1> QED
  BY <1>1, <1>2, <1>3, <1>4 DEF MergeInit, IInv, MergeTypeOK, HandledAreKept, HandledCodeIsSeen,
     MatchesAreClaimed

(* One raw finding less is left, and only its own identity is newly handled. *)
LEMMA TakeFacts ==
  ASSUME MergeTypeOK, NEW id \in Ids, todo[id] > 0, Take(id), UNCHANGED scan
  PROVE  /\ todo' \in Raws
         /\ \A other \in Ids \ {id} : Handled(other)' = Handled(other)
<1>1. todo[id] \in 0 .. MaxCopies
  BY DEF MergeTypeOK, Raws
<1>2. todo[id] - 1 \in 0 .. MaxCopies
  BY <1>1, MaxCopiesAssumption
<1> QED BY <1>2 DEF Take, Raws, MergeTypeOK, Handled

(* An entry that is seen stays seen when it or another entry is touched, and *)
(* the touched one is.                                                      *)
LEMMA TouchSees ==
  ASSUME MergeTypeOK, UNCHANGED scan, NEW t \in DOMAIN mem,
         mem' = [mem EXCEPT ![t] = Touch(@, scan.round)]
  PROVE  /\ IsFindingSet(mem') /\ DOMAIN mem' = DOMAIN mem
         /\ Seen(t)' /\ \A id \in Ids : Seen(id) => Seen(id)'
<1>1. IsFindingSet(mem) /\ scan.round \in Rounds
  BY DEF MergeTypeOK, Scan
<1>2. mem[t] \in Finding /\ mem[t].status \in Statuses
  BY <1>1 DEF IsFindingSet, Finding
<1>3. mem'[t] = Touch(mem[t], scan.round) /\ \A id \in DOMAIN mem \ {t} : mem'[id] = mem[id]
  OBVIOUS
<1>4. /\ mem'[t] \in Finding /\ mem'[t].last >= scan.round
      /\ mem'[t].status \in {"open", "disputed", "wontfix"}
  BY <1>1, <1>2, <1>3, TouchFacts DEF Statuses
<1>5. IsFindingSet(mem') /\ DOMAIN mem' = DOMAIN mem
  BY <1>1, <1>3, <1>4 DEF IsFindingSet
<1> QED BY <1>3, <1>4, <1>5 DEF Seen

(* Adding an entry leaves the seen ones seen.                               *)
LEMMA PutSees ==
  ASSUME MergeTypeOK, UNCHANGED scan, NEW id \in Ids, id \notin DOMAIN mem,
         mem' = Put(mem, id, NewFinding(scan.round))
  PROVE  /\ IsFindingSet(mem') /\ DOMAIN mem' = DOMAIN mem \cup {id}
         /\ Seen(id)' /\ \A other \in Ids : Seen(other) => Seen(other)'
<1>1. IsFindingSet(mem) /\ scan.round \in Rounds
  BY DEF MergeTypeOK, Scan
<1>2. /\ NewFinding(scan.round) \in Finding
      /\ NewFinding(scan.round).last >= scan.round /\ NewFinding(scan.round).status = "open"
  BY <1>1, NewFindingFacts, BoundsAssumption DEF Rounds
<1> DEFINE new == NewFinding(scan.round)
<1>3. new \in Finding /\ new.last >= scan.round /\ new.status = "open" /\ mem' = Put(mem, id, new)
  BY <1>2
<1> HIDE DEF new
<1>4. /\ IsFindingSet(Put(mem, id, new)) /\ DOMAIN Put(mem, id, new) = DOMAIN mem \cup {id}
      /\ Put(mem, id, new)[id] = new
      /\ \A other \in DOMAIN mem \ {id} : Put(mem, id, new)[other] = mem[other]
  BY <1>1, <1>3, PutFacts
<1>5. /\ IsFindingSet(mem') /\ DOMAIN mem' = DOMAIN mem \cup {id} /\ mem'[id] = new
      /\ \A other \in DOMAIN mem : mem'[other] = mem[other]
  BY <1>4, <1>3
<1>6. Seen(id)'
  BY <1>3, <1>5 DEF Seen
<1>7. \A other \in Ids : Seen(other) => Seen(other)'
  BY <1>5 DEF Seen
<1> QED BY <1>5, <1>6, <1>7

(* The record grows by what was decided and by nothing else.                *)
LEMMA DecideFacts ==
  ASSUME MergeTypeOK, NEW d \in Decision, decisions' = OneMore(decisions, d)
  PROVE  /\ AreDecisions(decisions') /\ DOMAIN decisions' = DOMAIN decisions \cup {d}
         /\ \A e \in DOMAIN decisions \ {d} : decisions'[e] = decisions[e]
<1>1. decisions \in [DOMAIN decisions -> Nat \ {0}] /\ DOMAIN decisions \subseteq Decision
  BY DEF MergeTypeOK, AreDecisions
<1>2. /\ decisions' \in [DOMAIN decisions' -> Nat \ {0}] /\ DOMAIN decisions' = DOMAIN decisions \cup {d}
      /\ \A e \in DOMAIN decisions \ {d} : decisions'[e] = decisions[e]
  BY <1>1 DEF OneMore, Put, Times
<1> QED BY <1>1, <1>2 DEF AreDecisions

(* What every step owes, once it is known which entry stands for the raw     *)
(* finding it took.                                                         *)
LEMMA StepFacts ==
  ASSUME IInv, NEW id \in Ids, NEW into \in Ids, UNCHANGED <<profile, scan>>,
         todo[id] > 0, Take(id),
         NEW d0, d0.id = id, d0.into = into, DOMAIN decisions' = DOMAIN decisions \cup {d0},
         into.rule = id.rule, SameFile(into, id), Seen(into)',
         id.rule \in profile.exhaustive => into = id,
         \A other \in Ids : Seen(other) => Seen(other)'
  PROVE  HandledAreKept' /\ HandledCodeIsSeen'
<1>1. \A other \in Ids \ {id} : Handled(other)' = Handled(other)
  BY TakeFacts DEF IInv
<1>2. \A a, b \in Ids : SameFile(a, b)' = SameFile(a, b)
  BY DEF SameFile
<1>3. ASSUME NEW other \in Ids, Handled(other)' PROVE Kept(other)'
  <2>1. CASE other = id
    <3>1. StandsFor(d0, other)'
      BY <1>2, <2>1 DEF StandsFor
    <3> QED BY <3>1 DEF Kept
  <2>2. CASE other # id
    <3>1. PICK d \in DOMAIN decisions : StandsFor(d, other)
      BY <1>1, <1>3, <2>2 DEF IInv, HandledAreKept, Kept
    <3>2. d.into \in Ids
      BY DEF IInv, MergeTypeOK, AreDecisions, Decision
    <3>3. StandsFor(d, other)'
      BY <1>2, <3>1, <3>2 DEF StandsFor
    <3> QED BY <3>3 DEF Kept
  <2> QED BY <2>1, <2>2
<1>4. ASSUME NEW other \in Ids, Handled(other)', other.rule \in profile'.exhaustive
      PROVE  Seen(other)'
  <2>1. CASE other = id
    BY <1>4, <2>1
  <2>2. CASE other # id
    BY <1>1, <1>4, <2>2 DEF IInv, HandledCodeIsSeen
  <2> QED BY <2>1, <2>2
<1> QED BY <1>3, <1>4 DEF HandledAreKept, HandledCodeIsSeen

-----------------------------------------------------------------------------
(* A match by identity.                                                     *)
LEMMA ExactStep ==
  ASSUME IInv, NEW id \in Ids, IngestExact(id)
  PROVE  IInv'
<1>1. /\ id \in DOMAIN mem /\ todo[id] > 0 /\ Take(id) /\ UNCHANGED <<profile, scan>>
      /\ mem' = [mem EXCEPT ![id] = Touch(@, scan.round)] /\ claimed' = claimed \cup {id}
      /\ Decide(id, id, "exact")
  BY DEF IngestExact
<1>2. MergeTypeOK
  BY DEF IInv
<1>3. /\ IsFindingSet(mem') /\ DOMAIN mem' = DOMAIN mem /\ Seen(id)'
      /\ \A other \in Ids : Seen(other) => Seen(other)'
  BY <1>1, <1>2, TouchSees
<1>4. todo' \in Raws
  BY <1>1, <1>2, TakeFacts
<1>d. PICK d0 \in Decision : /\ d0.id = id /\ d0.into = id /\ d0.method = "exact"
                            /\ decisions' = OneMore(decisions, d0)
  BY <1>1 DEF Decide, Decision
<1>e. AreDecisions(decisions') /\ DOMAIN decisions' = DOMAIN decisions \cup {d0}
  BY <1>2, <1>d, DecideFacts
<1>5. MergeTypeOK'
  BY <1>1, <1>2, <1>3, <1>4, <1>e DEF MergeTypeOK, ValidProfile
<1>6. HandledAreKept' /\ HandledCodeIsSeen'
  BY <1>1, <1>3, <1>d, <1>e, StepFacts DEF SameFile
<1>7. MatchesAreClaimed'
  BY <1>1, <1>d, <1>e DEF IInv, MatchesAreClaimed
<1> QED BY <1>5, <1>6, <1>7 DEF IInv

(* An absorption.                                                           *)
LEMMA AbsorbStep ==
  ASSUME IInv, NEW id \in Ids, NEW best \in DOMAIN mem, Absorb(id, best)
  PROVE  IInv'
<1>1. /\ id.rule \notin profile.exhaustive
      /\ todo[id] > 0 /\ Take(id) /\ UNCHANGED <<profile, scan>>
      /\ mem' = [mem EXCEPT ![best] = Touch(@, scan.round)] /\ claimed' = claimed \cup {best}
      /\ Decide(id, best, "absorbed")
  BY DEF Absorb
<1>2. best \in Candidates(id)
  BY DEF Absorb, PairToJudge
<1>3. best.rule = id.rule /\ SameFile(best, id) /\ best \notin claimed
  BY <1>2 DEF Candidates, SameFile
<1>4. MergeTypeOK /\ best \in Ids
  BY DEF IInv, MergeTypeOK, IsFindingSet
<1>5. /\ IsFindingSet(mem') /\ DOMAIN mem' = DOMAIN mem /\ Seen(best)'
      /\ \A other \in Ids : Seen(other) => Seen(other)'
  BY <1>1, <1>4, TouchSees
<1>6. todo' \in Raws
  BY <1>1, <1>4, TakeFacts
<1>d. PICK d0 \in Decision : /\ d0.id = id /\ d0.into = best /\ d0.method = "absorbed"
                            /\ decisions' = OneMore(decisions, d0)
  BY <1>1, <1>4 DEF Decide, Decision
<1>e. AreDecisions(decisions') /\ DOMAIN decisions' = DOMAIN decisions \cup {d0}
  BY <1>4, <1>d, DecideFacts
<1>7. MergeTypeOK'
  BY <1>1, <1>4, <1>5, <1>6, <1>e DEF MergeTypeOK, ValidProfile
<1>8. HandledAreKept' /\ HandledCodeIsSeen'
  BY <1>1, <1>3, <1>4, <1>5, <1>d, <1>e, StepFacts
<1>9. MatchesAreClaimed'
  BY <1>1, <1>d, <1>e DEF IInv, MatchesAreClaimed
<1> QED BY <1>7, <1>8, <1>9 DEF IInv

(* A new finding.                                                           *)
LEMMA NewStep ==
  ASSUME IInv, NEW id \in Ids, IngestNew(id)
  PROVE  IInv'
<1>1. /\ id \notin DOMAIN mem /\ todo[id] > 0 /\ Take(id) /\ UNCHANGED <<profile, scan, claimed>>
      /\ mem' = Put(mem, id, NewFinding(scan.round))
      /\ Decide(id, id, "new")
  BY DEF IngestNew
<1>2. MergeTypeOK
  BY DEF IInv
<1>3. /\ IsFindingSet(mem') /\ DOMAIN mem' = DOMAIN mem \cup {id} /\ Seen(id)'
      /\ \A other \in Ids : Seen(other) => Seen(other)'
  BY <1>1, <1>2, PutSees
<1>4. todo' \in Raws
  BY <1>1, <1>2, TakeFacts
<1>d. PICK d0 \in Decision : /\ d0.id = id /\ d0.into = id /\ d0.method = "new"
                            /\ decisions' = OneMore(decisions, d0)
  BY <1>1 DEF Decide, Decision
<1>e. AreDecisions(decisions') /\ DOMAIN decisions' = DOMAIN decisions \cup {d0}
  BY <1>2, <1>d, DecideFacts
<1>5. MergeTypeOK'
  BY <1>1, <1>2, <1>3, <1>4, <1>e DEF MergeTypeOK, ValidProfile
<1>6. HandledAreKept' /\ HandledCodeIsSeen'
  BY <1>1, <1>3, <1>d, <1>e, StepFacts DEF SameFile
<1>7. MatchesAreClaimed'
  BY <1>1, <1>d, <1>e DEF IInv, MatchesAreClaimed
<1> QED BY <1>5, <1>6, <1>7 DEF IInv

(* The invariant holds throughout a merge.                                  *)
LEMMA MergeIInv == MergeSpec => []IInv
<1>1. IInv /\ MergeNext => IInv'
  BY ExactStep, AbsorbStep, NewStep DEF MergeNext, MergeStep
<1>2. IInv /\ UNCHANGED <<mergeVars, known>> => IInv'
  BY DEF mergeVars, IInv, MergeTypeOK, ValidProfile, IsFindingSet, HandledAreKept, HandledCodeIsSeen,
     MatchesAreClaimed, Handled, Kept, StandsFor, Seen, SameFile
<1> QED BY <1>1, <1>2, InitIInv, PTL DEF MergeSpec

-----------------------------------------------------------------------------
(* A merge keeps findings, raws and decisions well formed.                  *)
THEOREM MergeTypeCorrect == MergeSpec => []MergeTypeOK
<1>1. IInv => MergeTypeOK
  BY DEF IInv
<1> QED BY <1>1, MergeIInv, PTL

(* A finding that a report of the round went into absorbs no further one: an *)
(* absorption looks among the unclaimed, and only a new finding stays        *)
(* unclaimed after a report went into it.                                   *)
THEOREM OneCandidateEach == MergeSpec => AbsorbsAtMostOne
<1> DEFINE Adds(d) == d.method = "absorbed" /\ Times(d, decisions') > Times(d, decisions)
           Fresh(d) == \A e \in DOMAIN decisions : e.into = d.into => e.method = "new"
<1>1. ASSUME IInv, MergeNext, NEW d \in DOMAIN decisions', Adds(d)
      PROVE  Fresh(d)
  <2>1. MergeTypeOK
    BY <1>1 DEF IInv
  <2>2. d \in DOMAIN decisions => decisions[d] \in Nat
    BY <2>1 DEF MergeTypeOK, AreDecisions
  <2>3. ASSUME NEW id \in Ids, NEW into \in Ids, NEW m \in {"new", "exact"}, Decide(id, into, m)
        PROVE  FALSE
    <3>1. PICK e \in Decision : e.method = m /\ decisions' = OneMore(decisions, e)
      BY <2>3 DEF Decide, Decision
    <3>2. d \in DOMAIN decisions /\ decisions'[d] = decisions[d]
      BY <1>1, <2>1, <3>1, DecideFacts
    <3> QED BY <1>1, <2>2, <3>2 DEF Times
  <2>4. PICK id \in Ids, best \in DOMAIN mem : Absorb(id, best)
    BY <1>1, <2>3 DEF MergeNext, MergeStep, IngestExact, IngestNew
  <2>5. best \in Ids /\ best \notin claimed /\ Decide(id, best, "absorbed")
    BY <2>1, <2>4 DEF Absorb, PairToJudge, Candidates, MergeTypeOK, IsFindingSet
  <2>6. PICK e \in Decision : e.into = best /\ decisions' = OneMore(decisions, e)
    BY <2>5 DEF Decide, Decision
  <2>7. d = e
    <3>1. /\ DOMAIN decisions' = DOMAIN decisions \cup {e}
          /\ \A x \in DOMAIN decisions \ {e} : decisions'[x] = decisions[x]
      BY <2>1, <2>6, DecideFacts
    <3>2. d # e => d \in DOMAIN decisions /\ decisions'[d] = decisions[d]
      BY <1>1, <3>1
    <3> QED BY <1>1, <2>2, <3>2 DEF Times
  <2> QED BY <1>1, <2>5, <2>6, <2>7 DEF IInv, MatchesAreClaimed
<1>2. ASSUME UNCHANGED <<mergeVars, known>>, NEW d \in DOMAIN decisions', Adds(d), IInv
      PROVE  FALSE
  <2>1. decisions' = decisions /\ decisions[d] \in Nat
    BY <1>2 DEF mergeVars, IInv, MergeTypeOK, AreDecisions
  <2> QED BY <1>2, <2>1 DEF Times
<1>3. IInv /\ [MergeNext]_<<mergeVars, known>> =>
        [\A d \in DOMAIN decisions' : Adds(d) => Fresh(d)]_<<mergeVars, known>>
  BY <1>1, <1>2
<1> QED BY <1>3, MergeIInv, PTL DEF MergeSpec, AbsorbsAtMostOne

(* Once a round is merged, everything it reported has been handled.         *)
LEMMA AllHandled ==
  ASSUME IInv, AllIngested, NEW id \in Ids, scan.raws[id] > 0
  PROVE  Handled(id)
BY DEF AllIngested, NoRaws, Handled

(* Work that code decides is tracked under its own identity.                *)
THEOREM CodeItemsKept == MergeSpec => []CodeItemsStayDistinct
<1>1. IInv => CodeItemsStayDistinct
  BY AllHandled DEF IInv, HandledCodeIsSeen, Seen, CodeItemsStayDistinct
<1> QED BY <1>1, MergeIInv, PTL

(* Nothing a round reports is lost, the staleness rule at its end included.  *)
THEOREM ReportsKept == MergeSpec => []ReportedWorkIsKept
<1>1. ASSUME IInv PROVE ReportedWorkIsKept
  <2> SUFFICES ASSUME AllIngested, NEW id \in Ids, scan.raws[id] > 0
               PROVE  \E d \in DOMAIN decisions :
                        /\ d.id = id /\ d.into \in DOMAIN Merged
                        /\ d.into.rule = id.rule /\ SameFile(d.into, id)
                        /\ Merged[d.into].last >= scan.round
                        /\ Merged[d.into].status \in {"open", "disputed", "wontfix"}
    BY DEF ReportedWorkIsKept
  <2>1. PICK d \in DOMAIN decisions : StandsFor(d, id)
    BY <1>1, AllHandled DEF IInv, HandledAreKept, Kept
  <2> DEFINE kept == d.into
  <2>2. kept \in DOMAIN mem /\ mem[kept] \in Finding /\ scan.round \in Rounds /\ Seen(kept)
    BY <1>1, <2>1 DEF StandsFor, Seen, IInv, MergeTypeOK, IsFindingSet, Scan
  <2>3. ~IsStale(mem[kept], kept, scan)
    BY <2>2, BoundsAssumption DEF IsStale, Seen, Finding, Rounds
  <2>4. DOMAIN Merged = DOMAIN mem /\ Merged[kept] = mem[kept]
    BY <2>2, <2>3 DEF Merged, CloseStale
  <2> QED BY <2>1, <2>2, <2>4 DEF Seen, StandsFor
<1> QED BY <1>1, MergeIInv, PTL

-----------------------------------------------------------------------------
(* The raw-by-raw merge against the fold of a whole round.                  *)

(* What the fold makes of an identity it is handed a report on.             *)
Met(id) == IF id \in DOMAIN known THEN Touch(known[id], scan.round) ELSE NewFinding(scan.round)

AsKnown(id) ==
  /\ id \in DOMAIN mem <=> id \in DOMAIN known
  /\ id \in DOMAIN known => mem[id] = known[id]

CodeAsFolded ==
  \A id \in Ids : id.rule \in profile.exhaustive =>
    IF Handled(id) THEN id \in DOMAIN mem /\ mem[id] = Met(id) ELSE AsKnown(id)

TodoWithinRaws == \A id \in Ids : todo[id] <= scan.raws[id]

FoldInv == IInv /\ IsFindingSet(known) /\ TodoWithinRaws /\ CodeAsFolded

(* What the fold makes of a report has been seen, so a repeat changes        *)
(* nothing.                                                                 *)
LEMMA MetFacts ==
  ASSUME IsFindingSet(known), scan \in Scan, NEW id \in Ids
  PROVE  Touch(Met(id), scan.round) = Met(id)
<1>1. scan.round \in Rounds
  BY DEF Scan
<1>2. PICK r \in Rounds : r = scan.round
  BY <1>1
<1>3. CASE id \in DOMAIN known
  <2>1. PICK f \in Finding : f = known[id]
    BY <1>3 DEF IsFindingSet
  <2>2. Touch(Touch(f, r), r) = Touch(f, r)
    BY TouchTwice
  <2> QED BY <1>2, <1>3, <2>1, <2>2 DEF Met
<1>4. CASE id \notin DOMAIN known
  <2>1. PICK f : f = NewFinding(r)
    OBVIOUS
  <2>2. f \in Finding /\ f.last >= r /\ f.status = "open"
    BY <2>1, NewFindingFacts, BoundsAssumption DEF Rounds
  <2>3. Touch(f, r) = f
    BY <2>2, SeenFacts
  <2> QED BY <1>2, <1>4, <2>1, <2>3 DEF Met
<1> QED BY <1>3, <1>4

(* A step that leaves an identity alone leaves it as folded.                *)
LEMMA OthersAsFolded ==
  ASSUME FoldInv, NEW id \in Ids, id.rule \in profile.exhaustive, UNCHANGED <<scan, known>>,
         Handled(id)' = Handled(id), id \in DOMAIN mem' <=> id \in DOMAIN mem,
         id \in DOMAIN mem => mem'[id] = mem[id]
  PROVE  IF Handled(id)' THEN id \in DOMAIN mem' /\ mem'[id] = Met(id)' ELSE AsKnown(id)'
<1>1. Met(id)' = Met(id)
  BY DEF Met
<1>2. IF Handled(id) THEN id \in DOMAIN mem /\ mem[id] = Met(id) ELSE AsKnown(id)
  BY DEF FoldInv, CodeAsFolded
<1> QED BY <1>1, <1>2 DEF AsKnown

(* The identity a step takes is handled, and the others are where they were. *)
LEMMA TakeHandles ==
  ASSUME FoldInv, NEW id \in Ids, todo[id] > 0, Take(id), UNCHANGED scan
  PROVE  /\ Handled(id)' /\ TodoWithinRaws'
         /\ \A other \in Ids \ {id} : Handled(other)' = Handled(other)
<1>1. /\ todo \in Raws /\ scan.raws \in Raws
      /\ \A other \in Ids : todo[other] <= scan.raws[other]
  BY DEF FoldInv, IInv, MergeTypeOK, Scan, TodoWithinRaws
<1>2. \A other \in Ids : todo[other] \in Nat /\ scan.raws[other] \in Nat
  BY <1>1, MaxCopiesAssumption DEF Raws
<1>3. todo'[id] = todo[id] - 1 /\ \A other \in Ids \ {id} : todo'[other] = todo[other]
  BY <1>1 DEF Take, Raws
<1> QED BY <1>1, <1>2, <1>3 DEF Handled, TodoWithinRaws

(* One step, from what it does to the identity it takes: any entry it        *)
(* touches beside that one is of a rule that is not decided by code.        *)
LEMMA FoldStep ==
  ASSUME FoldInv, IInv', NEW id \in Ids, UNCHANGED <<profile, scan, known>>,
         todo[id] > 0, Take(id), NEW into \in Ids,
         into = id \/ into.rule \notin profile.exhaustive,
         \A other \in Ids \ {into} : /\ other \in DOMAIN mem' <=> other \in DOMAIN mem
                                     /\ other \in DOMAIN mem => mem'[other] = mem[other],
         id.rule \in profile.exhaustive => id \in DOMAIN mem' /\ mem'[id] = Met(id)
  PROVE  FoldInv'
<1>1. /\ Handled(id)' /\ TodoWithinRaws'
      /\ \A other \in Ids \ {id} : Handled(other)' = Handled(other)
  BY TakeHandles
<1>2. ASSUME NEW other \in Ids, other.rule \in profile.exhaustive
      PROVE  IF Handled(other)' THEN other \in DOMAIN mem' /\ mem'[other] = Met(other)'
             ELSE AsKnown(other)'
  <2>1. CASE other = id
    BY <1>1, <1>2, <2>1 DEF Met
  <2>2. CASE other # id
    <3>1. other # into
      BY <1>2, <2>2
    <3> QED BY <1>1, <1>2, <2>2, <3>1, OthersAsFolded
  <2> QED BY <2>1, <2>2
<1>3. CodeAsFolded'
  BY <1>2 DEF CodeAsFolded
<1> QED BY <1>1, <1>3 DEF FoldInv, IsFindingSet

LEMMA FoldExact ==
  ASSUME FoldInv, NEW id \in Ids, IngestExact(id), UNCHANGED known
  PROVE  FoldInv'
<1>1. /\ id \in DOMAIN mem /\ todo[id] > 0 /\ Take(id) /\ UNCHANGED <<profile, scan>>
      /\ mem' = [mem EXCEPT ![id] = Touch(@, scan.round)]
  BY DEF IngestExact
<1>2. IInv'
  BY ExactStep DEF FoldInv
<1>3. ASSUME id.rule \in profile.exhaustive
      PROVE  mem'[id] = Met(id)
  <2>1. mem'[id] = Touch(mem[id], scan.round)
    BY <1>1
  <2>2. IsFindingSet(known) /\ scan \in Scan
    BY DEF FoldInv, IInv, MergeTypeOK
  <2>3. CASE Handled(id)
    <3>1. mem[id] = Met(id)
      BY <1>3, <2>3 DEF FoldInv, CodeAsFolded
    <3> QED BY <2>1, <2>2, <3>1, MetFacts
  <2>4. CASE ~Handled(id)
    <3>1. AsKnown(id)
      BY <1>3, <2>4 DEF FoldInv, CodeAsFolded
    <3> QED BY <1>1, <2>1, <3>1 DEF AsKnown, Met
  <2> QED BY <2>3, <2>4
<1>4. \A other \in Ids \ {id} : /\ other \in DOMAIN mem' <=> other \in DOMAIN mem
                               /\ other \in DOMAIN mem => mem'[other] = mem[other]
  BY <1>1
<1> QED BY <1>1, <1>2, <1>3, <1>4, FoldStep

LEMMA FoldAbsorb ==
  ASSUME FoldInv, NEW id \in Ids, NEW best \in DOMAIN mem, Absorb(id, best), UNCHANGED known
  PROVE  FoldInv'
<1>1. /\ id.rule \notin profile.exhaustive /\ best \in Candidates(id)
      /\ todo[id] > 0 /\ Take(id) /\ UNCHANGED <<profile, scan>>
      /\ mem' = [mem EXCEPT ![best] = Touch(@, scan.round)]
  BY DEF Absorb, PairToJudge
<1>2. IInv' /\ best \in Ids
  BY AbsorbStep DEF FoldInv, IInv, MergeTypeOK, IsFindingSet
<1>3. best.rule \notin profile.exhaustive
  BY <1>1 DEF Candidates
<1>4. \A other \in Ids \ {best} : /\ other \in DOMAIN mem' <=> other \in DOMAIN mem
                                 /\ other \in DOMAIN mem => mem'[other] = mem[other]
  BY <1>1
<1> QED BY <1>1, <1>2, <1>3, <1>4, FoldStep

LEMMA FoldNew ==
  ASSUME FoldInv, NEW id \in Ids, IngestNew(id), UNCHANGED known
  PROVE  FoldInv'
<1>1. /\ id \notin DOMAIN mem /\ todo[id] > 0 /\ Take(id) /\ UNCHANGED <<profile, scan>>
      /\ mem' = Put(mem, id, NewFinding(scan.round))
  BY DEF IngestNew
<1>2. IInv'
  BY NewStep DEF FoldInv
<1>3. PICK new : new = NewFinding(scan.round)
  OBVIOUS
<1>4. /\ DOMAIN mem' = DOMAIN mem \cup {id} /\ mem'[id] = new
      /\ \A other \in DOMAIN mem : mem'[other] = mem[other]
  BY <1>1, <1>3 DEF Put
<1>5. ASSUME id.rule \in profile.exhaustive
      PROVE  mem'[id] = Met(id)
  <2>1. IF Handled(id) THEN id \in DOMAIN mem /\ mem[id] = Met(id) ELSE AsKnown(id)
    BY <1>5 DEF FoldInv, CodeAsFolded
  <2>2. id \notin DOMAIN known
    BY <1>1, <2>1 DEF AsKnown
  <2> QED BY <1>3, <1>4, <2>2 DEF Met
<1> QED BY <1>1, <1>2, <1>4, <1>5, FoldStep

LEMMA InitFoldInv == MergeInit => FoldInv
<1> SUFFICES ASSUME MergeInit PROVE FoldInv
  OBVIOUS
<1>1. IInv /\ mem = known /\ todo = scan.raws /\ scan \in Scan
  BY InitIInv DEF MergeInit
<1>2. \A id \in Ids : todo[id] \in Nat
  BY <1>1, MaxCopiesAssumption DEF Scan, Raws
<1>3. \A id \in Ids : ~Handled(id) /\ AsKnown(id)
  BY <1>1, <1>2 DEF Handled, AsKnown
<1> QED BY <1>1, <1>2, <1>3
        DEF FoldInv, IInv, MergeTypeOK, TodoWithinRaws, CodeAsFolded

LEMMA MergeFoldInv == MergeSpec => []FoldInv
<1>1. FoldInv /\ MergeNext => FoldInv'
  BY FoldExact, FoldAbsorb, FoldNew DEF MergeNext, MergeStep
<1>2. FoldInv /\ UNCHANGED <<mergeVars, known>> => FoldInv'
  <2> SUFFICES ASSUME FoldInv, UNCHANGED <<mergeVars, known>> PROVE FoldInv'
    OBVIOUS
  <2>1. IInv'
    BY DEF FoldInv, mergeVars, IInv, MergeTypeOK, ValidProfile, IsFindingSet, HandledAreKept,
       HandledCodeIsSeen, MatchesAreClaimed, Handled, Kept, StandsFor, Seen, SameFile
  <2>2. TodoWithinRaws' /\ CodeAsFolded' /\ IsFindingSet(known)'
    BY DEF FoldInv, mergeVars, TodoWithinRaws, CodeAsFolded, Handled, Met, AsKnown, IsFindingSet
  <2> QED BY <2>1, <2>2 DEF FoldInv
<1> QED BY <1>1, <1>2, InitFoldInv, PTL DEF MergeSpec

(* What code decides comes out of a merge as if the whole round had been     *)
(* folded in at once.                                                       *)
THEOREM CodeRoundExact == MergeSpec => []CodeRoundIsExact
<1>1. ASSUME FoldInv PROVE CodeRoundIsExact
  <2> DEFINE raws == { id \in Ids : scan.raws[id] > 0 }
             met == Matched(known, raws, scan.round)
             exact == CloseStale(met, scan)
  <2> SUFFICES ASSUME AllIngested, NEW id \in Ids, id.rule \in profile.exhaustive
               PROVE  /\ id \in DOMAIN Merged <=> id \in DOMAIN exact
                      /\ id \in DOMAIN exact => Merged[id] = exact[id]
    BY DEF CodeRoundIsExact
  <2>1. DOMAIN exact = DOMAIN known \cup raws /\ DOMAIN Merged = DOMAIN mem
    BY DEF CloseStale, Matched, Merged
  <2>2. IF Handled(id) THEN id \in DOMAIN mem /\ mem[id] = Met(id) ELSE AsKnown(id)
    BY <1>1 DEF FoldInv, CodeAsFolded
  <2>3. Handled(id) <=> id \in raws
    <3>1. scan.raws[id] \in Nat /\ todo[id] = 0
      BY <1>1, MaxCopiesAssumption
         DEF FoldInv, IInv, MergeTypeOK, Scan, Raws, AllIngested, NoRaws
    <3> QED BY <3>1 DEF Handled
  <2>4. (id \in DOMAIN mem <=> id \in DOMAIN met) /\ (id \in DOMAIN met => mem[id] = met[id])
    BY <2>2, <2>3 DEF Met, AsKnown, Matched
  <2> HIDE DEF met
  <2> QED BY <2>1, <2>4 DEF CloseStale, Merged
<1>2. FoldInv => CodeRoundIsExact
  BY <1>1
<1> QED BY <1>2, MergeFoldInv, PTL
=============================================================================
