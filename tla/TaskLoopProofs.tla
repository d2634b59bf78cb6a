--------------------------- MODULE TaskLoopProofs ---------------------------
(***************************************************************************)
(* What holds of a task for every set of identities, every K and every     *)
(* bound: the type invariant, the safety invariants and the action         *)
(* properties of TaskLoop, from one inductive invariant, Inv.              *)
(***************************************************************************)
EXTENDS TaskLoop, FindingLemmas, FiniteSetTheorems

(* What a merge in progress owes to the findings it started from.           *)
CarriesOver(old, new) ==
  \A id \in DOMAIN old :
    /\ id \in DOMAIN new
    /\ new[id].first = old[id].first
    /\ new[id].last >= old[id].last
    /\ old[id].status \in {"disputed", "wontfix"} => new[id].status = old[id].status
    /\ old[id].status # "disputed" /\ new[id].status = "disputed" => new[id].adjudicated = FALSE

(* Every identity decided to be new is in fs, first seen in round r.         *)
NewOnesIn(fs, r) ==
  \A d \in DOMAIN decisions : d.method = "new" => d.id \in DOMAIN fs /\ fs[d.id].first = r

WithinGuard(fs) ==
  \A id \in DOMAIN fs \ Foreign :
    fs[id].status \in {"open", "fixed", "lapsed"} => fs[id].reopens <= MaxReopens

RoundOnDisk == pc \in {"ingest", "merge", "record"} => scan.round \in scanned
MemCarriesOver == pc = "merge" => CarriesOver(findings, mem)
MemHasNewOnes == pc = "merge" => NewOnesIn(mem, scan.round)
MemWithinGuard == pc = "merge" => WithinGuard(mem)
SavedNewOnes == pc = "record" => NewOnesIn(findings, scan.round)

Inv ==
  /\ TypeOK /\ RoundOnDisk
  /\ MemCarriesOver /\ MemHasNewOnes /\ MemWithinGuard /\ SavedNewOnes
  /\ RecordsMatchFindings /\ GuardHolds

(* A ruling on a pending dispute keeps it, reopens it with the count reset,  *)
(* or retires it.                                                           *)
LEMMA RuleFacts ==
  ASSUME NEW f \in Finding, NEW c \in {"accept", "reopen", "wontfix", "skip"}
  PROVE  /\ Rule(f, c) \in Finding
         /\ Rule(f, c).first = f.first /\ Rule(f, c).last = f.last
         /\ \/ Rule(f, c).status = f.status /\ Rule(f, c).reopens = f.reopens
            \/ Rule(f, c).status = "open" /\ Rule(f, c).reopens <= MaxReopens
            \/ Rule(f, c).status = "wontfix"
<1>1. CASE c = "accept"
  BY <1>1 DEF Rule, Finding, Statuses
<1>2. CASE c = "reopen"
  <2>1. 0 <= MaxReopens /\ 0 \in 0 .. MaxReopens + 1
    BY BoundsAssumption
  <2>2. Rule(f, c) = [f EXCEPT !.status = "open", !.adjudicated = FALSE, !.reopens = 0]
    BY <1>2 DEF Rule
  <2> QED BY <2>1, <2>2 DEF Finding, Statuses
<1>3. CASE c = "wontfix"
  BY <1>3 DEF Rule, WontFix, Finding, Statuses
<1>4. CASE c = "skip"
  BY <1>4 DEF Rule
<1> QED BY <1>1, <1>2, <1>3, <1>4

-----------------------------------------------------------------------------
(* The inductive invariant, one lemma for each kind of step.                *)

(* A task without findings, rounds or records satisfies the invariant.      *)
LEMMA InitInv == Init => Inv
<1> SUFFICES ASSUME Init PROVE Inv
  OBVIOUS
<1>1. IsFindingSet(NoFindings) /\ DOMAIN NoFindings = {}
  BY DEF NoFindings, IsFindingSet
<1>2. AreRecords(records) /\ DOMAIN records = {}
  BY DEF Init, AreRecords
<1>3. NoRaws \in Raws
  BY MaxCopiesAssumption DEF NoRaws, Raws
<1>4. NoScan \in Scan
  BY <1>3, BoundsAssumption DEF NoScan, Scan, Rounds
<1>5. AreDecisions(NoDecisions)
  BY DEF AreDecisions, NoDecisions
<1> QED
  BY <1>1, <1>2, <1>3, <1>4, <1>5, ProfilesAssumption
  DEF Init, Inv, TypeOK, MergeTypeOK, RoundOnDisk, MemCarriesOver, MemHasNewOnes,
      MemWithinGuard, SavedNewOnes, RecordsMatchFindings, GuardHolds

(* A step that touches neither the disk nor a merge.                        *)
LEMMA QuietStep ==
  ASSUME Inv, UNCHANGED <<mergeVars, disk>>, mode' \in {"cmd", "run", "no_fix"},
         pc' \in {"idle", "gate", "scan"}
  PROVE  Inv'
BY DEF Inv, mergeVars, disk, TypeOK, MergeTypeOK, ValidProfile, IsFindingSet, AreRecords,
       RoundOnDisk, MemCarriesOver, MemHasNewOnes, MemWithinGuard, SavedNewOnes,
       RecordsMatchFindings, GuardHolds

(* A step that leaves memory empty and the findings alone; it may write a    *)
(* run file.                                                                *)
LEMMA ScanStep ==
  ASSUME Inv, NEW n \in Rounds, ScanCommand(n) \/ RunScan(n)
  PROVE  Inv'
<1>1. scanned' = scanned \cup {n} /\ UNCHANGED <<findings, records, profile, mem, todo, claimed, decisions>>
  BY DEF ScanCommand, RunScan, mergeVars
<1>2. scan' \in Scan
  <2>1. scan \in Scan
    BY DEF Inv, TypeOK, MergeTypeOK
  <2>2. [scan EXCEPT !.round = n] \in Scan
    BY <2>1 DEF Scan
  <2> QED BY <2>1, <2>2 DEF ScanCommand, RunScan, mergeVars
<1>3. /\ pc' \in {"idle", "ingest"} /\ mode' \in {"cmd", "run", "no_fix"}
      /\ pc' = "ingest" => scan'.round = n
  <2>1. CASE ScanCommand(n)
    BY <2>1 DEF ScanCommand, Idle, Inv, TypeOK
  <2>2. CASE RunScan(n)
    <3>1. scan \in Scan
      BY DEF Inv, TypeOK, MergeTypeOK
    <3> QED BY <2>2, <3>1 DEF RunScan, Exit, Scan, Inv, TypeOK
  <2> QED BY <2>1, <2>2
<1>4. TypeOK'
  BY <1>1, <1>2, <1>3 DEF Inv, TypeOK, MergeTypeOK, ValidProfile, IsFindingSet, AreRecords
<1> QED
  BY <1>1, <1>3, <1>4
  DEF Inv, RoundOnDisk, MemCarriesOver, MemHasNewOnes, MemWithinGuard, SavedNewOnes,
      RecordsMatchFindings, GuardHolds

(* A merge starts from findings.jsonl, so it owes nothing yet.              *)
LEMMA StartIngestStep ==
  ASSUME Inv, NEW r \in Rounds, NEW ok \in BOOLEAN, NEW raws \in Raws,
         StartIngest(r, ok, raws)
  PROVE  Inv'
<1>1. r \in scanned
  BY DEF StartIngest, Inv, RoundOnDisk
<1>2. scan' \in Scan /\ scan'.round = r
  BY DEF StartIngest, Scan
<1>d. AreDecisions(decisions') /\ DOMAIN decisions' = {}
  BY DEF StartIngest, AreDecisions, NoDecisions
<1>3. TypeOK'
  BY <1>2, <1>d DEF StartIngest, disk, Inv, TypeOK, MergeTypeOK, ValidProfile, IsFindingSet, AreRecords
<1>4. MemCarriesOver'
  <2>1. ASSUME NEW id \in DOMAIN findings PROVE findings[id].last >= findings[id].last
    BY DEF Inv, TypeOK, IsFindingSet, Finding, Rounds
  <2> QED BY <2>1 DEF StartIngest, disk, MemCarriesOver, CarriesOver
<1>5. MemHasNewOnes' /\ MemWithinGuard' /\ SavedNewOnes' /\ RoundOnDisk'
  BY <1>1, <1>2, <1>d DEF StartIngest, disk, Inv, GuardHolds, MemHasNewOnes, NewOnesIn,
     MemWithinGuard, WithinGuard, SavedNewOnes, RoundOnDisk
<1> QED BY <1>3, <1>4, <1>5 DEF StartIngest, disk, Inv, RecordsMatchFindings, GuardHolds

(* Merging keeps the type of the merge's own state.                         *)
LEMMA TakeType ==
  ASSUME MergeTypeOK, NEW id \in Ids, todo[id] > 0, Take(id)
  PROVE  todo' \in Raws
<1>1. todo[id] \in 0 .. MaxCopies
  BY DEF MergeTypeOK, Raws
<1>2. todo[id] - 1 \in 0 .. MaxCopies
  BY <1>1, MaxCopiesAssumption
<1> QED BY <1>2 DEF Take, Raws, MergeTypeOK

(* The record grows by what was decided and by nothing else.                *)
LEMMA DecideFacts ==
  ASSUME MergeTypeOK, NEW d \in Decision, decisions' = OneMore(decisions, d)
  PROVE  AreDecisions(decisions') /\ DOMAIN decisions' = DOMAIN decisions \cup {d}
<1>1. decisions \in [DOMAIN decisions -> Nat \ {0}] /\ DOMAIN decisions \subseteq Decision
  BY DEF MergeTypeOK, AreDecisions
<1> QED BY <1>1 DEF AreDecisions, OneMore, Put, Times

(* Re-deriving one finding in memory.                                       *)
LEMMA TouchInMem ==
  ASSUME Inv, pc = "merge", UNCHANGED findings, NEW t \in DOMAIN mem,
         mem' = [mem EXCEPT ![t] = Touch(@, scan.round)]
  PROVE  /\ IsFindingSet(mem') /\ DOMAIN mem' = DOMAIN mem
         /\ \A id \in DOMAIN mem : mem'[id].first = mem[id].first
         /\ CarriesOver(findings', mem')
         /\ WithinGuard(mem')
<1>1. IsFindingSet(mem) /\ scan.round \in Rounds
  BY DEF Inv, TypeOK, MergeTypeOK, Scan
<1>2. mem[t] \in Finding
  BY <1>1 DEF IsFindingSet
<1>3. mem'[t] = Touch(mem[t], scan.round) /\ \A id \in DOMAIN mem \ {t} : mem'[id] = mem[id]
  OBVIOUS
<1>4. mem'[t] \in Finding /\ mem'[t].first = mem[t].first /\ mem'[t].last >= mem[t].last
  BY <1>1, <1>2, <1>3, TouchFacts
<1>5. IsFindingSet(mem') /\ DOMAIN mem' = DOMAIN mem
  BY <1>1, <1>3, <1>4 DEF IsFindingSet
<1>6. CarriesOver(findings, mem) /\ WithinGuard(mem) /\ IsFindingSet(findings)
  BY DEF Inv, MemCarriesOver, MemWithinGuard, TypeOK
<1>7. CarriesOver(findings', mem')
  <2> SUFFICES ASSUME NEW id \in DOMAIN findings
               PROVE  /\ id \in DOMAIN mem'
                      /\ mem'[id].first = findings[id].first
                      /\ mem'[id].last >= findings[id].last
                      /\ findings[id].status \in {"disputed", "wontfix"} =>
                           mem'[id].status = findings[id].status
                      /\ findings[id].status # "disputed" /\ mem'[id].status = "disputed" =>
                           mem'[id].adjudicated = FALSE
    BY DEF CarriesOver
  <2>1. CASE id # t
    BY <1>3, <1>5, <1>6, <2>1 DEF CarriesOver
  <2>2. CASE id = t
    <3>1. mem[t].status \in Statuses /\ mem[t].last \in Nat /\ mem'[t].last \in Nat
           /\ findings[t].last \in Nat
      BY <1>2, <1>4, <1>6, <2>2 DEF Finding, Rounds, IsFindingSet
    <3>2. /\ mem[t].first = findings[t].first
          /\ mem[t].last >= findings[t].last
          /\ findings[t].status \in {"disputed", "wontfix"} => mem[t].status = findings[t].status
          /\ findings[t].status # "disputed" /\ mem[t].status = "disputed" => mem[t].adjudicated = FALSE
      BY <1>6, <2>2 DEF CarriesOver
    <3>3. mem'[t].last >= findings[t].last
      BY <1>4, <3>1, <3>2
    <3>4. CASE mem[t].status \in {"open", "disputed", "wontfix"}
      <4>1. mem'[t].status = mem[t].status /\ mem'[t].adjudicated = mem[t].adjudicated
        BY <1>1, <1>2, <1>3, <3>4, TouchFacts
      <4> QED BY <1>4, <1>5, <2>2, <3>2, <3>3, <4>1
    <3>5. CASE mem[t].status \in {"fixed", "verified", "lapsed"}
      <4>1. PICK g : g = Touch(mem[t], scan.round)
        OBVIOUS
      <4>2. g.status = "open" \/ (g.status = "disputed" /\ g.adjudicated = FALSE)
        BY <1>1, <1>2, <3>5, <4>1, TouchFacts
      <4>3. mem'[t] = g
        BY <1>3, <4>1
      <4> QED BY <1>4, <1>5, <2>2, <3>2, <3>3, <3>5, <4>2, <4>3
    <3> QED BY <3>1, <3>4, <3>5 DEF Statuses
  <2> QED BY <2>1, <2>2
<1>8. WithinGuard(mem')
  <2> SUFFICES ASSUME NEW id \in DOMAIN mem \ Foreign,
                      mem'[id].status \in {"open", "fixed", "lapsed"}
               PROVE  mem'[id].reopens <= MaxReopens
    BY <1>5 DEF WithinGuard
  <2>1. CASE id # t
    BY <1>3, <1>6, <2>1 DEF WithinGuard
  <2>2. CASE id = t /\ mem[t].status \in {"open", "disputed", "wontfix"}
    BY <1>1, <1>2, <1>3, <1>6, <2>2, TouchFacts DEF WithinGuard
  <2>3. CASE id = t /\ mem[t].status \in {"fixed", "verified", "lapsed"}
    BY <1>1, <1>2, <1>3, <2>3, TouchFacts
  <2>4. mem[t].status \in Statuses
    BY <1>2 DEF Finding
  <2> QED BY <2>1, <2>2, <2>3, <2>4 DEF Statuses
<1> QED BY <1>3, <1>4, <1>5, <1>7, <1>8

(* Both ways of matching an existing finding: exactly or by absorption.     *)
LEMMA MatchStep ==
  ASSUME Inv, pc = "merge", UNCHANGED <<disk, pc, mode, profile, scan>>,
         NEW id \in Ids, NEW t \in DOMAIN mem, todo[id] > 0, Take(id),
         claimed' = claimed \cup {t},
         mem' = [mem EXCEPT ![t] = Touch(@, scan.round)],
         Decide(id, t, "exact") \/ Decide(id, t, "absorbed")
  PROVE  Inv'
<1>1. MergeTypeOK /\ t \in Ids
  BY DEF Inv, TypeOK, MergeTypeOK, IsFindingSet
<1>2. /\ IsFindingSet(mem') /\ DOMAIN mem' = DOMAIN mem
      /\ \A other \in DOMAIN mem : mem'[other].first = mem[other].first
      /\ CarriesOver(findings', mem')
      /\ WithinGuard(mem')
  BY TouchInMem DEF disk
<1>d. PICK d0 \in Decision : d0.method # "new" /\ decisions' = OneMore(decisions, d0)
  BY <1>1 DEF Decide, Decision
<1>3. /\ todo' \in Raws /\ AreDecisions(decisions')
      /\ DOMAIN decisions' = DOMAIN decisions \cup {d0}
  BY <1>1, <1>d, TakeType, DecideFacts
<1>4. TypeOK'
  BY <1>1, <1>2, <1>3 DEF disk, Inv, TypeOK, MergeTypeOK, ValidProfile, IsFindingSet, AreRecords
<1>5. \A d \in DOMAIN decisions' : d.method = "new" => d \in DOMAIN decisions
  BY <1>d, <1>3
<1>6. MemHasNewOnes'
  BY <1>1, <1>2, <1>5 DEF Inv, MemHasNewOnes, NewOnesIn
<1> QED
  BY <1>2, <1>4, <1>6 DEF disk, Inv, RoundOnDisk, MemCarriesOver, MemWithinGuard,
     SavedNewOnes, RecordsMatchFindings, GuardHolds

(* Adding a finding no candidate matched.                                   *)
LEMMA NewStep ==
  ASSUME Inv, pc = "merge", UNCHANGED <<disk, pc, mode>>, NEW id \in Ids, IngestNew(id)
  PROVE  Inv'
<1>1. MergeTypeOK /\ IsFindingSet(mem) /\ scan.round \in Rounds
  BY DEF Inv, TypeOK, MergeTypeOK, Scan
<1>2. NewFinding(scan.round) \in Finding /\ NewFinding(scan.round).first = scan.round
  BY <1>1, NewFindingFacts
<1>3. /\ IsFindingSet(mem')
      /\ DOMAIN mem' = DOMAIN mem \cup {id}
      /\ mem'[id] = NewFinding(scan.round)
      /\ \A other \in DOMAIN mem : mem'[other] = mem[other]
  <2>1. mem' = Put(mem, id, NewFinding(scan.round)) /\ id \notin DOMAIN mem
    BY DEF IngestNew
  <2>2. LET new == Put(mem, id, NewFinding(scan.round))
        IN  /\ IsFindingSet(new)
            /\ DOMAIN new = DOMAIN mem \cup {id}
            /\ new[id] = NewFinding(scan.round)
            /\ \A other \in DOMAIN mem \ {id} : new[other] = mem[other]
    BY <1>1, <1>2, PutFacts, Zenon
  <2> QED BY <2>1, <2>2
<1>d. PICK d0 \in Decision : d0.id = id /\ decisions' = OneMore(decisions, d0)
  BY DEF IngestNew, Decide, Decision
<1>4. /\ todo' \in Raws /\ AreDecisions(decisions')
      /\ DOMAIN decisions' = DOMAIN decisions \cup {d0}
  BY <1>1, <1>d, TakeType, DecideFacts DEF IngestNew
<1>5. TypeOK'
  BY <1>1, <1>3, <1>4
  DEF disk, IngestNew, Inv, TypeOK, MergeTypeOK, ValidProfile, IsFindingSet, AreRecords
<1>6. MemHasNewOnes'
  <2>1. \A d \in DOMAIN decisions' : d \in DOMAIN decisions \/ d.id = id
    BY <1>d, <1>4
  <2> QED BY <1>2, <1>3, <2>1 DEF IngestNew, Inv, MemHasNewOnes, NewOnesIn
<1>7. MemCarriesOver'
  BY <1>3 DEF disk, Inv, MemCarriesOver, CarriesOver
<1>8. MemWithinGuard'
  <2>1. mem'[id].reopens <= MaxReopens
    BY <1>3, BoundsAssumption DEF NewFinding
  <2> QED BY <1>3, <2>1 DEF Inv, MemWithinGuard, WithinGuard
<1> QED
  BY <1>5, <1>6, <1>7, <1>8
  DEF disk, IngestNew, Inv, RoundOnDisk, SavedNewOnes, RecordsMatchFindings, GuardHolds

(* Every way of ingesting one raw finding.                                  *)
LEMMA MergingStep == Inv /\ Merging => Inv'
<1> SUFFICES ASSUME Inv, Merging PROVE Inv'
  OBVIOUS
<1>1. pc = "merge" /\ UNCHANGED <<disk, pc, mode>>
  BY DEF Merging
<1>2. PICK id \in Ids :
         IngestExact(id) \/ (\E best \in DOMAIN mem : Absorb(id, best)) \/ IngestNew(id)
  BY DEF Merging, MergeStep
<1>3. CASE IngestExact(id)
  BY <1>1, <1>3, MatchStep DEF IngestExact
<1>4. CASE \E best \in DOMAIN mem : Absorb(id, best)
  <2>1. PICK best \in DOMAIN mem : Absorb(id, best)
    BY <1>4
  <2> QED BY <1>1, <2>1, MatchStep DEF Absorb
<1>5. CASE IngestNew(id)
  BY <1>1, <1>5, NewStep
<1> QED BY <1>2, <1>3, <1>4, <1>5

(* Writing findings.jsonl at the end of a merge.                            *)
LEMMA SaveFindingsStep ==
  ASSUME Inv, SaveFindings
  PROVE  Inv' /\ KeepsFindings /\ KeepsRulings /\ NewDisputesPending
<1>1. /\ pc = "merge" /\ pc' = "record" /\ findings' = CloseStale(mem, scan)
      /\ UNCHANGED <<mergeVars, scanned, records, mode>>
  BY DEF SaveFindings, Merged
<1>2. /\ IsFindingSet(mem) /\ IsFindingSet(findings) /\ scan \in Scan
      /\ CarriesOver(findings, mem) /\ NewOnesIn(mem, scan.round) /\ WithinGuard(mem)
  BY <1>1 DEF Inv, TypeOK, MergeTypeOK, MemCarriesOver, MemHasNewOnes, MemWithinGuard
<1>3. /\ IsFindingSet(findings')
      /\ DOMAIN findings' = DOMAIN mem
      /\ \A id \in DOMAIN mem :
           /\ findings'[id].first = mem[id].first
           /\ findings'[id].last = mem[id].last
           /\ findings'[id].reopens = mem[id].reopens
           /\ findings'[id].adjudicated = mem[id].adjudicated
           /\ \/ findings'[id].status = mem[id].status
              \/ /\ mem[id].status \in {"open", "fixed"}
                 /\ findings'[id].status \in {"verified", "lapsed"}
  BY <1>1, <1>2, CloseStaleFacts
<1>4. CarriesOver(findings, findings')
  BY <1>2, <1>3 DEF CarriesOver
<1>5. TypeOK'
  BY <1>1, <1>3 DEF Inv, mergeVars, TypeOK, MergeTypeOK, ValidProfile, IsFindingSet, AreRecords
<1>6. RecordsMatchFindings'
  BY <1>1, <1>4 DEF Inv, RecordsMatchFindings, CarriesOver
<1>7. GuardHolds'
  BY <1>2, <1>3 DEF GuardHolds, WithinGuard
<1>8. SavedNewOnes'
  BY <1>1, <1>2, <1>3 DEF mergeVars, SavedNewOnes, NewOnesIn
<1>9. RoundOnDisk' /\ MemCarriesOver' /\ MemHasNewOnes' /\ MemWithinGuard'
  BY <1>1 DEF Inv, mergeVars, RoundOnDisk, MemCarriesOver, MemHasNewOnes, MemWithinGuard
<1>10. KeepsFindings /\ KeepsRulings /\ NewDisputesPending
  BY <1>4 DEF CarriesOver, KeepsFindings, KeepsRulings, NewDisputesPending
<1> QED BY <1>5, <1>6, <1>7, <1>8, <1>9, <1>10 DEF Inv

(* The memory of a command that ended is that of one that never ran.        *)
LEMMA DropFacts ==
  ASSUME DropMerge
  PROVE  /\ scan' \in Scan /\ IsFindingSet(mem') /\ todo' \in Raws
         /\ claimed' \subseteq DOMAIN mem' /\ AreDecisions(decisions')
<1>1. IsFindingSet(NoFindings) /\ NoRaws \in Raws
  BY MaxCopiesAssumption DEF NoFindings, IsFindingSet, NoRaws, Raws
<1>2. NoScan \in Scan
  BY <1>1, BoundsAssumption DEF NoScan, Scan, Rounds
<1>3. AreDecisions(NoDecisions)
  BY DEF AreDecisions, NoDecisions
<1> QED BY <1>1, <1>2, <1>3 DEF DropMerge

(* Writing the record after them.                                           *)
LEMMA SaveRecordStep ==
  ASSUME Inv, SaveRecord
  PROVE  Inv'
<1>1. /\ pc = "record" /\ records' = Put(records, scan.round, RunRecord)
      /\ pc' \in {"idle", "fix", "gate"} /\ DropMerge
      /\ UNCHANGED <<profile, findings, scanned, mode>>
  BY DEF SaveRecord, Proceed
<1>2. /\ scan.round \in scanned /\ scan.round \in Rounds /\ scan.ok \in BOOLEAN
      /\ AreDecisions(decisions) /\ AreRecords(records) /\ DOMAIN records \subseteq scanned
      /\ NewOnesIn(findings, scan.round)
  BY <1>1 DEF Inv, TypeOK, MergeTypeOK, RoundOnDisk, SavedNewOnes, Scan
<1>3. RunRecord \in Record
  BY <1>2 DEF RunRecord, Record, AreDecisions, Decision
<1>4. AreRecords(records') /\ DOMAIN records' = DOMAIN records \cup {scan.round}
  BY <1>1, <1>2, <1>3 DEF AreRecords, Put
<1>5. \A id \in RunRecord.new : id \in DOMAIN findings /\ findings[id].first = scan.round
  BY <1>2 DEF RunRecord, NewOnesIn
<1>6. RecordsMatchFindings'
  BY <1>1, <1>2, <1>4, <1>5 DEF Inv, RecordsMatchFindings, Put
<1>7. TypeOK'
  BY <1>1, <1>2, <1>4, DropFacts DEF Inv, TypeOK, MergeTypeOK, ValidProfile, IsFindingSet
<1> QED
  BY <1>1, <1>6, <1>7 DEF Inv, RoundOnDisk, MemCarriesOver, MemHasNewOnes, MemWithinGuard,
     SavedNewOnes, GuardHolds

(* A command that rewrites findings outside a merge, one finding at a time.  *)
LEMMA UpdateStep ==
  ASSUME Inv, UNCHANGED <<scan, mem, todo, claimed, decisions, scanned, records>>,
         ValidProfile(profile'), pc \notin {"merge", "record"},
         pc' \in {"idle", "gate", "verify"}, mode' \in {"cmd", "run", "no_fix"},
         DOMAIN findings' = DOMAIN findings,
         findings' \in [DOMAIN findings -> Finding],
         \A id \in DOMAIN findings :
           findings'[id].first = findings[id].first /\ findings'[id].last = findings[id].last,
         WithinGuard(findings')
  PROVE  Inv' /\ KeepsFindings
<1>1. IsFindingSet(findings')
  BY DEF Inv, TypeOK, IsFindingSet
<1>2. TypeOK'
  BY <1>1 DEF Inv, TypeOK, MergeTypeOK, IsFindingSet, AreRecords
<1>3. KeepsFindings
  <2>1. \A id \in DOMAIN findings : findings[id].last \in Nat
    BY DEF Inv, TypeOK, IsFindingSet, Finding, Rounds
  <2> QED BY <2>1 DEF KeepsFindings
<1> QED
  BY <1>2, <1>3 DEF Inv, RoundOnDisk, MemCarriesOver, MemHasNewOnes, MemWithinGuard,
     SavedNewOnes, RecordsMatchFindings, GuardHolds, WithinGuard

(* A fix moves open findings it was sent to, and what agents name besides.  *)
LEMMA FixStep ==
  ASSUME Inv, NEW named \in SUBSET DOMAIN findings, Fix(named)
  PROVE  Inv' /\ KeepsFindings /\ KeepsRulings /\ NewDisputesPending
<1>1. PICK outcome \in [named -> {"fixed", "disputed"}] :
         findings' = [id \in DOMAIN findings |->
                        IF id \in named THEN Apply(findings[id], outcome[id]) ELSE findings[id]]
  BY DEF Fix
<1>2. /\ pc \in {"idle", "fix"} /\ pc' \in {"idle", "verify"} /\ mode' = mode
      /\ UNCHANGED <<mergeVars, scanned, records>>
      /\ \A id \in named \ Foreign : findings[id].status = "open"
  BY DEF Fix, Idle, Proceed, Nameable, Workable
<1>3. ASSUME NEW id \in DOMAIN findings
      PROVE  /\ findings'[id] \in Finding
             /\ findings'[id].first = findings[id].first
             /\ findings'[id].last = findings[id].last
             /\ \/ findings'[id] = findings[id]
                \/ id \in named /\ findings'[id].status = "disputed"
                                /\ findings'[id].adjudicated = FALSE
                \/ id \in named /\ findings'[id].status = "fixed"
                                /\ findings'[id].reopens = findings[id].reopens
  <2>1. findings[id] \in Finding
    BY DEF Inv, TypeOK, IsFindingSet
  <2>2. CASE id \in named /\ outcome[id] = "fixed"
    BY <1>1, <2>1, <2>2 DEF Apply, Finding, Statuses
  <2>3. CASE id \in named /\ outcome[id] = "disputed"
    <3>1. findings'[id] = Dispute(findings[id])
      BY <1>1, <2>3 DEF Apply
    <3> QED BY <2>1, <2>3, <3>1, DisputeFacts
  <2>4. CASE id \notin named
    BY <1>1, <2>1, <2>4
  <2> QED BY <1>1, <2>2, <2>3, <2>4
<1>4. WithinGuard(findings')
  BY <1>1, <1>2, <1>3 DEF Inv, GuardHolds, WithinGuard
<1>5. KeepsRulings
  BY <1>2, <1>3 DEF KeepsRulings
<1>6. NewDisputesPending
  BY <1>3 DEF NewDisputesPending
<1>7. ValidProfile(profile') /\ mode' \in {"cmd", "run", "no_fix"}
  BY <1>2 DEF Inv, TypeOK, MergeTypeOK, mergeVars
<1>8. findings' \in [DOMAIN findings -> Finding]
  BY <1>1, <1>3
<1>9. Inv' /\ KeepsFindings
  BY <1>1, <1>2, <1>3, <1>4, <1>7, <1>8, UpdateStep DEF mergeVars
<1> QED BY <1>5, <1>6, <1>9

(* Verify moves fixed findings only.                                        *)
LEMMA VerifyStep ==
  ASSUME Inv, Verify
  PROVE  Inv' /\ KeepsFindings /\ KeepsRulings /\ NewDisputesPending
<1>1. PICK v \in Verdicts :
         findings' = [id \in DOMAIN findings |-> Judge(findings[id], v[id])]
  BY DEF Verify
<1>2. /\ pc \in {"idle", "verify"} /\ pc' \in {"idle", "gate"} /\ mode' = mode
      /\ UNCHANGED <<mergeVars, scanned, records>>
  BY DEF Verify, Idle, Proceed
<1>3. ASSUME NEW id \in DOMAIN findings
      PROVE  /\ findings'[id] \in Finding
             /\ findings'[id].first = findings[id].first
             /\ findings'[id].last = findings[id].last
             /\ \/ findings'[id] = findings[id]
                \/ /\ findings[id].status = "fixed"
                   /\ \/ findings'[id].status = "verified"
                      \/ findings'[id].status = "open" /\ findings'[id].reopens <= MaxReopens
                      \/ findings'[id].status = "disputed" /\ findings'[id].adjudicated = FALSE
  <2>1. findings[id] \in Finding /\ findings'[id] = Judge(findings[id], v[id])
    BY <1>1 DEF Inv, TypeOK, IsFindingSet
  <2>2. /\ v[id] \in {"verified", "reopened", "deferred"}
        /\ v[id] # "deferred" => findings[id].status = "fixed"
    BY DEF Verdicts
  <2>3. CASE v[id] = "deferred"
    BY <2>1, <2>3, JudgeFacts
  <2>4. CASE v[id] # "deferred"
    <3>1. PICK g : g = Judge(findings[id], v[id])
      OBVIOUS
    <3>2. /\ g \in Finding /\ g.first = findings[id].first /\ g.last = findings[id].last
          /\ \/ g.status = "verified"
             \/ g.status = "open" /\ g.reopens <= MaxReopens
             \/ g.status = "disputed" /\ g.adjudicated = FALSE
      BY <2>1, <2>2, <2>4, <3>1, JudgeFacts
    <3> QED BY <2>1, <2>2, <2>4, <3>1, <3>2
  <2> QED BY <2>3, <2>4
<1>4. WithinGuard(findings')
  BY <1>1, <1>3 DEF Inv, GuardHolds, WithinGuard
<1>5. KeepsRulings
  BY <1>3 DEF KeepsRulings
<1>6. NewDisputesPending
  BY <1>3 DEF NewDisputesPending
<1>7. ValidProfile(profile') /\ mode' \in {"cmd", "run", "no_fix"}
  BY <1>2 DEF Inv, TypeOK, MergeTypeOK, mergeVars
<1>8. findings' \in [DOMAIN findings -> Finding]
  BY <1>1, <1>3
<1>9. Inv' /\ KeepsFindings
  BY <1>1, <1>2, <1>3, <1>4, <1>7, <1>8, UpdateStep DEF mergeVars
<1> QED BY <1>5, <1>6, <1>9

(* What the deciders settle, and what adjudicate makes of one finding after. *)
LEMMA SettleFacts ==
  ASSUME NEW fs, NEW settled, fs \in [DOMAIN fs -> Finding]
  PROVE  /\ DOMAIN Settle(fs, settled) = DOMAIN fs
         /\ \A id \in DOMAIN fs :
              /\ Settle(fs, settled)[id] \in Finding
              /\ Settle(fs, settled)[id].first = fs[id].first
              /\ Settle(fs, settled)[id].last = fs[id].last
              /\ \/ Settle(fs, settled)[id] = fs[id]
                 \/ Settle(fs, settled)[id].status = "verified"
<1>1. DOMAIN Settle(fs, settled) = DOMAIN fs
  BY DEF Settle
<1>2. ASSUME NEW id \in DOMAIN fs
      PROVE  /\ Settle(fs, settled)[id] \in Finding
             /\ Settle(fs, settled)[id].first = fs[id].first
             /\ Settle(fs, settled)[id].last = fs[id].last
             /\ \/ Settle(fs, settled)[id] = fs[id]
                \/ Settle(fs, settled)[id].status = "verified"
  <2>1. CASE id \in settled
    <3>1. Settle(fs, settled)[id] = [fs[id] EXCEPT !.status = "verified", !.adjudicated = TRUE]
      BY <2>1 DEF Settle
    <3> QED BY <3>1 DEF Finding, Statuses
  <2>2. CASE id \notin settled
    BY <2>2 DEF Settle
  <2> QED BY <2>1, <2>2
<1> QED BY <1>1, <1>2

(* Adjudicate closes, keeps or reopens pending disputes and drops stray     *)
(* ones.                                                                    *)
LEMMA AdjudicateStep ==
  ASSUME Inv, Triage
  PROVE  Inv' /\ KeepsFindings /\ NewDisputesPending
<1>1. PICK settled \in SUBSET Settleable, adopted \in SUBSET DOMAIN findings,
           dropped \in SUBSET DOMAIN findings, saved \in BOOLEAN :
         Adjudicate(settled, adopted, dropped, saved)
  BY DEF Triage
<1>2. /\ pc = "idle" /\ UNCHANGED <<scan, mem, todo, claimed, decisions, scanned, records, pc, mode>>
  BY DEF Triage, Idle
<1> DEFINE kept == Settle(findings, settled)
           disputes == DisputedPending(kept)
           afterBucket(id) == IF id \in dropped THEN WontFix(kept[id]) ELSE kept[id]
<1>3. PICK choice \in [disputes -> {"accept", "reopen", "wontfix", "skip"}] :
         findings' = IF ~saved THEN kept
                     ELSE [id \in DOMAIN kept |->
                            IF id \in disputes THEN Rule(afterBucket(id), choice[id])
                                               ELSE afterBucket(id)]
  BY <1>1, Zenon DEF Adjudicate
<1>4. findings \in [DOMAIN findings -> Finding] /\ DOMAIN findings \subseteq Ids
  BY DEF Inv, TypeOK, IsFindingSet
<1>5. /\ DOMAIN kept = DOMAIN findings
      /\ \A id \in DOMAIN findings :
           /\ kept[id] \in Finding
           /\ kept[id].first = findings[id].first
           /\ kept[id].last = findings[id].last
           /\ kept[id] = findings[id] \/ kept[id].status = "verified"
  BY <1>4, SettleFacts
<1>6. \A id \in disputes : id \in DOMAIN kept /\ kept[id].status = "disputed"
  BY DEF DisputedPending, Pending
<1> HIDE DEF kept, disputes
<1>7. ASSUME NEW id \in DOMAIN findings
      PROVE  /\ afterBucket(id) \in Finding
             /\ afterBucket(id).first = findings[id].first
             /\ afterBucket(id).last = findings[id].last
             /\ afterBucket(id) = kept[id] \/ afterBucket(id).status = "wontfix"
  BY <1>5, <1>7 DEF WontFix, Finding, Statuses
<1> HIDE DEF afterBucket
<1>8. ASSUME NEW id \in DOMAIN findings
      PROVE  /\ findings'[id] \in Finding
             /\ findings'[id].first = findings[id].first
             /\ findings'[id].last = findings[id].last
             /\ \/ findings'[id] = findings[id]
                \/ findings'[id].status \in {"verified", "wontfix"}
                \/ findings'[id].status = "open" /\ findings'[id].reopens <= MaxReopens
                \/ findings'[id].status = "disputed" /\ findings[id].status = "disputed"
  <2>1. CASE ~saved
    BY <1>3, <1>5, <2>1
  <2>2. CASE saved /\ id \notin disputes
    <3>1. findings'[id] = afterBucket(id)
      BY <1>3, <1>5, <2>2
    <3> QED BY <1>5, <1>7, <3>1
  <2>3. CASE saved /\ id \in disputes
    <3>1. PICK g : g = Rule(afterBucket(id), choice[id])
      OBVIOUS
    <3>2. findings'[id] = g
      BY <1>3, <1>5, <2>3, <3>1
    <3>3. afterBucket(id) \in Finding /\ choice[id] \in {"accept", "reopen", "wontfix", "skip"}
      BY <1>7, <2>3
    <3>4. /\ g \in Finding
          /\ g.first = afterBucket(id).first /\ g.last = afterBucket(id).last
          /\ \/ g.status = afterBucket(id).status
             \/ g.status = "open" /\ g.reopens <= MaxReopens
             \/ g.status = "wontfix"
      BY <3>1, <3>3, RuleFacts
    <3>5. kept[id] = findings[id] /\ findings[id].status = "disputed"
      BY <1>5, <1>6, <2>3
    <3>6. afterBucket(id).status \in {"disputed", "wontfix"}
      BY <1>7, <3>5
    <3> QED BY <1>7, <3>2, <3>4, <3>5, <3>6
  <2> QED BY <2>1, <2>2, <2>3
<1>9. DOMAIN findings' = DOMAIN findings /\ findings' \in [DOMAIN findings -> Finding]
  <2>1. kept = [id \in DOMAIN kept |-> kept[id]]
    BY DEF kept, Settle
  <2> QED BY <1>3, <1>5, <1>8, <2>1
<1>10. WithinGuard(findings')
  BY <1>8, <1>9 DEF Inv, GuardHolds, WithinGuard
<1>11. NewDisputesPending
  BY <1>8 DEF NewDisputesPending
<1>12. ValidProfile(profile')
  <2>1. ValidProfile(profile) /\ profile' = [profile EXCEPT !.rule_ids = @ \cup { id.rule : id \in adopted }]
    BY <1>1 DEF Adjudicate, Inv, TypeOK, MergeTypeOK
  <2>2. { id.rule : id \in adopted } \subseteq Rules
    BY <1>4 DEF Rules
  <2> QED BY <2>1, <2>2 DEF ValidProfile
<1>13. mode' \in {"cmd", "run", "no_fix"}
  BY <1>2 DEF Inv, TypeOK
<1> QED BY <1>2, <1>8, <1>9, <1>10, <1>11, <1>12, <1>13, UpdateStep

(* Editing the profile leaves the findings and the records alone.           *)
LEMMA EditProfileStep ==
  ASSUME Inv, EditProfile
  PROVE  Inv'
<1>1. ValidProfile(profile')
  BY ProfilesAssumption DEF EditProfile
<1> QED
  BY <1>1 DEF EditProfile, disk, Inv, TypeOK, MergeTypeOK, IsFindingSet, AreRecords,
     RoundOnDisk, MemCarriesOver, MemHasNewOnes, MemWithinGuard, SavedNewOnes, NewOnesIn,
     CarriesOver, WithinGuard, RecordsMatchFindings, GuardHolds, Idle

(* A crash loses the merge and keeps the disk.                              *)
LEMMA CrashStep ==
  ASSUME Inv, Crash
  PROVE  Inv'
<1>1. UNCHANGED <<profile, findings, scanned, records>> /\ pc' = "idle" /\ mode' = "cmd" /\ DropMerge
  BY DEF Crash, Exit, disk
<1>2. TypeOK'
  BY <1>1, DropFacts DEF Inv, TypeOK, MergeTypeOK, ValidProfile, IsFindingSet, AreRecords
<1> QED
  BY <1>1, <1>2 DEF Inv, RoundOnDisk, MemCarriesOver, MemHasNewOnes, MemWithinGuard,
     SavedNewOnes, RecordsMatchFindings, GuardHolds

-----------------------------------------------------------------------------
(* Every step keeps the invariant, and what it may do to the findings.       *)

StepKeeps == Inv' /\ KeepsFindings /\ (KeepsRulings \/ Triage) /\ NewDisputesPending

(* A step that leaves findings.jsonl alone does nothing to a finding.       *)
LEMMA SameFindings ==
  ASSUME Inv, Inv', UNCHANGED findings
  PROVE  StepKeeps
<1>1. \A id \in DOMAIN findings : findings[id].last \in Nat
  BY DEF Inv, TypeOK, IsFindingSet, Finding, Rounds
<1> QED BY <1>1 DEF StepKeeps, KeepsFindings, KeepsRulings, NewDisputesPending

(* The steps of a command that is running.                                  *)
LEMMA RunStepKeeps ==
  ASSUME Inv, RunStep
  PROVE  StepKeeps
<1>1. CASE RunGate
  <2>1. /\ UNCHANGED <<mergeVars, disk>> /\ pc' \in {"idle", "gate", "scan"}
        /\ mode' \in {"cmd", "run", "no_fix"}
    BY <1>1 DEF RunGate, Exit, Inv, TypeOK
  <2> QED BY <2>1, QuietStep, SameFindings DEF disk
<1>2. CASE \E n \in Rounds : RunScan(n)
  BY <1>2, ScanStep, SameFindings DEF RunScan
<1>3. CASE pc = "ingest" /\ \E r \in Rounds, raws \in Raws : StartIngest(r, TRUE, raws)
  BY <1>3, StartIngestStep, SameFindings DEF StartIngest, disk
<1>4. CASE Merging
  BY <1>4, MergingStep, SameFindings DEF Merging, disk
<1>5. CASE SaveFindings
  BY <1>5, SaveFindingsStep DEF StepKeeps
<1>6. CASE SaveRecord
  BY <1>6, SaveRecordStep, SameFindings DEF SaveRecord
<1>7. CASE pc = "fix" /\ \E named \in SUBSET DOMAIN findings : Fix(named)
  BY <1>7, FixStep DEF StepKeeps
<1>8. CASE pc = "verify" /\ Verify
  BY <1>8, VerifyStep DEF StepKeeps
<1> QED BY <1>1, <1>2, <1>3, <1>4, <1>5, <1>6, <1>7, <1>8 DEF RunStep

(* The commands a user may give.                                            *)
LEMMA CommandKeeps ==
  ASSUME Inv, Command
  PROVE  StepKeeps
<1>1. CASE StartRun
  BY <1>1, QuietStep, SameFindings DEF StartRun, disk
<1>2. CASE Triage
  BY <1>2, AdjudicateStep DEF StepKeeps
<1>3. CASE EditProfile
  BY <1>3, EditProfileStep, SameFindings DEF EditProfile, disk
<1>4. CASE \E n \in Rounds : ScanCommand(n)
  BY <1>4, ScanStep, SameFindings DEF ScanCommand
<1>5. CASE Idle /\ \E r \in scanned, ok \in BOOLEAN, raws \in Raws : StartIngest(r, ok, raws)
  <2>1. scanned \subseteq Rounds
    BY DEF Inv, TypeOK
  <2> QED BY <1>5, <2>1, StartIngestStep, SameFindings DEF StartIngest, disk
<1>6. CASE Idle /\ \E named \in SUBSET DOMAIN findings : Fix(named)
  BY <1>6, FixStep DEF StepKeeps
<1>7. CASE Idle /\ Verify
  BY <1>7, VerifyStep DEF StepKeeps
<1> QED BY <1>1, <1>2, <1>3, <1>4, <1>5, <1>6, <1>7 DEF Command

(* Every step of the specification, and stuttering.                         *)
LEMMA NextKeeps == Inv /\ [Next]_vars => Inv' /\ [StepKeeps]_vars
<1> SUFFICES ASSUME Inv, [Next]_vars PROVE Inv' /\ [StepKeeps]_vars
  OBVIOUS
<1>1. CASE RunStep
  BY <1>1, RunStepKeeps DEF StepKeeps
<1>2. CASE Command
  BY <1>2, CommandKeeps DEF StepKeeps
<1>3. CASE Crash
  BY <1>3, CrashStep, SameFindings DEF Crash, disk, StepKeeps
<1>4. CASE UNCHANGED vars
  BY <1>4 DEF vars, mergeVars, disk, Inv, TypeOK, MergeTypeOK, ValidProfile, IsFindingSet,
     AreRecords, RoundOnDisk, MemCarriesOver, CarriesOver, MemHasNewOnes, NewOnesIn,
     MemWithinGuard, WithinGuard, SavedNewOnes, RecordsMatchFindings, GuardHolds
<1> QED BY <1>1, <1>2, <1>3, <1>4 DEF Next

-----------------------------------------------------------------------------
(* What a step other than triage may do to a settled finding: nothing, as    *)
(* long as it does not make work or a pending dispute of it.  The staleness  *)
(* rule at the end of a merge spares what the round has just seen.           *)

Stands(old, new, id) ==
  /\ id \in DOMAIN old
  /\ new[id].status = old[id].status /\ new[id].adjudicated = old[id].adjudicated

MemStands ==
  pc = "merge" =>
    \A id \in DOMAIN mem :
      \/ Stands(findings, mem, id)
      \/ Claimed(mem[id]) /\ mem[id].last >= scan.round
      \/ Pending(mem[id])

(* An untouched finding, work for the loop, or work that is done.            *)
Moves ==
  \A id \in DOMAIN findings' :
    \/ Stands(findings, findings', id)
    \/ Claimed(findings'[id]) \/ Pending(findings'[id])
    \/ id \in DOMAIN findings /\ Claimed(findings[id]) /\ findings'[id].status # "wontfix"

LEMMA TouchStands ==
  ASSUME Inv, MemStands, pc = "merge", UNCHANGED <<findings, pc, scan>>, NEW t \in DOMAIN mem,
         mem' = [mem EXCEPT ![t] = Touch(@, scan.round)]
  PROVE  MemStands'
<1>1. mem[t] \in Finding /\ scan.round \in Rounds
  BY DEF Inv, TypeOK, MergeTypeOK, Scan, IsFindingSet
<1>2. /\ DOMAIN mem' = DOMAIN mem /\ mem'[t] = Touch(mem[t], scan.round)
      /\ \A id \in DOMAIN mem \ {t} : mem'[id] = mem[id]
  OBVIOUS
<1> SUFFICES ASSUME NEW id \in DOMAIN mem
             PROVE  \/ Stands(findings, mem', id)
                    \/ Claimed(mem'[id]) /\ mem'[id].last >= scan.round
                    \/ Pending(mem'[id])
  BY <1>2 DEF MemStands, Stands
<1>3. CASE id # t
  BY <1>2, <1>3 DEF MemStands, Stands
<1>4. CASE id = t
  <2>1. PICK g : g = Touch(mem[t], scan.round)
    OBVIOUS
  <2>2. mem'[id] = g /\ g.last >= scan.round
    BY <1>1, <1>2, <1>4, <2>1, TouchFacts
  <2>3. CASE mem[t].status \in {"open", "disputed", "wontfix"}
    <3>1. g.status = mem[t].status /\ g.adjudicated = mem[t].adjudicated
      BY <1>1, <2>1, <2>3, TouchFacts
    <3> QED BY <1>4, <2>2, <3>1 DEF MemStands, Stands, Claimed, Pending
  <2>4. CASE mem[t].status \in {"fixed", "verified", "lapsed"}
    <3>1. g.status = "open" \/ (g.status = "disputed" /\ g.adjudicated = FALSE)
      BY <1>1, <2>1, <2>4, TouchFacts
    <3> QED BY <2>2, <3>1 DEF Claimed, Pending
  <2> QED BY <1>1, <2>3, <2>4 DEF Finding, Statuses
<1> QED BY <1>3, <1>4

LEMMA MergingStands ==
  ASSUME Inv, MemStands, Merging
  PROVE  MemStands' /\ Moves
<1>1. pc = "merge" /\ UNCHANGED <<findings, pc>>
  BY DEF Merging, disk
<1>6. Moves
  BY <1>1 DEF Moves, Stands
<1> SUFFICES MemStands'
  BY <1>6
<1>2. PICK id \in Ids :
         IngestExact(id) \/ (\E best \in DOMAIN mem : Absorb(id, best)) \/ IngestNew(id)
  BY DEF Merging, MergeStep
<1>3. CASE IngestExact(id)
  BY <1>1, <1>3, TouchStands DEF IngestExact
<1>4. CASE \E best \in DOMAIN mem : Absorb(id, best)
  <2>1. PICK best \in DOMAIN mem : Absorb(id, best)
    BY <1>4
  <2> QED BY <1>1, <2>1, TouchStands DEF Absorb
<1>5. CASE IngestNew(id)
  <2>1. IsFindingSet(mem) /\ scan.round \in Rounds /\ UNCHANGED scan
        /\ mem' = Put(mem, id, NewFinding(scan.round)) /\ id \notin DOMAIN mem
    BY <1>5 DEF IngestNew, Inv, TypeOK, MergeTypeOK, Scan
  <2>2. PICK f : f = NewFinding(scan.round)
    OBVIOUS
  <2>3. f \in Finding /\ f.status = "open" /\ f.last = scan.round
    BY <2>1, <2>2, NewFindingFacts
  <2>4. /\ DOMAIN mem' = DOMAIN mem \cup {id} /\ mem'[id] = f
        /\ \A other \in DOMAIN mem : mem'[other] = mem[other]
    BY <2>1, <2>2, <2>3, PutFacts
  <2>5. Claimed(mem'[id]) /\ mem'[id].last >= scan.round
    BY <2>1, <2>3, <2>4 DEF Claimed, Rounds
  <2> QED BY <1>1, <2>1, <2>4, <2>5 DEF MemStands, Stands
<1> QED BY <1>2, <1>3, <1>4, <1>5

LEMMA SaveFindingsMoves ==
  ASSUME Inv, MemStands, SaveFindings
  PROVE  MemStands' /\ Moves
<1>1. pc = "merge" /\ pc' = "record" /\ findings' = CloseStale(mem, scan)
  BY DEF SaveFindings, Merged
<1>2. IsFindingSet(mem) /\ scan.round \in Rounds
  BY DEF Inv, TypeOK, MergeTypeOK, Scan
<1>3. /\ DOMAIN findings' = DOMAIN mem
      /\ \A id \in DOMAIN mem :
           /\ findings'[id].adjudicated = mem[id].adjudicated
           /\ \/ findings'[id].status = mem[id].status
              \/ /\ mem[id].status \in {"open", "fixed"}
                 /\ findings'[id].status \in {"verified", "lapsed"}
  BY <1>1, <1>2, CloseStaleFacts
<1>4. ASSUME NEW id \in DOMAIN mem
      PROVE  \/ Stands(findings, findings', id)
             \/ Claimed(findings'[id]) \/ Pending(findings'[id])
             \/ id \in DOMAIN findings /\ Claimed(findings[id]) /\ findings'[id].status # "wontfix"
  <2>1. CASE Stands(findings, mem, id)
    BY <1>3, <2>1 DEF Stands, Claimed
  <2>2. CASE Claimed(mem[id]) /\ mem[id].last >= scan.round
    <3>1. mem[id].last \in Nat /\ scan.round \in Nat
      BY <1>2 DEF IsFindingSet, Finding, Rounds
    <3>2. ~IsStale(mem[id], id, scan)
      BY <2>2, <3>1 DEF IsStale
    <3>3. findings'[id] = mem[id]
      BY <1>1, <3>2 DEF CloseStale
    <3> QED BY <2>2, <3>3
  <2>3. CASE Pending(mem[id])
    BY <1>3, <2>3 DEF Pending
  <2> QED BY <1>1, <2>1, <2>2, <2>3 DEF MemStands
<1> QED BY <1>1, <1>3, <1>4 DEF Moves, MemStands

LEMMA FixMoves ==
  ASSUME Inv, NEW named \in SUBSET DOMAIN findings, Fix(named)
  PROVE  MemStands' /\ Moves
<1>1. PICK outcome \in [named -> {"fixed", "disputed"}] :
         findings' = [id \in DOMAIN findings |->
                        IF id \in named THEN Apply(findings[id], outcome[id]) ELSE findings[id]]
  BY DEF Fix
<1>2. ASSUME NEW id \in DOMAIN findings
      PROVE  \/ findings'[id] = findings[id]
             \/ Claimed(findings'[id]) \/ Pending(findings'[id])
  <2>1. findings[id] \in Finding
    BY DEF Inv, TypeOK, IsFindingSet
  <2>2. CASE id \in named /\ outcome[id] = "fixed"
    BY <1>1, <2>1, <2>2 DEF Apply, Finding, Claimed
  <2>3. CASE id \in named /\ outcome[id] = "disputed"
    <3>1. findings'[id] = Dispute(findings[id])
      BY <1>1, <2>3 DEF Apply
    <3> QED BY <2>1, <3>1, DisputeFacts DEF Pending
  <2>4. CASE id \notin named
    BY <1>1, <2>4
  <2> QED BY <1>1, <2>2, <2>3, <2>4
<1>3. DOMAIN findings' = DOMAIN findings /\ pc' # "merge"
  BY <1>1 DEF Fix, Idle, Proceed
<1> QED BY <1>2, <1>3 DEF Moves, Stands, MemStands

LEMMA VerifyMoves ==
  ASSUME Inv, Verify
  PROVE  MemStands' /\ Moves
<1>1. PICK v \in Verdicts :
         findings' = [id \in DOMAIN findings |-> Judge(findings[id], v[id])]
  BY DEF Verify
<1>2. ASSUME NEW id \in DOMAIN findings
      PROVE  \/ findings'[id] = findings[id]
             \/ Claimed(findings[id]) /\ findings'[id].status # "wontfix"
  <2>1. findings[id] \in Finding /\ findings'[id] = Judge(findings[id], v[id])
    BY <1>1 DEF Inv, TypeOK, IsFindingSet
  <2>2. /\ v[id] \in {"verified", "reopened", "deferred"}
        /\ v[id] # "deferred" => findings[id].status = "fixed"
    BY DEF Verdicts
  <2>3. CASE v[id] = "deferred"
    BY <2>1, <2>3 DEF Judge
  <2>4. CASE v[id] # "deferred"
    <3>1. PICK g : g = Judge(findings[id], v[id])
      OBVIOUS
    <3>2. g.status \in {"verified", "open", "disputed"}
      BY <2>1, <2>2, <2>4, <3>1, JudgeFacts
    <3> QED BY <2>1, <2>2, <2>4, <3>1, <3>2 DEF Claimed
  <2> QED BY <2>3, <2>4
<1>3. DOMAIN findings' = DOMAIN findings /\ pc' # "merge"
  BY <1>1 DEF Verify, Idle, Proceed
<1> QED BY <1>2, <1>3 DEF Moves, Stands, MemStands

(* A step that leaves the findings alone and is not inside a merge.          *)
LEMMA StillMoves ==
  ASSUME UNCHANGED findings, pc' # "merge" \/ mem' = findings
  PROVE  MemStands' /\ Moves
BY DEF MemStands, Moves, Stands

LEMMA StepMoves ==
  ASSUME Inv, MemStands, [Next]_vars
  PROVE  MemStands' /\ (Moves \/ Triage)
<1>1. CASE RunGate
  BY <1>1, StillMoves DEF RunGate, Exit, disk
<1>2. CASE \E n \in Rounds : RunScan(n)
  BY <1>2, StillMoves DEF RunScan, Exit
<1>3. CASE \E r \in Rounds, ok \in BOOLEAN, raws \in Raws : StartIngest(r, ok, raws)
  BY <1>3, StillMoves DEF StartIngest, disk
<1>4. CASE Merging
  BY <1>4, MergingStands
<1>5. CASE SaveFindings
  BY <1>5, SaveFindingsMoves
<1>6. CASE SaveRecord
  BY <1>6, StillMoves DEF SaveRecord, Proceed
<1>7. CASE \E named \in SUBSET DOMAIN findings : Fix(named)
  BY <1>7, FixMoves
<1>8. CASE Verify
  BY <1>8, VerifyMoves
<1>9. CASE StartRun
  BY <1>9, StillMoves DEF StartRun, disk
<1>10. CASE Triage
  BY <1>10 DEF Triage, Idle, MemStands
<1>11. CASE EditProfile
  BY <1>11, StillMoves DEF EditProfile, disk, Idle
<1>12. CASE \E n \in Rounds : ScanCommand(n)
  BY <1>12, StillMoves DEF ScanCommand, Idle
<1>13. CASE Crash
  BY <1>13, StillMoves DEF Crash, Exit, disk
<1>14. CASE UNCHANGED vars
  BY <1>14 DEF vars, mergeVars, disk, MemStands, Moves, Stands
<1>15. scanned \subseteq Rounds
  BY DEF Inv, TypeOK
<1> QED BY <1>1, <1>2, <1>3, <1>4, <1>5, <1>6, <1>7, <1>8, <1>9, <1>10, <1>11, <1>12,
            <1>13, <1>14, <1>15 DEF Next, RunStep, Command

(* Only triage and an edit change the taxonomy.                             *)
LEMMA TaxonomyStays ==
  ASSUME [Next]_vars, ~Triage, ~EditProfile
  PROVE  UNCHANGED profile
<1>1. CASE Merging
  BY <1>1 DEF Merging, MergeStep, IngestExact, Absorb, IngestNew
<1>2. CASE RunStep /\ ~Merging
  BY <1>2 DEF RunStep, RunGate, RunScan, StartIngest, SaveFindings, SaveRecord, Fix, Verify,
     mergeVars
<1>3. CASE Command
  BY <1>3 DEF Command, StartRun, ScanCommand, StartIngest, Fix, Verify, mergeVars
<1>4. CASE Crash
  BY <1>4 DEF Crash
<1>5. CASE UNCHANGED vars
  BY <1>5 DEF vars, mergeVars
<1> QED BY <1>1, <1>2, <1>3, <1>4, <1>5 DEF Next

(* Behind an open gate there is no work, no dispute without a ruling and     *)
(* nothing in the bucket.                                                   *)
LEMMA OpenGateFacts ==
  ASSUME GateOpen, NEW id \in DOMAIN findings
  PROVE  /\ ~Claimed(findings[id]) /\ ~Pending(findings[id])
         /\ Unclassified(profile, id) => findings[id].status = "wontfix"
BY DEF GateOpen, Converged, OpenBlocking, DisputedPending, UnclassifiedPending, Claimed

(* Behind an open gate there is nothing to rule on.                          *)
LEMMA IdleTriage ==
  ASSUME Inv, GateOpen, Triage
  PROVE  UNCHANGED <<findings, profile>>
<1>1. DisputedPending(findings) = {} /\ UnclassifiedPending(findings, profile) = {}
  BY DEF GateOpen, Converged
<1>2. PICK settled \in SUBSET Settleable, adopted, dropped \in SUBSET DOMAIN findings,
           saved \in BOOLEAN : Adjudicate(settled, adopted, dropped, saved)
  BY DEF Triage
<1>3. settled = {} /\ adopted = {} /\ dropped = {}
  BY <1>1, <1>2 DEF Settleable, Adjudicate
<1>4. Settle(findings, settled) = [id \in DOMAIN findings |-> findings[id]]
  BY <1>3 DEF Settle
<1>5. findings = [id \in DOMAIN findings |-> findings[id]]
  BY DEF Inv, TypeOK, IsFindingSet
<1>6. Settle(findings, settled) = findings
  BY <1>4, <1>5
<1>7. findings' = findings \/ findings' = [id \in DOMAIN findings |-> findings[id]]
  BY <1>1, <1>2, <1>3, <1>6 DEF Adjudicate
<1>8. profile' = profile
  <2>1. { id.rule : id \in adopted } = {}
    BY <1>3
  <2>2. profile' = [profile EXCEPT !.rule_ids = @ \cup {}]
    BY <1>2, <2>1 DEF Adjudicate
  <2>3. profile \in [rule_ids : SUBSET Rules, exhaustive : SUBSET Rules]
    BY DEF Inv, TypeOK, MergeTypeOK, ValidProfile
  <2> QED BY <2>2, <2>3
<1> QED BY <1>5, <1>7, <1>8

(* Nor anything to fix or to verify.                                        *)
LEMMA IdleFix ==
  ASSUME Inv, GateOpen, NEW named \in SUBSET DOMAIN findings, Fix(named)
  PROVE  UNCHANGED findings
<1>1. named = {}
  <2>1. Workable = {}
    BY OpenGateFacts DEF Workable, Claimed
  <2> QED BY <2>1 DEF Fix, Nameable
<1>2. PICK outcome \in [named -> {"fixed", "disputed"}] :
        findings' = [id \in DOMAIN findings |->
                       IF id \in named THEN Apply(findings[id], outcome[id]) ELSE findings[id]]
  BY DEF Fix
<1>3. findings = [id \in DOMAIN findings |-> findings[id]]
  BY DEF Inv, TypeOK, IsFindingSet
<1> QED BY <1>1, <1>2, <1>3

LEMMA IdleVerify ==
  ASSUME Inv, GateOpen, Verify
  PROVE  UNCHANGED findings
<1>1. PICK v \in Verdicts : findings' = [id \in DOMAIN findings |-> Judge(findings[id], v[id])]
  BY DEF Verify
<1>2. \A id \in DOMAIN findings : findings[id].status # "fixed"
  BY OpenGateFacts DEF Claimed
<1>3. \A id \in DOMAIN findings : v[id] = "deferred"
  BY <1>2 DEF Verdicts
<1>4. \A id \in DOMAIN findings : Judge(findings[id], v[id]) = findings[id]
  BY <1>3 DEF Judge
<1>5. findings = [id \in DOMAIN findings |-> findings[id]]
  BY DEF Inv, TypeOK, IsFindingSet
<1> QED BY <1>1, <1>4, <1>5

(* So whatever keeps clear of the rounds and the taxonomy leaves all that the *)
(* gate reads as it is.                                                     *)
LEMMA OpenStays ==
  ASSUME Inv, GateOpen, [Next]_vars, ~SaveFindings, ~SaveRecord, ~EditProfile
  PROVE  UNCHANGED <<findings, records, profile>>
<1>1. CASE \E named \in SUBSET DOMAIN findings : Fix(named)
  BY <1>1, IdleFix DEF Fix, mergeVars
<1>2. CASE Verify
  BY <1>2, IdleVerify DEF Verify, mergeVars
<1>3. CASE Triage
  BY <1>3, IdleTriage DEF Triage
<1>4. CASE Merging
  BY <1>4 DEF Merging, MergeStep, IngestExact, Absorb, IngestNew, disk
<1>5. CASE RunGate \/ (\E n \in Rounds : RunScan(n)) \/ StartRun
           \/ (\E n \in Rounds : ScanCommand(n)) \/ Crash
  BY <1>5 DEF RunGate, RunScan, StartRun, ScanCommand, Crash, disk, mergeVars
<1>6. CASE \E r \in Rounds, ok \in BOOLEAN, raws \in Raws : StartIngest(r, ok, raws)
  BY <1>6 DEF StartIngest, disk
<1>7. CASE UNCHANGED vars
  BY <1>7 DEF vars, mergeVars, disk
<1>8. scanned \subseteq Rounds
  BY DEF Inv, TypeOK
<1> QED BY <1>1, <1>2, <1>3, <1>4, <1>5, <1>6, <1>7, <1>8 DEF Next, RunStep, Command

LEMMA TriageFacts ==
  ASSUME Inv, [Next]_vars, Moves,
         NeedsTriage(findings, records, profile, FALSE), UNCHANGED profile
  PROVE  ~GateOpen'
<1> SUFFICES ASSUME GateOpen' PROVE FALSE
  OBVIOUS
<1>1. \A id \in DOMAIN findings' :
        /\ ~Claimed(findings'[id]) /\ ~Pending(findings'[id])
        /\ Unclassified(profile, id) => findings'[id].status = "wontfix"
  BY DEF GateOpen, Converged, OpenBlocking, DisputedPending, UnclassifiedPending, Claimed
<1>2. PICK id \in DOMAIN findings :
        Pending(findings[id]) \/ (Unclassified(profile, id) /\ findings[id].status # "wontfix")
  BY DEF NeedsTriage, DisputedPending, UnclassifiedPending
<1>3. id \in DOMAIN findings'
  <2>1. [StepKeeps]_vars
    BY NextKeeps
  <2>2. CASE StepKeeps
    BY <2>2, <1>2 DEF StepKeeps, KeepsFindings
  <2>3. CASE UNCHANGED vars
    BY <2>3, <1>2 DEF vars, disk
  <2> QED BY <2>1, <2>2, <2>3
<1>4. \/ Stands(findings, findings', id)
      \/ Claimed(findings[id]) /\ findings'[id].status # "wontfix"
  BY <1>1, <1>3 DEF Moves
<1>5. CASE Pending(findings[id])
  BY <1>1, <1>3, <1>4, <1>5 DEF Stands, Pending, Claimed
<1>6. CASE Unclassified(profile, id) /\ findings[id].status # "wontfix"
  BY <1>1, <1>3, <1>4, <1>6 DEF Stands
<1> QED BY <1>2, <1>5, <1>6

-----------------------------------------------------------------------------
(* The task as Lifecycle sees it.  What a merge in progress has made of a     *)
(* finding is what a round may make of it.                                   *)
MemLife ==
  pc = "merge" =>
    \A id \in DOMAIN mem :
      \/ Stands(findings, mem, id)
      \/ mem[id].status = "open" /\ LifeIn(findings, id) \in {"unseen", "work", "closed"}
      \/ Pending(mem[id]) /\ LifeIn(findings, id) \in {"work", "closed"}

LEMMA TouchLife ==
  ASSUME Inv, MemLife, pc = "merge", UNCHANGED <<findings, pc>>, NEW t \in DOMAIN mem,
         mem' = [mem EXCEPT ![t] = Touch(@, scan.round)]
  PROVE  MemLife'
<1>1. mem[t] \in Finding /\ scan.round \in Rounds
  BY DEF Inv, TypeOK, MergeTypeOK, Scan, IsFindingSet
<1>2. /\ DOMAIN mem' = DOMAIN mem /\ mem'[t] = Touch(mem[t], scan.round)
      /\ \A id \in DOMAIN mem \ {t} : mem'[id] = mem[id]
  OBVIOUS
<1>3. \A id \in DOMAIN mem : LifeIn(findings', id) = LifeIn(findings, id)
  OBVIOUS
<1>4. PICK g : g = Touch(mem[t], scan.round)
  OBVIOUS
<1>5. \/ Stands(findings, mem', t)
      \/ g.status = "open" /\ LifeIn(findings, t) \in {"unseen", "work", "closed"}
      \/ Pending(g) /\ LifeIn(findings, t) \in {"work", "closed"}
  <2>1. CASE mem[t].status \in {"open", "disputed", "wontfix"}
    <3>1. g.status = mem[t].status /\ g.adjudicated = mem[t].adjudicated
      BY <1>1, <1>4, <2>1, TouchFacts
    <3> QED BY <1>2, <1>4, <3>1 DEF MemLife, Stands, Pending
  <2>2. CASE mem[t].status \in {"fixed", "verified", "lapsed"}
    <3>1. g.status = "open" \/ (g.status = "disputed" /\ g.adjudicated = FALSE)
      BY <1>1, <1>4, <2>2, TouchFacts
    <3>2. t \in DOMAIN findings /\ findings[t].status = mem[t].status
      BY <2>2 DEF MemLife, Stands, Pending
    <3>3. LifeIn(findings, t) \in {"work", "closed"}
      BY <2>2, <3>2 DEF LifeIn, Claimed
    <3> QED BY <3>1, <3>3 DEF Pending
  <2> QED BY <1>1, <2>1, <2>2 DEF Finding, Statuses
<1>6. ASSUME NEW id \in DOMAIN mem
      PROVE  \/ Stands(findings, mem', id)
             \/ mem'[id].status = "open" /\ LifeIn(findings, id) \in {"unseen", "work", "closed"}
             \/ Pending(mem'[id]) /\ LifeIn(findings, id) \in {"work", "closed"}
  <2>1. CASE id = t
    BY <1>2, <1>4, <1>5, <2>1
  <2>2. CASE id # t
    BY <1>2, <2>2 DEF MemLife, Stands
  <2> QED BY <2>1, <2>2
<1> QED BY <1>2, <1>3, <1>6 DEF MemLife, Stands

LEMMA MergingLife ==
  ASSUME Inv, MemLife, Merging
  PROVE  MemLife' /\ UNCHANGED <<findings, pc>>
<1>1. pc = "merge" /\ UNCHANGED <<findings, pc>>
  BY DEF Merging, disk
<1> SUFFICES MemLife'
  BY <1>1
<1>2. PICK id \in Ids :
         IngestExact(id) \/ (\E best \in DOMAIN mem : Absorb(id, best)) \/ IngestNew(id)
  BY DEF Merging, MergeStep
<1>3. CASE IngestExact(id)
  BY <1>1, <1>3, TouchLife DEF IngestExact
<1>4. CASE \E best \in DOMAIN mem : Absorb(id, best)
  <2>1. PICK best \in DOMAIN mem : Absorb(id, best)
    BY <1>4
  <2> QED BY <1>1, <2>1, TouchLife DEF Absorb
<1>5. CASE IngestNew(id)
  <2>1. IsFindingSet(mem) /\ scan.round \in Rounds
        /\ mem' = Put(mem, id, NewFinding(scan.round)) /\ id \notin DOMAIN mem
    BY <1>5 DEF IngestNew, Inv, TypeOK, MergeTypeOK, Scan
  <2>2. PICK f : f = NewFinding(scan.round)
    OBVIOUS
  <2>3. f \in Finding /\ f.status = "open"
    BY <2>1, <2>2, NewFindingFacts
  <2>4. /\ DOMAIN mem' = DOMAIN mem \cup {id} /\ mem'[id] = f
        /\ \A other \in DOMAIN mem : mem'[other] = mem[other]
    <3>1. mem' = Put(mem, id, f) /\ DOMAIN mem \ {id} = DOMAIN mem
      BY <2>1, <2>2
    <3> QED BY <3>1 DEF Put
  <2>5. id \notin DOMAIN findings
    BY <1>1, <2>1 DEF Inv, MemCarriesOver, CarriesOver
  <2>6. LifeIn(findings, id) = "unseen"
    BY <2>5 DEF LifeIn
  <2>7. \A other \in DOMAIN mem' : LifeIn(findings', other) = LifeIn(findings, other)
    BY <1>1
  <2> QED BY <1>1, <2>3, <2>4, <2>6, <2>7 DEF MemLife, Stands
<1> QED BY <1>2, <1>3, <1>4, <1>5

(* The step at which a round takes effect.                                  *)
LEMMA SaveFindingsLife ==
  ASSUME Inv, MemStands, MemLife, SaveFindings, NEW id \in Ids
  PROVE  \/ LifeIn(findings', id) = LifeIn(findings, id)
         \/ LifeIn(findings, id) \in {"unseen", "closed"} /\ LifeIn(findings', id) = "work"
         \/ LifeIn(findings, id) = "work" /\ LifeIn(findings', id) = "closed"
         \/ LifeIn(findings, id) \in {"work", "closed"} /\ LifeIn(findings', id) = "disputed"
<1>1. pc = "merge" /\ findings' = CloseStale(mem, scan)
  BY DEF SaveFindings, Merged
<1>2. IsFindingSet(mem) /\ scan.round \in Rounds
  BY DEF Inv, TypeOK, MergeTypeOK, Scan
<1>3. /\ DOMAIN findings' = DOMAIN mem
      /\ \A other \in DOMAIN mem :
           /\ findings'[other].adjudicated = mem[other].adjudicated
           /\ \/ findings'[other].status = mem[other].status
              \/ /\ mem[other].status \in {"open", "fixed"}
                 /\ findings'[other].status \in {"verified", "lapsed"}
  BY <1>1, <1>2, CloseStaleFacts
<1>4. CASE id \notin DOMAIN mem
  BY <1>1, <1>3, <1>4 DEF Inv, MemCarriesOver, CarriesOver, LifeIn
<1>5. CASE id \in DOMAIN mem /\ Stands(findings, mem, id)
  <2>1. CASE findings'[id].status = mem[id].status
    BY <1>3, <1>5, <2>1 DEF Stands, LifeIn, Claimed, Pending
  <2>2. CASE mem[id].status \in {"open", "fixed"} /\ findings'[id].status \in {"verified", "lapsed"}
    BY <1>3, <1>5, <2>2 DEF Stands, LifeIn, Claimed
  <2> QED BY <1>3, <1>5, <2>1, <2>2
<1>6. CASE /\ id \in DOMAIN mem /\ ~Stands(findings, mem, id) /\ mem[id].status = "open"
           /\ LifeIn(findings, id) \in {"unseen", "work", "closed"}
  <2>1. mem[id].last >= scan.round
    BY <1>1, <1>6 DEF MemStands, Pending
  <2>2. mem[id].last \in Nat /\ scan.round \in Nat
    BY <1>2, <1>6 DEF IsFindingSet, Finding, Rounds
  <2>3. ~IsStale(mem[id], id, scan)
    BY <2>1, <2>2 DEF IsStale
  <2>4. findings'[id] = mem[id]
    BY <1>1, <1>6, <2>3 DEF CloseStale
  <2>5. LifeIn(findings', id) = "work"
    BY <1>3, <1>6, <2>4 DEF LifeIn, Claimed
  <2> QED BY <1>6, <2>5
<1>7. CASE /\ id \in DOMAIN mem /\ Pending(mem[id])
           /\ LifeIn(findings, id) \in {"work", "closed"}
  <2>1. findings'[id].status = "disputed" /\ ~findings'[id].adjudicated
    BY <1>3, <1>7 DEF Pending
  <2>2. LifeIn(findings', id) = "disputed"
    BY <1>3, <1>7, <2>1 DEF LifeIn, Claimed, Pending
  <2> QED BY <1>7, <2>2
<1> QED BY <1>1, <1>4, <1>5, <1>6, <1>7 DEF MemLife

LEMMA FixLife ==
  ASSUME Inv, NEW named \in SUBSET DOMAIN findings, Fix(named), NEW id \in Own
  PROVE  \/ LifeIn(findings', id) = LifeIn(findings, id)
         \/ LifeIn(findings, id) = "work" /\ LifeIn(findings', id) = "disputed"
<1>1. PICK outcome \in [named -> {"fixed", "disputed"}] :
         findings' = [other \in DOMAIN findings |->
                        IF other \in named THEN Apply(findings[other], outcome[other])
                                           ELSE findings[other]]
  BY DEF Fix
<1>2. CASE id \notin named
  BY <1>1, <1>2 DEF LifeIn
<1>3. CASE id \in named
  <2>1. id \in DOMAIN findings /\ findings[id].status = "open" /\ findings[id] \in Finding
    BY <1>3 DEF Own, Fix, Nameable, Workable, Inv, TypeOK, IsFindingSet
  <2>2. LifeIn(findings, id) = "work"
    BY <2>1 DEF LifeIn, Claimed
  <2>3. CASE outcome[id] = "fixed"
    <3>1. findings'[id] = [findings[id] EXCEPT !.status = "fixed"] /\ id \in DOMAIN findings'
      BY <1>1, <1>3, <2>1, <2>3 DEF Apply
    <3>2. LifeIn(findings', id) = "work"
      BY <2>1, <3>1 DEF LifeIn, Claimed, Finding
    <3> QED BY <2>2, <3>2
  <2>4. CASE outcome[id] = "disputed"
    <3>1. findings'[id] = Dispute(findings[id]) /\ id \in DOMAIN findings'
      BY <1>1, <1>3, <2>1, <2>4 DEF Apply
    <3>2. PICK g : g = Dispute(findings[id])
      OBVIOUS
    <3>3. g.status = "disputed" /\ g.adjudicated = FALSE
      BY <2>1, <3>2, DisputeFacts
    <3>4. LifeIn(findings', id) = "disputed"
      BY <3>1, <3>2, <3>3 DEF LifeIn, Claimed, Pending
    <3> QED BY <2>2, <3>4
  <2> QED BY <1>3, <2>3, <2>4
<1> QED BY <1>2, <1>3

LEMMA VerifyLife ==
  ASSUME Inv, Verify, NEW id \in Ids
  PROVE  \/ LifeIn(findings', id) = LifeIn(findings, id)
         \/ LifeIn(findings, id) = "work" /\ LifeIn(findings', id) \in {"closed", "disputed"}
<1>1. PICK v \in Verdicts :
         findings' = [other \in DOMAIN findings |-> Judge(findings[other], v[other])]
  BY DEF Verify
<1>2. CASE id \notin DOMAIN findings
  BY <1>1, <1>2 DEF LifeIn
<1>3. CASE id \in DOMAIN findings
  <2>1. /\ findings[id] \in Finding /\ findings'[id] = Judge(findings[id], v[id])
        /\ id \in DOMAIN findings'
    BY <1>1, <1>3 DEF Inv, TypeOK, IsFindingSet
  <2>2. /\ v[id] \in {"verified", "reopened", "deferred"}
        /\ v[id] # "deferred" => findings[id].status = "fixed"
    BY <1>3 DEF Verdicts
  <2>3. CASE v[id] = "deferred"
    BY <1>3, <2>1, <2>3 DEF Judge, LifeIn
  <2>4. CASE v[id] # "deferred"
    <3>1. PICK g : g = Judge(findings[id], v[id])
      OBVIOUS
    <3>2. \/ g.status \in {"verified", "open"}
          \/ g.status = "disputed" /\ g.adjudicated = FALSE
      BY <2>1, <2>2, <2>4, <3>1, JudgeFacts
    <3>3. LifeIn(findings, id) = "work"
      BY <1>3, <2>2, <2>4 DEF LifeIn, Claimed
    <3>4. LifeIn(findings', id) \in {"work", "closed", "disputed"}
      BY <2>1, <3>1, <3>2 DEF LifeIn, Claimed, Pending
    <3> QED BY <3>3, <3>4
  <2> QED BY <2>3, <2>4
<1> QED BY <1>2, <1>3

(* Adjudicate: what is settled had a decider; what is dropped or retired is   *)
(* ruled on; what comes back was pending.                                   *)
LEMMA RuleLife ==
  ASSUME NEW f \in Finding, NEW c \in {"accept", "reopen", "wontfix", "skip"},
         f.status = "wontfix" \/ Pending(f)
  PROVE  LET g == Rule(f, c)
         IN  \/ g.status \in {"open", "wontfix"}
             \/ g.status = "disputed" /\ f.status = "disputed"
<1>1. CASE c = "accept"
  BY <1>1 DEF Rule, Finding, Statuses, Pending
<1>2. CASE c = "reopen"
  BY <1>2 DEF Rule, Finding, Statuses
<1>3. CASE c = "wontfix"
  BY <1>3 DEF Rule, WontFix, Finding, Statuses
<1>4. CASE c = "skip"
  BY <1>4 DEF Rule, Pending
<1> QED BY <1>1, <1>2, <1>3, <1>4

LEMMA TriageLife ==
  ASSUME Inv, Triage, NEW id \in Ids
  PROVE  \/ LifeIn(findings', id) = LifeIn(findings, id)
         \/ LifeIn(findings, id) = "disputed" /\ LifeIn(findings', id) = "work"
         \/ /\ LifeIn(findings, id) \in {"work", "closed", "disputed"}
            /\ LifeIn(findings', id) = "ruled"
         \/ /\ LifeIn(findings, id) = "disputed" /\ LifeIn(findings', id) = "closed"
            /\ id.rule \in DeciderRules
<1>1. PICK settled \in SUBSET Settleable, adopted \in SUBSET DOMAIN findings,
           dropped \in SUBSET DOMAIN findings, saved \in BOOLEAN :
         Adjudicate(settled, adopted, dropped, saved)
  BY DEF Triage
<1> DEFINE kept == Settle(findings, settled)
           disputes == DisputedPending(kept)
           afterBucket(other) == IF other \in dropped THEN WontFix(kept[other]) ELSE kept[other]
<1>2. PICK choice \in [disputes -> {"accept", "reopen", "wontfix", "skip"}] :
         findings' = IF ~saved THEN kept
                     ELSE [other \in DOMAIN kept |->
                            IF other \in disputes THEN Rule(afterBucket(other), choice[other])
                                                  ELSE afterBucket(other)]
  BY <1>1, Zenon DEF Adjudicate
<1>3. findings \in [DOMAIN findings -> Finding] /\ DOMAIN kept = DOMAIN findings
  BY DEF Inv, TypeOK, IsFindingSet, Settle
<1>4. CASE id \notin DOMAIN findings
  BY <1>2, <1>3, <1>4 DEF LifeIn
<1>5. CASE id \in DOMAIN findings
  <2>1. findings[id] \in Finding /\ kept[id] \in Finding /\ id \in DOMAIN findings'
    BY <1>2, <1>3, <1>5, SettleFacts
  <2>2. \/ kept[id] = findings[id] /\ id \notin settled
        \/ /\ kept[id].status = "verified" /\ LifeIn(findings, id) = "disputed"
           /\ id.rule \in DeciderRules /\ id \notin disputes
    <3>1. CASE id \notin settled
      BY <1>5, <3>1 DEF Settle
    <3>2. CASE id \in settled
      <4>1. Pending(findings[id]) /\ id.rule \in DeciderRules
        BY <3>2 DEF Settleable, DisputedPending
      <4>2. kept[id] = [findings[id] EXCEPT !.status = "verified", !.adjudicated = TRUE]
        BY <1>5, <3>2 DEF Settle
      <4>3. kept[id].status = "verified"
        BY <2>1, <4>2 DEF Finding
      <4>4. LifeIn(findings, id) = "disputed"
        BY <1>5, <4>1 DEF LifeIn, Pending, Claimed
      <4> QED BY <4>1, <4>3, <4>4 DEF DisputedPending, Pending
    <3> QED BY <3>1, <3>2
  <2>3. id \in disputes => Pending(kept[id])
    BY DEF DisputedPending
  <2>4. LifeIn(kept, id) \in {"work", "closed", "disputed", "ruled"}
        /\ (Pending(kept[id]) => LifeIn(kept, id) = "disputed")
    BY <1>3, <1>5 DEF LifeIn, Pending, Claimed
  <2>5. \/ LifeIn(kept, id) = LifeIn(findings, id)
        \/ LifeIn(findings, id) = "disputed" /\ LifeIn(kept, id) = "closed" /\ id.rule \in DeciderRules
    BY <1>3, <1>5, <2>2 DEF LifeIn, Claimed
  <2>6. \/ LifeIn(findings', id) = LifeIn(kept, id)
        \/ LifeIn(kept, id) = "disputed" /\ LifeIn(findings', id) = "work"
        \/ LifeIn(findings', id) = "ruled"
    <3>1. CASE ~saved
      BY <1>2, <3>1
    <3>2. CASE saved /\ id \notin disputes
      <4>1. findings'[id] = afterBucket(id)
        BY <1>2, <1>3, <1>5, <3>2
      <4>2. CASE id \notin dropped
        BY <1>3, <1>5, <2>1, <4>1, <4>2 DEF LifeIn
      <4>3. CASE id \in dropped
        <5>1. findings'[id].status = "wontfix"
          BY <2>1, <4>1, <4>3 DEF WontFix, Finding
        <5> QED BY <2>1, <5>1 DEF LifeIn, Claimed, Pending
      <4> QED BY <4>2, <4>3
    <3>3. CASE saved /\ id \in disputes
      <4>1. PICK f : f = afterBucket(id)
        OBVIOUS
      <4>2. f \in Finding /\ (f.status = "wontfix" \/ Pending(f))
        BY <2>1, <2>3, <3>3, <4>1 DEF WontFix, Finding, Statuses
      <4>3. PICK g : g = Rule(f, choice[id])
        OBVIOUS
      <4>4. findings'[id] = g
        BY <1>2, <1>3, <1>5, <3>3, <4>1, <4>3
      <4>5. g.status \in {"open", "wontfix", "disputed"}
        BY <3>3, <4>2, <4>3, RuleLife
      <4>6. LifeIn(findings', id) \in {"work", "ruled", "disputed"}
        BY <2>1, <4>4, <4>5 DEF LifeIn, Claimed, Pending
      <4> QED BY <2>3, <2>4, <3>3, <4>6
    <3> QED BY <3>1, <3>2, <3>3
  <2> QED BY <2>4, <2>5, <2>6
<1> QED BY <1>4, <1>5

(* A step that leaves the findings alone.                                   *)
LEMMA StillLife ==
  ASSUME UNCHANGED findings
  PROVE  /\ (pc = "merge") = (pc' = "merge") => UNCHANGED Promised!vars
         /\ pc # "merge" /\ pc' = "merge" => Promised!Begin
         /\ pc = "merge" /\ pc' # "merge" => Promised!Abandon
         /\ pc' # "merge" \/ mem' = findings => MemLife'
<1>1. (pc = "merge") = (pc' = "merge") => UNCHANGED Promised!vars
  BY DEF Promised!vars
<1>2. pc # "merge" /\ pc' = "merge" => Promised!Begin
  BY DEF Promised!Begin
<1>3. pc = "merge" /\ pc' # "merge" => Promised!Abandon
  BY DEF Promised!Abandon
<1>4. pc' # "merge" \/ mem' = findings => MemLife'
  BY DEF MemLife, Stands
<1> QED BY <1>1, <1>2, <1>3, <1>4

(* Every step of the loop is one of Lifecycle, or none.                     *)
LEMMA StepLives ==
  ASSUME Inv, MemStands, MemLife, [Next]_vars
  PROVE  MemLife' /\ [Promised!Next]_(Promised!vars)
<1>1. [id \in Own |-> LifeIn(findings', id)] \in [Own -> Promised!Lives]
  BY DEF LifeIn, Promised!Lives
<1>2. CASE RunGate
  BY <1>2, StillLife DEF RunGate, Exit, disk
<1>3. CASE \E n \in Rounds : RunScan(n)
  BY <1>3, StillLife DEF RunScan, Exit
<1>4. CASE \E r \in Rounds, ok \in BOOLEAN, raws \in Raws : StartIngest(r, ok, raws)
  <2>1. UNCHANGED findings /\ mem' = findings /\ pc # "merge" /\ pc' = "merge"
    BY <1>4 DEF StartIngest, disk, Idle
  <2>2. Promised!Begin /\ MemLife'
    BY <2>1, StillLife
  <2> QED BY <1>1, <2>2 DEF Promised!Next
<1>5. CASE Merging
  BY <1>5, MergingLife, StillLife
<1>6. CASE SaveFindings
  <2>1. pc = "merge" /\ pc' = "record"
    BY <1>6 DEF SaveFindings
  <2>2. Promised!Round
    BY <1>6, <2>1, SaveFindingsLife DEF Promised!Round, Promised!Stays, Promised!Goes, Own
  <2> QED BY <1>1, <2>1, <2>2 DEF Promised!Next, MemLife
<1>7. CASE SaveRecord
  BY <1>7, StillLife DEF SaveRecord, Proceed
<1>8. CASE \E named \in SUBSET DOMAIN findings : Fix(named)
  <2>1. pc # "merge" /\ pc' # "merge"
    BY <1>8 DEF Fix, Idle, Proceed
  <2>2. Promised!FixOrVerify
    BY <1>8, <2>1, FixLife DEF Promised!FixOrVerify, Promised!Stays, Promised!Goes
  <2> QED BY <1>1, <2>1, <2>2 DEF Promised!Next, MemLife
<1>9. CASE Verify
  <2>1. pc # "merge" /\ pc' # "merge"
    BY <1>9 DEF Verify, Idle, Proceed
  <2>2. Promised!FixOrVerify
    BY <1>9, <2>1, VerifyLife DEF Promised!FixOrVerify, Promised!Stays, Promised!Goes, Own
  <2> QED BY <1>1, <2>1, <2>2 DEF Promised!Next, MemLife
<1>10. CASE StartRun
  BY <1>10, StillLife DEF StartRun, disk, Idle
<1>11. CASE Triage
  <2>1. pc # "merge" /\ pc' # "merge"
    BY <1>11 DEF Triage, Idle
  <2>2. Promised!Triage
    BY <1>11, <2>1, TriageLife DEF Promised!Triage, Promised!Stays, Promised!Goes, Own
  <2> QED BY <1>1, <2>1, <2>2 DEF Promised!Next, MemLife
<1>12. CASE EditProfile
  BY <1>12, StillLife DEF EditProfile, disk, Idle
<1>13. CASE \E n \in Rounds : ScanCommand(n)
  BY <1>13, StillLife DEF ScanCommand, Idle
<1>14. CASE Crash
  <2>1. UNCHANGED findings /\ pc' = "idle"
    BY <1>14 DEF Crash, Exit, disk
  <2>2. MemLife'
    BY <2>1, StillLife
  <2>3. CASE pc = "merge"
    BY <1>1, <2>1, <2>2, <2>3, StillLife DEF Promised!Next
  <2>4. CASE pc # "merge"
    BY <2>1, <2>2, <2>4, StillLife
  <2> QED BY <2>3, <2>4
<1>15. CASE UNCHANGED vars
  BY <1>15, StillLife DEF vars, mergeVars, disk, MemLife, Stands
<1>16. scanned \subseteq Rounds
  BY DEF Inv, TypeOK
<1> QED BY <1>2, <1>3, <1>4, <1>5, <1>6, <1>7, <1>8, <1>9, <1>10, <1>11, <1>12, <1>13,
            <1>14, <1>15, <1>16 DEF Next, RunStep, Command

-----------------------------------------------------------------------------
(* What the gate may rest on, in one state.                                 *)

(* An open gate: an identity that a quiet round's record calls new would be *)
(* in the findings, first seen in that round, and so break the quiet.       *)
LEMMA GateFacts == Inv => GateIsBackedByRecords
<1> SUFFICES ASSUME Inv, GateOpen
             PROVE  /\ \A r \in Tail(DOMAIN records) :
                         records[r].new = {} /\ ~records[r].failed
                    /\ \A id \in DOMAIN findings :
                         \/ findings[id].status \in {"verified", "lapsed", "wontfix"}
                         \/ findings[id].status = "disputed" /\ findings[id].adjudicated
  BY DEF GateIsBackedByRecords
<1>1. ASSUME NEW r \in Tail(DOMAIN records)
      PROVE  records[r].new = {} /\ ~records[r].failed
  <2>1. NewIn(findings, r) = {} /\ ~records[r].failed
    BY DEF GateOpen, Converged, RoundsSettled, IsQuiet
  <2>2. \A id \in records[r].new : id \in NewIn(findings, r)
    BY DEF Tail, Inv, RecordsMatchFindings, NewIn
  <2> QED BY <2>1, <2>2
<1>2. ASSUME NEW id \in DOMAIN findings
      PROVE  \/ findings[id].status \in {"verified", "lapsed", "wontfix"}
             \/ findings[id].status = "disputed" /\ findings[id].adjudicated
  <2>1. findings[id].status \in Statuses
    BY DEF Inv, TypeOK, IsFindingSet, Finding
  <2>2. ~(Claimed(findings[id]) /\ ~Unclassified(profile, id))
    BY DEF GateOpen, Converged, OpenBlocking
  <2>3. ~(Unclassified(profile, id) /\ findings[id].status # "wontfix")
    BY DEF GateOpen, Converged, UnclassifiedPending
  <2>4. ~Pending(findings[id])
    BY DEF GateOpen, Converged, DisputedPending
  <2>5. findings[id].status \notin {"open", "fixed"}
    BY <2>2, <2>3 DEF Claimed
  <2> QED BY <2>1, <2>4, <2>5 DEF Statuses, Pending
<1> QED BY <1>1, <1>2

(* The gate against the gates of its halves: the taxonomy is the two halves,  *)
(* and the bucket is everything off it.                                      *)
LEMMA HalvesFacts == Inv => GateIsItsHalves
<1> DEFINE halves == { rules \in {Decidable(profile), Budgeted(profile)} : rules # {} }
           Retired(id) == findings[id].status = "wontfix"
                          /\ findings[id].first \notin Tail(DOMAIN records)
<1> SUFFICES ASSUME Inv, halves # {}
             PROVE  GateOpen <=>
                      /\ \A rules \in halves : Half(findings, records, rules)
                      /\ \A id \in DOMAIN findings : Unclassified(profile, id) => Retired(id)
  BY DEF GateIsItsHalves
<1>1. \A id \in DOMAIN findings : ~Unclassified(profile, id) <=> \E rules \in halves : id.rule \in rules
  <2>1. profile.exhaustive \subseteq profile.rule_ids
    BY DEF Inv, TypeOK, MergeTypeOK, ValidProfile
  <2> QED BY <2>1 DEF Unclassified, Decidable, Budgeted
<1>2. \A rules \in halves : rules # {}
  OBVIOUS
<1> HIDE DEF halves
<1>3. ASSUME GateOpen
      PROVE  /\ \A rules \in halves : Half(findings, records, rules)
             /\ \A id \in DOMAIN findings : Unclassified(profile, id) => Retired(id)
  <2>1. Cardinality(DOMAIN records) >= K
    BY <1>3 DEF GateOpen, Converged, RoundsSettled
  <2>2. \A r \in Tail(DOMAIN records) :
          (\A id \in DOMAIN findings : findings[id].first # r) /\ ~records[r].failed
    BY <1>3 DEF GateOpen, Converged, RoundsSettled, IsQuiet, NewIn
  <2>3. \A id \in DOMAIN findings : ~Claimed(findings[id]) /\ ~Pending(findings[id])
    BY <1>3, OpenGateFacts
  <2>4. \A id \in DOMAIN findings : Unclassified(profile, id) => findings[id].status = "wontfix"
    BY <1>3, OpenGateFacts
  <2> QED BY <1>2, <2>1, <2>2, <2>3, <2>4 DEF Half
<1>4. ASSUME \A rules \in halves : Half(findings, records, rules),
             \A id \in DOMAIN findings : Unclassified(profile, id) => Retired(id)
      PROVE  GateOpen
  <2>1. PICK half \in halves : Half(findings, records, half)
    BY <1>4
  <2>2. Cardinality(DOMAIN records) >= K /\ \A r \in Tail(DOMAIN records) : ~records[r].failed
    BY <2>1 DEF Half
  <2>3. ASSUME NEW id \in DOMAIN findings
        PROVE  /\ findings[id].first \notin Tail(DOMAIN records) /\ ~Pending(findings[id])
               /\ ~Claimed(findings[id])
               /\ Unclassified(profile, id) => findings[id].status = "wontfix"
    <3>1. CASE Unclassified(profile, id)
      BY <1>4, <3>1 DEF Pending, Claimed
    <3>2. CASE ~Unclassified(profile, id)
      <4>1. PICK rules \in halves : id.rule \in rules
        BY <1>1, <3>2
      <4>2. Half(findings, records, rules)
        BY <1>4
      <4> QED BY <3>2, <4>1, <4>2 DEF Half
    <3> QED BY <3>1, <3>2
  <2>4. RoundsSettled(findings, records)
    BY <2>2, <2>3 DEF RoundsSettled, IsQuiet, NewIn
  <2> QED BY <2>3, <2>4 DEF GateOpen, Converged, OpenBlocking, DisputedPending, UnclassifiedPending
<1> QED BY <1>3, <1>4

-----------------------------------------------------------------------------
(* How far a run has come.  The round it works on is not ingested yet, and   *)
(* there was room for it when the gate was last asked.                       *)
RoundAhead ==
  /\ Idle => mode = "cmd"
  /\ mode # "cmd" /\ pc \in {"scan", "ingest", "merge", "record"} =>
       ~(Cardinality(DOMAIN records) >= Ceiling)
  /\ mode # "cmd" /\ pc \in {"ingest", "merge", "record"} => scan.round \notin DOMAIN records

Advances ==
  \/ AddsRound
  \/ records' = records /\ (StagesLeft' < StagesLeft \/ (pc' = pc /\ TakesRaw))

LEMMA RunScanAdvances ==
  ASSUME Inv, RoundAhead, NEW n \in Rounds, RunScan(n)
  PROVE  RoundAhead' /\ (mode' # "cmd" => Advances)
<1>1. n \notin DOMAIN records
  <2>1. \A r \in DOMAIN records : r < n /\ r \in Nat /\ n \in Nat
    BY DEF RunScan, IsNextRound, Inv, TypeOK, AreRecords, Rounds
  <2> QED BY <2>1
<1>2. scan \in Scan
  BY DEF Inv, TypeOK, MergeTypeOK
<1>3. CASE Exit
  BY <1>3 DEF Exit, RoundAhead, Idle
<1>4. CASE pc' = "ingest" /\ scan' = [scan EXCEPT !.round = n] /\ UNCHANGED mode
  <2>1. pc = "scan" /\ UNCHANGED records /\ scan'.round = n
    BY <1>2, <1>4 DEF RunScan, Scan
  <2> QED BY <1>1, <1>4, <2>1 DEF RoundAhead, Idle, Advances, StagesLeft
<1> QED BY <1>3, <1>4 DEF RunScan

LEMMA MergingAdvances ==
  ASSUME RoundAhead, Merging
  PROVE  RoundAhead' /\ Advances
<1>1. PICK id \in Ids : todo[id] > 0 /\ Take(id) /\ UNCHANGED scan
  BY DEF Merging, MergeStep, IngestExact, Absorb, IngestNew
<1>2. pc = "merge" /\ UNCHANGED <<records, pc, mode>>
  BY DEF Merging, disk
<1> QED BY <1>1, <1>2 DEF RoundAhead, Idle, Advances, TakesRaw, Take

(* A saved record is one more ingested round.                               *)
LEMMA SaveRecordAdvances ==
  ASSUME Inv, RoundAhead, SaveRecord
  PROVE  RoundAhead' /\ (mode' # "cmd" => Advances)
<1>1. pc = "record" /\ UNCHANGED mode /\ DOMAIN records' = DOMAIN records \cup {scan.round}
      /\ pc' = IF mode = "cmd" THEN "idle" ELSE IF mode = "run" THEN "fix" ELSE "gate"
  BY DEF SaveRecord, Proceed, Put
<1>2. RoundAhead'
  BY <1>1 DEF RoundAhead, Idle
<1>3. ASSUME mode' # "cmd" PROVE AddsRound
  <2>1. ~(Cardinality(DOMAIN records) >= Ceiling) /\ scan.round \notin DOMAIN records
    BY <1>1, <1>3 DEF RoundAhead
  <2>2. scan.round \in Rounds
    BY DEF Inv, TypeOK, MergeTypeOK, Scan
  <2>3. Cardinality(DOMAIN records) \in Nat
    <3>1. IsFiniteSet(Rounds)
      BY FS_Interval, BoundsAssumption DEF Rounds
    <3>2. IsFiniteSet(DOMAIN records)
      BY <3>1, FS_Subset DEF Inv, TypeOK, AreRecords
    <3> QED BY <3>2, FS_CardinalityType
  <2>4. Cardinality(DOMAIN records) < Ceiling
    BY <2>1, <2>3, LoopAssumption
  <2> QED BY <1>1, <2>1, <2>2, <2>4 DEF AddsRound
<1> QED BY <1>2, <1>3 DEF Advances

LEMMA StepAdvances ==
  ASSUME Inv, RoundAhead, Next
  PROVE  RoundAhead' /\ (mode # "cmd" /\ mode' # "cmd" => Advances)
<1>1. CASE RunGate
  <2>1. PICK external \in Blockers :
          \/ MustStop(external) /\ Exit
          \/ ~MustStop(external) /\ pc' = "scan" /\ UNCHANGED mode
    BY <1>1 DEF RunGate
  <2>2. pc = "gate" /\ UNCHANGED records
    BY <1>1 DEF RunGate, disk
  <2> QED BY <2>1, <2>2 DEF Exit, MustStop, RoundAhead, Idle, Advances, StagesLeft
<1>2. CASE \E n \in Rounds : RunScan(n)
  BY <1>2, RunScanAdvances
<1>3. CASE \E r \in Rounds, ok \in BOOLEAN, raws \in Raws : StartIngest(r, ok, raws)
  <2>1. PICK r \in Rounds, ok \in BOOLEAN, raws \in Raws : StartIngest(r, ok, raws)
    BY <1>3
  <2>2. pc' = "merge" /\ UNCHANGED <<records, mode>> /\ scan'.round = r
    BY <2>1 DEF StartIngest, disk
  <2>3. Idle \/ (pc = "ingest" /\ r = scan.round)
    BY <2>1 DEF StartIngest
  <2> QED BY <2>2, <2>3 DEF RoundAhead, Idle, Advances, StagesLeft
<1>4. CASE Merging
  BY <1>4, MergingAdvances
<1>5. CASE SaveFindings
  BY <1>5 DEF SaveFindings, mergeVars, RoundAhead, Idle, Advances, StagesLeft
<1>6. CASE SaveRecord
  BY <1>6, SaveRecordAdvances
<1>7. CASE \E named \in SUBSET DOMAIN findings : Fix(named)
  <2>1. (Idle \/ pc = "fix") /\ UNCHANGED <<records, mode>>
        /\ pc' = IF mode = "cmd" THEN "idle" ELSE "verify"
    BY <1>7 DEF Fix, Proceed
  <2> QED BY <2>1 DEF RoundAhead, Idle, Advances, StagesLeft
<1>8. CASE Verify
  <2>1. (Idle \/ pc = "verify") /\ UNCHANGED <<records, mode>>
        /\ pc' = IF mode = "cmd" THEN "idle" ELSE "gate"
    BY <1>8 DEF Verify, Proceed
  <2> QED BY <2>1 DEF RoundAhead, Idle, Advances, StagesLeft
<1>9. CASE StartRun \/ Triage \/ EditProfile \/ (\E n \in Rounds : ScanCommand(n))
  BY <1>9 DEF StartRun, Triage, EditProfile, ScanCommand, disk, RoundAhead, Idle
<1>10. CASE Crash
  BY <1>10 DEF Crash, Exit, RoundAhead, Idle
<1>11. scanned \subseteq Rounds
  BY DEF Inv, TypeOK
<1> QED BY <1>1, <1>2, <1>3, <1>4, <1>5, <1>6, <1>7, <1>8, <1>9, <1>10, <1>11
        DEF Next, RunStep, Command

-----------------------------------------------------------------------------
(* The theorems.                                                            *)

(* The inductive invariant holds of every reachable state.                  *)
THEOREM InvHolds == Spec => []Inv
<1>1. Init => Inv
  BY InitInv
<1>2. Inv /\ [Next]_vars => Inv'
  BY NextKeeps
<1> QED BY <1>1, <1>2, PTL DEF Spec

(* Every command leaves the task well formed: the identities, statuses and   *)
(* rounds of findings.jsonl, a record only for a round with a run file, and  *)
(* a profile that passes its validators.                                    *)
THEOREM TypeCorrect == Spec => []TypeOK
<1>1. Inv => TypeOK
  BY DEF Inv
<1> QED BY <1>1, InvHolds, PTL

(* The ingest records never claim a finding that findings.jsonl lacks or     *)
(* dates otherwise, through crashes and re-ingested rounds.                 *)
THEOREM RecordsAgree == Spec => []RecordsMatchFindings
<1>1. Inv => RecordsMatchFindings
  BY DEF Inv
<1> QED BY <1>1, InvHolds, PTL

(* The gate opens only over K full rounds whose records show nothing new,    *)
(* with every finding closed or ruled on.                                   *)
THEOREM GateSound == Spec => []GateIsBackedByRecords
BY GateFacts, InvHolds, PTL

(* The gate is open exactly where each half of the taxonomy has converged and *)
(* what is off it was retired.                                               *)
THEOREM HalvesMakeTheGate == Spec => []GateIsItsHalves
BY HalvesFacts, InvHolds, PTL

(* The oscillation guard bounds what a finding is reopened between rulings.  *)
THEOREM GuardSound == Spec => []GuardHolds
<1>1. Inv => GuardHolds
  BY DEF Inv
<1> QED BY <1>1, InvHolds, PTL

(* No step drops a finding or moves the rounds it was seen in backwards.     *)
THEOREM FindingsKept == Spec => NothingIsForgotten
<1>1. Inv /\ [Next]_vars => [KeepsFindings]_vars
  BY NextKeeps DEF StepKeeps
<1> QED BY <1>1, InvHolds, PTL DEF Spec, NothingIsForgotten

(* Only adjudicate changes the status of what was disputed or retired.       *)
THEOREM RulingsKept == Spec => RulingsStand
<1>1. Inv /\ [Next]_vars => [KeepsRulings \/ Triage]_vars
  BY NextKeeps DEF StepKeeps
<1> QED BY <1>1, InvHolds, PTL DEF Spec, RulingsStand

(* A finding that becomes disputed waits for a ruling of its own.            *)
THEOREM DisputesPend == Spec => DisputesStartPending
<1>1. Inv /\ [Next]_vars => [NewDisputesPending]_vars
  BY NextKeeps DEF StepKeeps
<1> QED BY <1>1, InvHolds, PTL DEF Spec, DisputesStartPending

(* A merge never loses track of what stood when it began.                   *)
LEMMA MemStandsHolds == Spec => [](Inv /\ MemStands)
<1>1. Init => MemStands
  BY DEF Init, MemStands
<1>2. Inv /\ MemStands /\ [Next]_vars => MemStands'
  BY StepMoves
<1> QED BY <1>1, <1>2, InvHolds, PTL DEF Spec

(* Where only triage is left, no scan, merge, fix or verify opens the gate.  *)
THEOREM TriageOpens == Spec => OnlyTriageOpens
<1>1. Inv /\ MemStands /\ [Next]_vars =>
        [NeedsTriage(findings, records, profile, FALSE) /\ GateOpen' =>
           Triage \/ EditProfile]_vars
  BY StepMoves, TaxonomyStays, TriageFacts
<1> QED BY <1>1, MemStandsHolds, PTL DEF Spec, OnlyTriageOpens

(* Once the gate is open, only a round or an edit of the taxonomy shuts it.   *)
THEOREM RoundsShut == Spec => OnlyRoundsShut
<1>1. ASSUME Inv, [Next]_vars, GateOpen, ~SaveFindings, ~SaveRecord, ~EditProfile
      PROVE  GateOpen'
  BY <1>1, OpenStays DEF GateOpen
<1>2. Inv /\ [Next]_vars =>
        [GateOpen /\ ~GateOpen' => SaveFindings \/ SaveRecord \/ EditProfile]_vars
  BY <1>1
<1> QED BY <1>2, InvHolds, PTL DEF Spec, OnlyRoundsShut

(* A run never turns in place: with finitely many rounds below its ceiling,    *)
(* stages and raw findings, it takes finitely many steps.                     *)
THEOREM RunsAdvance == Spec => RunAdvances
<1>1. Init => RoundAhead
  BY DEF Init, RoundAhead, Idle
<1>2. Inv /\ RoundAhead /\ [Next]_vars => RoundAhead'
  BY StepAdvances DEF vars, mergeVars, disk, RoundAhead, Idle
<1>3. Inv /\ RoundAhead /\ [Next]_vars =>
        [mode # "cmd" /\ mode' # "cmd" =>
           \/ AddsRound
           \/ records' = records /\ (StagesLeft' < StagesLeft \/ (pc' = pc /\ TakesRaw))]_vars
  BY StepAdvances DEF Advances
<1> QED BY <1>1, <1>2, <1>3, InvHolds, PTL DEF Spec, RunAdvances

(* A task implements Lifecycle: rounds take effect as a whole or not at all,   *)
(* only they bring a finding up or back, and only triage moves what is        *)
(* disputed or ruled on.                                                    *)
THEOREM TaskImplementsLifecycle == Spec => FollowsLifecycle
<1>1. Init => Promised!Init /\ MemLife
  <2> SUFFICES ASSUME Init PROVE Promised!Init /\ MemLife
    OBVIOUS
  <2>1. pc = "idle" /\ DOMAIN findings = {}
    BY DEF Init, NoFindings
  <2> QED BY <2>1 DEF Promised!Init, LifeIn, MemLife
<1>2. Inv /\ MemStands /\ MemLife /\ [Next]_vars => MemLife' /\ [Promised!Next]_(Promised!vars)
  BY StepLives
<1> QED BY <1>1, <1>2, MemStandsHolds, PTL DEF Spec, FollowsLifecycle, Promised!Spec
=============================================================================
