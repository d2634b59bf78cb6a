--------------------------- MODULE StopHookProofs ---------------------------
(***************************************************************************)
(* What the hook has read stays consistent with the task around it.  The    *)
(* other process takes the steps of TaskLoop, so its invariant holds here   *)
(* too.  As long as neither profile nor records change, the gate over what  *)
(* was read is the gate of the moment the findings were read; as long as    *)
(* the gate was never shut, nothing that was read can show it shut.         *)
(***************************************************************************)
EXTENDS StopHook, TaskLoopProofs

SeenOpen(recs) == Converged(seen.findings, recs, seen.profile, FALSE)

(* While nothing it depends on is written, what was read first is current,   *)
(* and the gate as it will be computed is one that was.                     *)
ReadsAgree ==
  Looking /\ moved = {} =>
    /\ seen.profile = profile
    /\ hook \in {"findings", "rounds"} => SeenOpen(records) \in gates
    /\ hook = "rounds" => seen.rounds = DOMAIN records

(* The gate as it is now is among those that were.                          *)
GateFollowed == Looking => GateOpen \in gates

HookInv == Inv /\ HookTypeOK /\ ReadsAgree /\ GateFollowed

-----------------------------------------------------------------------------
LEMMA HookInitInv == HookInit => HookInv
<1> SUFFICES ASSUME HookInit PROVE HookInv
  OBVIOUS
<1>1. Inv
  BY InitInv DEF HookInit
<1>2. IsFindingSet(NoFindings)
  BY DEF NoFindings, IsFindingSet
<1>3. seen = Unread /\ hook = "out" /\ answer = "none" /\ gates = {} /\ moved = {}
  BY DEF HookInit
<1>4. HookTypeOK
  BY <1>1, <1>2, <1>3 DEF HookTypeOK, Unread, Inv
<1> QED BY <1>1, <1>3, <1>4 DEF HookInv, ReadsAgree, GateFollowed, Looking

(* The gate is TRUE or FALSE.                                               *)
LEMMA GateIsBoolean == GateOpen \in BOOLEAN /\ SeenOpen(records) \in BOOLEAN
BY DEF GateOpen, SeenOpen, Converged

(* An ingested round stays ingested.                                        *)
LEMMA RecordsGrow ==
  ASSUME Next
  PROVE  DOMAIN records \subseteq DOMAIN records'
<1>1. CASE SaveRecord
  <2>1. records' = Put(records, scan.round, RunRecord)
    BY <1>1 DEF SaveRecord
  <2> QED BY <2>1 DEF Put
<1>2. CASE RunStep /\ ~SaveRecord
  <2>1. UNCHANGED records
    BY <1>2 DEF RunStep, RunGate, RunScan, StartIngest, Merging, SaveFindings, Fix, Verify, disk
  <2> QED BY <2>1
<1>3. CASE Command
  <2>1. UNCHANGED records
    BY <1>3 DEF Command, StartRun, Triage, EditProfile, ScanCommand, StartIngest, Fix, Verify, disk
  <2> QED BY <2>1
<1>4. CASE Crash
  BY <1>4 DEF Crash, disk
<1> QED BY <1>1, <1>2, <1>3, <1>4 DEF Next

(* A step of the other process.                                             *)
LEMMA OtherStep ==
  ASSUME HookInv, Next, UNCHANGED hookVars, Watch
  PROVE  HookInv'
<1>1. Inv'
  BY NextKeeps DEF HookInv
<1>2. DOMAIN records \subseteq DOMAIN records'
  BY RecordsGrow
<1>3. UNCHANGED <<hook, seen, answer>>
  BY DEF hookVars
<1>4. gates' \subseteq BOOLEAN /\ gates \subseteq gates' /\ moved' \subseteq {"anew", "again"}
      /\ moved \subseteq moved'
  BY DEF HookInv, HookTypeOK, Watch, GateOpen, Converged, Changes, history
<1>5. HookTypeOK'
  BY <1>1, <1>2, <1>3, <1>4 DEF HookInv, HookTypeOK, Inv
<1>6. ASSUME Looking', moved' = {}
      PROVE  profile' = profile /\ records' = records
  <2>1. Changes = {}
    BY <1>3, <1>6 DEF Watch, Looking
  <2>2. profile' = profile /\ DOMAIN records' = DOMAIN records
        /\ \A r \in DOMAIN records : records'[r] = records[r]
    BY <2>1 DEF Changes
  <2>3. records = [r \in DOMAIN records |-> records[r]]
        /\ records' = [r \in DOMAIN records' |-> records'[r]]
    BY <1>1 DEF HookInv, Inv, TypeOK, AreRecords
  <2> QED BY <2>2, <2>3
<1>7. ReadsAgree'
  BY <1>3, <1>4, <1>6 DEF HookInv, ReadsAgree, SeenOpen, Looking
<1>8. GateFollowed'
  BY <1>3 DEF GateFollowed, Looking, Watch
<1> QED BY <1>1, <1>5, <1>7, <1>8 DEF HookInv

-----------------------------------------------------------------------------
(* The reads of the hook.                                                   *)

(* Steps of the hook leave the task alone.                                  *)
LEMMA TaskStays ==
  ASSUME HookInv, UNCHANGED vars
  PROVE  /\ Inv' /\ UNCHANGED <<profile, findings, records>>
         /\ GateOpen' = GateOpen
BY NextKeeps DEF HookInv, vars, mergeVars, disk, GateOpen

LEMMA LoadProfileStep ==
  ASSUME HookInv, LoadProfile
  PROVE  HookInv'
<1>1. Inv' /\ UNCHANGED <<profile, findings, records>>
  BY TaskStays DEF LoadProfile
<1>2. hook' = "profile" /\ seen' = [seen EXCEPT !.profile = profile] /\ answer' = "none"
      /\ gates' = {GateOpen} /\ moved' = {}
  BY DEF LoadProfile
<1>3. profile \in [rule_ids : SUBSET Rules, exhaustive : SUBSET Rules]
  BY DEF HookInv, Inv, TypeOK, MergeTypeOK, ValidProfile
<1>4. /\ DOMAIN seen' = {"profile", "findings", "rounds"} /\ seen'.profile = profile
      /\ seen'.findings = seen.findings /\ seen'.rounds = seen.rounds
  BY <1>2 DEF HookInv, HookTypeOK
<1>5. GateOpen \in BOOLEAN
  BY GateIsBoolean
<1>6. HookTypeOK'
  BY <1>1, <1>2, <1>3, <1>4, <1>5 DEF HookInv, HookTypeOK, Inv
<1>7. ReadsAgree'
  BY <1>1, <1>2, <1>4 DEF ReadsAgree
<1>8. GateFollowed'
  BY <1>2, TaskStays DEF GateFollowed, LoadProfile
<1> QED BY <1>1, <1>6, <1>7, <1>8 DEF HookInv

LEMMA LoadFindingsStep ==
  ASSUME HookInv, LoadFindings
  PROVE  HookInv'
<1>1. Inv' /\ UNCHANGED <<profile, findings, records>>
  BY TaskStays DEF LoadFindings
<1>2. /\ hook = "profile" /\ hook' = "findings" /\ seen' = [seen EXCEPT !.findings = findings]
      /\ UNCHANGED <<answer, gates, moved>>
  BY DEF LoadFindings, history
<1>3. /\ DOMAIN seen' = {"profile", "findings", "rounds"} /\ seen'.profile = seen.profile
      /\ seen'.findings = findings /\ seen'.rounds = seen.rounds
  BY <1>2 DEF HookInv, HookTypeOK
<1>4. HookTypeOK'
  BY <1>1, <1>2, <1>3 DEF HookInv, HookTypeOK, Inv, TypeOK
<1>5. ReadsAgree'
  BY <1>1, <1>2, <1>3 DEF HookInv, ReadsAgree, Looking, SeenOpen, GateFollowed, GateOpen
<1>6. GateFollowed'
  BY <1>2, TaskStays DEF HookInv, GateFollowed, Looking, LoadFindings
<1> QED BY <1>1, <1>4, <1>5, <1>6 DEF HookInv

LEMMA ListRoundsStep ==
  ASSUME HookInv, ListRounds
  PROVE  HookInv'
<1>1. Inv' /\ UNCHANGED <<profile, findings, records>>
  BY TaskStays DEF ListRounds
<1>2. /\ hook = "findings" /\ hook' = "rounds"
      /\ seen' = [seen EXCEPT !.rounds = DOMAIN records]
      /\ UNCHANGED <<answer, gates, moved>>
  BY DEF ListRounds, history
<1>3. /\ DOMAIN seen' = {"profile", "findings", "rounds"} /\ seen'.profile = seen.profile
      /\ seen'.findings = seen.findings /\ seen'.rounds = DOMAIN records
  BY <1>2 DEF HookInv, HookTypeOK
<1>4. HookTypeOK'
  BY <1>1, <1>2, <1>3 DEF HookInv, HookTypeOK, Inv
<1>5. ReadsAgree'
  BY <1>1, <1>2, <1>3 DEF HookInv, ReadsAgree, Looking, SeenOpen
<1>6. GateFollowed'
  BY <1>2, TaskStays DEF HookInv, GateFollowed, Looking, ListRounds
<1> QED BY <1>1, <1>4, <1>5, <1>6 DEF HookInv

LEMMA LeaveStep ==
  ASSUME HookInv, NEW told \in {"allow", "block"}, Leave(told)
  PROVE  HookInv'
<1>1. Inv' /\ UNCHANGED <<profile, findings, records>>
  BY TaskStays DEF Leave
<1>2. answer' = told /\ hook' = "out" /\ seen' = Unread /\ gates' = {} /\ moved' = {}
  BY DEF Leave
<1>3. IsFindingSet(NoFindings)
  BY DEF NoFindings, IsFindingSet
<1>4. HookTypeOK'
  BY <1>1, <1>2, <1>3 DEF HookTypeOK, Unread, Inv
<1>5. ReadsAgree'
  BY <1>2 DEF ReadsAgree, Looking
<1>6. GateFollowed'
  BY <1>2 DEF GateFollowed, Looking
<1> QED BY <1>1, <1>4, <1>5, <1>6 DEF HookInv

LEMMA HookNextKeeps == HookInv /\ [HookNext]_allVars => HookInv'
<1> SUFFICES ASSUME HookInv, [HookNext]_allVars PROVE HookInv'
  OBVIOUS
<1>1. CASE LoadProfile
  BY <1>1, LoadProfileStep
<1>2. CASE LoadFindings
  BY <1>2, LoadFindingsStep
<1>3. CASE ListRounds
  BY <1>3, ListRoundsStep
<1>4. CASE Answer \/ Refuse \/ StandDown
  <2>1. Leave("allow") \/ Leave("block")
    BY <1>4 DEF Answer, Refuse, StandDown
  <2> QED BY <2>1, LeaveStep
<1>5. CASE Next /\ UNCHANGED hookVars /\ Watch
  BY <1>5, OtherStep
<1>6. CASE UNCHANGED allVars
  <2>1. UNCHANGED vars /\ UNCHANGED <<hook, seen, answer, gates, moved>>
    BY <1>6 DEF allVars, hookVars, history
  <2>2. Inv' /\ UNCHANGED <<profile, findings, records>>
    BY <2>1, TaskStays
  <2> QED BY <2>1, <2>2, TaskStays DEF HookInv, HookTypeOK, ReadsAgree, GateFollowed, SeenOpen,
               Looking, Inv
<1> QED BY <1>1, <1>2, <1>3, <1>4, <1>5, <1>6 DEF HookNext, HookStep

-----------------------------------------------------------------------------
LEMMA HookInvHolds == HookSpec => []HookInv
BY HookInitInv, HookNextKeeps, PTL DEF HookSpec

(* The hook and the task beside it stay well formed; a round it has listed   *)
(* stays ingested.                                                          *)
THEOREM HookTypes == HookSpec => []HookTypeOK
<1>1. HookInv => HookTypeOK
  BY DEF HookInv
<1> QED BY <1>1, HookInvHolds, PTL

(* Whatever was fixed, verified, ruled on or scanned between the reads, the   *)
(* gate lets a stop pass only if it was open at some moment, as long as no    *)
(* round was ingested and no rule changed.                                  *)
THEOREM AllowedWasOpen == HookSpec => AllowsWhatWasOpen
<1>1. ASSUME HookInv, Answer, answer' = "allow", moved = {}
      PROVE  TRUE \in gates
  <2>1. hook = "rounds" /\ OpenAsSeen
    BY <1>1 DEF Answer, Leave
  <2>2. seen.rounds = DOMAIN records /\ SeenOpen(records) \in gates
    BY <1>1, <2>1 DEF HookInv, ReadsAgree, Looking
  <2>3. [r \in seen.rounds |-> records[r]] = records
    BY <1>1, <2>2 DEF HookInv, Inv, TypeOK, AreRecords
  <2>4. SeenOpen(records)
    BY <2>1, <2>3 DEF OpenAsSeen, SeenOpen
  <2>5. SeenOpen(records) = TRUE
    BY <2>4, GateIsBoolean
  <2> QED BY <2>2, <2>5
<1>2. HookInv /\ [HookNext]_allVars =>
        [Answer /\ answer' = "allow" => TRUE \in gates \/ moved # {}]_allVars
  BY <1>1
<1> QED BY <1>2, HookInvHolds, PTL DEF HookSpec, AllowsWhatWasOpen

-----------------------------------------------------------------------------
(* The other direction.  While the gate has not been seen shut, nothing that  *)
(* the hook reads can show it shut: no step behind an open gate reopens what  *)
(* is settled unless it shuts the gate.                                      *)
SettledAsSeen(fs, id) ==
  /\ ~Claimed(fs[id]) /\ ~Pending(fs[id])
  /\ Unclassified(seen.profile, id) => fs[id].status = "wontfix"

StaysOpen ==
  Looking /\ FALSE \notin gates =>
    /\ \A id \in DOMAIN findings : SettledAsSeen(findings, id)
    /\ hook \in {"findings", "rounds"} =>
         \A id \in DOMAIN seen.findings :
           /\ id \in DOMAIN findings /\ seen.findings[id].first = findings[id].first
           /\ SettledAsSeen(seen.findings, id)
    /\ hook = "rounds" /\ "again" \notin moved =>
         RoundsSettled(seen.findings, [r \in seen.rounds |-> records[r]])

LookInv == HookInv /\ MemStands /\ StaysOpen

LEMMA OpenNow ==
  ASSUME HookInv, Looking, FALSE \notin gates
  PROVE  GateOpen
BY GateIsBoolean DEF HookInv, GateFollowed

(* A step from an open gate to an open gate: the findings are the same ones,  *)
(* first seen when they were, with the same status.                         *)
LEMMA OpenToOpen ==
  ASSUME Inv, MemStands, Next, GateOpen, GateOpen'
  PROVE  /\ DOMAIN findings' = DOMAIN findings
         /\ \A id \in DOMAIN findings :
              /\ Stands(findings, findings', id)
              /\ findings'[id].first = findings[id].first
<1>1. StepKeeps \/ UNCHANGED vars
  BY NextKeeps
<1>2. \A id \in DOMAIN findings :
        id \in DOMAIN findings' /\ findings'[id].first = findings[id].first
  <2>1. CASE StepKeeps
    BY <2>1 DEF StepKeeps, KeepsFindings
  <2>2. CASE UNCHANGED vars
    BY <2>2 DEF vars, disk
  <2> QED BY <1>1, <2>1, <2>2
<1>3. \A id \in DOMAIN findings' : Stands(findings, findings', id)
  <2>1. CASE Triage
    BY <2>1, IdleTriage DEF Stands
  <2>2. CASE Moves
    <3>1. \A id \in DOMAIN findings' : ~Claimed(findings'[id]) /\ ~Pending(findings'[id])
      <4>1. Inv'
        BY NextKeeps
      <4> QED BY <4>1 DEF GateOpen, Converged, OpenBlocking, DisputedPending,
                UnclassifiedPending, Claimed
    <3>2. \A id \in DOMAIN findings : ~Claimed(findings[id])
      BY OpenGateFacts
    <3> QED BY <2>2, <3>1, <3>2 DEF Moves
  <2> QED BY <2>1, <2>2, StepMoves
<1> QED BY <1>2, <1>3 DEF Stands

(* A step of the other process.                                             *)
LEMMA OtherStaysOpen ==
  ASSUME LookInv, Next, UNCHANGED hookVars, Watch, HookInv'
  PROVE  StaysOpen'
<1> SUFFICES ASSUME Looking', FALSE \notin gates' PROVE StaysOpen'
  BY DEF StaysOpen
<1>1. UNCHANGED <<hook, seen>> /\ Looking /\ gates' = gates \cup {GateOpen'}
      /\ moved' = moved \cup Changes
  BY DEF hookVars, Watch, Looking
<1>2. GateOpen /\ GateOpen'
  <2>1. GateOpen
    BY <1>1, OpenNow DEF LookInv
  <2>2. GateOpen' \in BOOLEAN
    BY DEF GateOpen, Converged
  <2> QED BY <1>1, <2>1, <2>2
<1>3. /\ DOMAIN findings' = DOMAIN findings
      /\ \A id \in DOMAIN findings :
           /\ Stands(findings, findings', id)
           /\ findings'[id].first = findings[id].first
  BY <1>2, OpenToOpen DEF LookInv, HookInv
<1>4. \A id \in DOMAIN findings' : SettledAsSeen(findings, id)'
  BY <1>1, <1>3 DEF LookInv, StaysOpen, SettledAsSeen, Stands, Claimed, Pending
<1>5. ASSUME hook \in {"findings", "rounds"}, NEW id \in DOMAIN seen.findings
      PROVE  /\ id \in DOMAIN findings' /\ seen.findings[id].first = findings'[id].first
             /\ SettledAsSeen(seen.findings, id)
  BY <1>1, <1>3, <1>5 DEF LookInv, StaysOpen
<1>6. ASSUME hook = "rounds", "again" \notin moved'
      PROVE  RoundsSettled(seen.findings, [r \in seen.rounds |-> records'[r]])
  <2>1. \A r \in DOMAIN records : records'[r] = records[r]
    BY <1>1, <1>6 DEF Changes
  <2>2. seen.rounds \subseteq DOMAIN records
    BY DEF LookInv, HookInv, HookTypeOK
  <2>3. [r \in seen.rounds |-> records'[r]] = [r \in seen.rounds |-> records[r]]
    BY <2>1, <2>2
  <2> QED BY <1>1, <1>6, <2>3 DEF LookInv, StaysOpen
<1> QED BY <1>1, <1>4, <1>5, <1>6 DEF StaysOpen, SettledAsSeen

(* The reads of the hook itself.                                            *)
LEMMA ReadsStayOpen ==
  ASSUME LookInv, HookStep, HookInv'
  PROVE  StaysOpen'
<1> SUFFICES ASSUME Looking', FALSE \notin gates' PROVE StaysOpen'
  BY DEF StaysOpen
<1>1. UNCHANGED <<profile, findings, records>>
  BY TaskStays DEF LookInv, HookStep, LoadProfile, LoadFindings, ListRounds, Answer, Refuse,
     StandDown, Leave
<1>2. CASE LoadProfile
  <2>1. hook' = "profile" /\ gates' = {GateOpen} /\ seen'.profile = profile
    BY <1>2 DEF LoadProfile, LookInv, HookInv, HookTypeOK
  <2>2. GateOpen
    BY <2>1, GateIsBoolean
  <2>3. \A id \in DOMAIN findings :
          /\ ~Claimed(findings[id]) /\ ~Pending(findings[id])
          /\ Unclassified(profile, id) => findings[id].status = "wontfix"
    BY <2>2, OpenGateFacts
  <2> QED BY <1>1, <2>1, <2>3 DEF StaysOpen, SettledAsSeen
<1>3. CASE LoadFindings
  <2>1. /\ hook = "profile" /\ hook' = "findings" /\ UNCHANGED <<gates, moved>>
        /\ seen'.profile = seen.profile /\ seen'.findings = findings
    BY <1>3 DEF LoadFindings, history, LookInv, HookInv, HookTypeOK
  <2>2. \A id \in DOMAIN findings : SettledAsSeen(findings, id)
    BY <2>1 DEF LookInv, StaysOpen, Looking
  <2> QED BY <1>1, <2>1, <2>2 DEF StaysOpen, SettledAsSeen
<1>4. CASE ListRounds
  <2>1. /\ hook = "findings" /\ hook' = "rounds" /\ UNCHANGED <<gates, moved>>
        /\ seen'.profile = seen.profile /\ seen'.findings = seen.findings
        /\ seen'.rounds = DOMAIN records
    BY <1>4 DEF ListRounds, history, LookInv, HookInv, HookTypeOK
  <2>2. RoundsSettled(findings, records)
    BY <2>1, OpenNow DEF LookInv, Looking, GateOpen, Converged
  <2>3. \A id \in DOMAIN seen.findings :
          /\ id \in DOMAIN findings /\ seen.findings[id].first = findings[id].first
          /\ SettledAsSeen(seen.findings, id)
    BY <2>1 DEF LookInv, StaysOpen, Looking
  <2>4. RoundsSettled(seen.findings, records)
    BY <2>2, <2>3 DEF RoundsSettled, IsQuiet, NewIn
  <2>5. [r \in DOMAIN records |-> records[r]] = records
    BY DEF LookInv, HookInv, Inv, TypeOK, AreRecords
  <2>6. \A id \in DOMAIN findings : SettledAsSeen(findings, id)
    BY <2>1 DEF LookInv, StaysOpen, Looking
  <2> QED BY <1>1, <2>1, <2>3, <2>4, <2>5, <2>6 DEF StaysOpen, SettledAsSeen
<1>5. CASE Answer \/ Refuse \/ StandDown
  BY <1>5 DEF Answer, Refuse, StandDown, Leave, Looking
<1> QED BY <1>2, <1>3, <1>4, <1>5 DEF HookStep

LEMMA LookInvHolds == HookSpec => []LookInv
<1>1. HookInit => LookInv
  BY HookInitInv DEF HookInit, Init, LookInv, MemStands, StaysOpen, Looking
<1>2. ASSUME LookInv, [HookNext]_allVars PROVE LookInv'
  <2>1. HookInv'
    BY <1>2, HookNextKeeps DEF LookInv
  <2>2. CASE HookStep
    <3>1. UNCHANGED vars
      BY <2>2 DEF HookStep, LoadProfile, LoadFindings, ListRounds, Answer, Refuse,
         StandDown, Leave
    <3>2. MemStands'
      BY <1>2, <3>1, StepMoves DEF LookInv, HookInv
    <3> QED BY <2>1, <2>2, <3>2, <1>2, ReadsStayOpen DEF LookInv
  <2>3. CASE Next /\ UNCHANGED hookVars /\ Watch
    <3>1. MemStands'
      BY <1>2, <2>3, StepMoves DEF LookInv, HookInv
    <3> QED BY <2>1, <2>3, <3>1, <1>2, OtherStaysOpen DEF LookInv
  <2>4. CASE UNCHANGED allVars
    BY <1>2, <2>1, <2>4 DEF LookInv, allVars, hookVars, history, vars, mergeVars, disk,
       MemStands, StaysOpen, Looking, SettledAsSeen, Stands
  <2> QED BY <1>2, <2>2, <2>3, <2>4 DEF HookNext
<1> QED BY <1>1, <1>2, PTL DEF HookSpec

(* A session is told to go on working only if the gate was shut at some       *)
(* moment of the look, whatever ran beside it, unless a round was ingested    *)
(* again.                                                                   *)
THEOREM BlockedWasShut == HookSpec => BlocksOnlyWhileShut
<1>1. ASSUME LookInv, Answer, answer' = "block", FALSE \notin gates, "again" \notin moved
      PROVE  FALSE
  <2>1. hook = "rounds" /\ ~OpenAsSeen
    BY <1>1 DEF Answer, Leave
  <2>2. /\ \A id \in DOMAIN seen.findings : SettledAsSeen(seen.findings, id)
        /\ RoundsSettled(seen.findings, [r \in seen.rounds |-> records[r]])
    BY <1>1, <2>1 DEF LookInv, StaysOpen, Looking
  <2>3. OpenAsSeen
    BY <2>2 DEF OpenAsSeen, Converged, OpenBlocking, DisputedPending, UnclassifiedPending,
       SettledAsSeen
  <2> QED BY <2>1, <2>3
<1>2. LookInv /\ [HookNext]_allVars =>
        [Answer /\ answer' = "block" => FALSE \in gates \/ "again" \in moved]_allVars
  BY <1>1
<1> QED BY <1>2, LookInvHolds, PTL DEF HookSpec, BlocksOnlyWhileShut
=============================================================================
