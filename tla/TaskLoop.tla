------------------------------ MODULE TaskLoop ------------------------------
(***************************************************************************)
(* One task and the commands that act on it (cli.py), one process at a     *)
(* time: scan, ingest, fix, verify, adjudicate, an edit of the profile,    *)
(* and run, which chains the first four until the gate opens or it stops.  *)
(*                                                                         *)
(* What survives a crash is what store.py wrote: the profile, findings.    *)
(* jsonl, the runs/<n>.json and the runs/<n>.ingest.json.  An ingest       *)
(* writes two of them, one after the other.                                *)
(*                                                                         *)
(* Of a run file only its existence is kept.  What it reports is chosen    *)
(* when an ingest reads it, which adds no behaviour: the user may scan any *)
(* round again with --round right before, and a scan may report anything.  *)
(***************************************************************************)
EXTENDS Merge

CONSTANTS
  Profiles,     \* the profiles the user may write
  Foreign,      \* findings a fix agent may name though it was not sent to them
  Ceiling,      \* max_rounds
  MaxDisputes,  \* convergence.max_disputes; above Cardinality(Ids) it is unset
  Blockers      \* values of "the spec is unfrozen or drifted" the gate may meet

ASSUME ProfilesAssumption == \A p \in Profiles : ValidProfile(p)
ASSUME LoopAssumption ==
  /\ Foreign \subseteq Ids /\ Blockers \subseteq BOOLEAN
  /\ Ceiling \in Nat \ {0} /\ MaxDisputes \in Nat \ {0}

VARIABLES
  findings,  \* findings.jsonl
  scanned,   \* the rounds with a runs/<n>.json
  records,   \* the runs/<n>.ingest.json
  pc,        \* where the running command is
  mode       \* "run" or "no_fix" inside the loop of run, "cmd" outside it

disk == <<findings, scanned, records>>
vars == <<mergeVars, disk, pc, mode>>

NoFindings == [id \in {} |-> NewFinding(1)]
NoScan == [round |-> 1, ok |-> TRUE, decided |-> FALSE, raws |-> NoRaws]
Idle == pc = "idle"

TypeOK ==
  /\ MergeTypeOK
  /\ IsFindingSet(findings)
  /\ scanned \subseteq Rounds
  /\ AreRecords(records) /\ DOMAIN records \subseteq scanned
  /\ pc \in {"idle", "gate", "scan", "ingest", "merge", "record", "fix", "verify"}
  /\ mode \in {"cmd", "run", "no_fix"}

Init ==
  /\ profile \in Profiles
  /\ findings = NoFindings /\ scanned = {} /\ records = [r \in {} |-> RunRecord]
  /\ pc = "idle" /\ mode = "cmd"
  /\ scan = NoScan /\ mem = NoFindings /\ todo = NoRaws
  /\ claimed = {} /\ decisions = NoDecisions

-----------------------------------------------------------------------------
(* Leaving a command: everything it held in memory is gone.                 *)
DropMerge ==
  /\ scan' = NoScan /\ mem' = NoFindings /\ todo' = NoRaws
  /\ claimed' = {} /\ decisions' = NoDecisions

Exit == pc' = "idle" /\ mode' = "cmd"
Proceed(next) == pc' = (IF mode = "cmd" THEN "idle" ELSE next) /\ UNCHANGED mode

(* Mutant: the last round used, not the one after it.                       *)
IsNextRoundStuck(n) ==
  /\ \A r \in scanned \cup DOMAIN records : r <= n
  /\ n \in scanned \/ (n = 1 /\ scanned = {})

(* store.next_round: one above every round scanned or ingested.             *)
IsNextRound(n) ==
  /\ \A r \in scanned \cup DOMAIN records : r < n
  /\ n = 1 \/ n - 1 \in scanned \cup DOMAIN records

(* Bound: a run starts only when its last round stays within MaxRound.      *)
RoomToRun ==
  \A r \in scanned \cup {0} : r + Ceiling <= MaxRound + Cardinality(DOMAIN records)

StartRun ==
  /\ Idle /\ RoomToRun
  /\ pc' = "gate" /\ mode' \in {"run", "no_fix"}
  /\ UNCHANGED <<mergeVars, disk>>

MustStop(external) ==
  \/ Converged(findings, records, profile, external)
  \/ NeedsTriage(findings, records, profile, external)
  \/ Cardinality(DisputedPending(findings)) >= MaxDisputes
  \/ Cardinality(DOMAIN records) >= Ceiling

(* The top of the loop: converged, waiting on triage, too many disputes or  *)
(* out of rounds; otherwise another round.                                  *)
RunGate ==
  /\ pc = "gate"
  /\ \E external \in Blockers :
       \/ MustStop(external) /\ Exit
       \/ ~MustStop(external) /\ pc' = "scan" /\ UNCHANGED mode
  /\ UNCHANGED <<mergeVars, disk>>

-----------------------------------------------------------------------------
(* coldsweep scan [--round n]                                               *)
ScanCommand(n) ==
  /\ Idle
  /\ scanned' = scanned \cup {n}
  /\ UNCHANGED <<mergeVars, findings, records, pc, mode>>

(* run scans the next round.  A round with a failed shard is written to its *)
(* file and then stops the run.                                             *)
RunScan(n) ==
  /\ pc = "scan" /\ IsNextRound(n)
  /\ scanned' = scanned \cup {n}
  /\ \/ pc' = "ingest" /\ scan' = [scan EXCEPT !.round = n] /\ UNCHANGED mode
     \/ Exit /\ UNCHANGED scan
  /\ UNCHANGED <<profile, mem, todo, claimed, decisions, findings, records>>

(* coldsweep ingest runs/<r>.json, with --force when a shard failed.  run    *)
(* ingests the complete round it has just scanned.                          *)
StartIngest(r, ok, raws) ==
  /\ \/ Idle /\ r \in scanned
     \/ pc = "ingest" /\ r = scan.round /\ ok
  /\ pc' = "merge"
  /\ scan' = [round |-> r, ok |-> ok, decided |-> OwnedRules # {}, raws |-> raws]
  /\ mem' = findings /\ todo' = raws /\ claimed' = {} /\ decisions' = NoDecisions
  /\ UNCHANGED <<profile, disk, mode>>

Merging == pc = "merge" /\ MergeStep /\ UNCHANGED <<disk, pc, mode>>

(* Mutant: the record is written before the findings.                       *)
SaveFindingsLast ==
  /\ pc = "merge" /\ AllIngested
  /\ records' = Put(records, scan.round, RunRecord)
  /\ pc' = "record"
  /\ UNCHANGED <<mergeVars, findings, scanned, mode>>

SaveFindings ==
  /\ pc = "merge" /\ AllIngested
  /\ findings' = Merged
  /\ pc' = "record"
  /\ UNCHANGED <<mergeVars, scanned, records, mode>>

SaveRecord ==
  /\ pc = "record"
  /\ records' = Put(records, scan.round, RunRecord)
  /\ Proceed(IF mode = "run" THEN "fix" ELSE "gate")
  /\ DropMerge
  /\ UNCHANGED <<profile, findings, scanned>>

-----------------------------------------------------------------------------
(* What one fix agent reported on one finding.                              *)
Apply(f, outcome) ==
  IF outcome = "fixed" THEN [f EXCEPT !.status = "fixed"] ELSE Dispute(f)

(* Mutant: what silence closed is sent out to the agents again.             *)
WorkableLapsed == { id \in DOMAIN findings : findings[id].status \in {"open", "lapsed"}
                                             /\ ~Unclassified(profile, id) }

Workable == { id \in DOMAIN findings :
                findings[id].status = "open" /\ ~Unclassified(profile, id) }

(* The agents are sent to workable findings; an outcome is applied to any    *)
(* finding it names.  A finding no outcome stands for is left as it was: it  *)
(* was not selected, not reported on, its tests fail, its agent died, or the *)
(* save failed, which run does not stop on.                                 *)
Nameable == IF Workable = {} THEN {} ELSE Workable \cup (Foreign \cap DOMAIN findings)

Fix(named) ==
  /\ Idle \/ pc = "fix"
  /\ named \subseteq Nameable
  /\ \E outcome \in [named -> {"fixed", "disputed"}] :
       findings' = [id \in DOMAIN findings |->
                      IF id \in named THEN Apply(findings[id], outcome[id]) ELSE findings[id]]
  /\ Proceed("verify")
  /\ UNCHANGED <<mergeVars, scanned, records>>

Verdicts == { v \in [DOMAIN findings -> {"verified", "reopened", "deferred"}] :
                \A id \in DOMAIN findings :
                  v[id] \in (IF findings[id].status = "fixed"
                               THEN VerdictsOn(profile, id) ELSE {"deferred"}) }

Verify ==
  /\ Idle \/ pc = "verify"
  /\ \E v \in Verdicts :
       findings' = [id \in DOMAIN findings |-> Judge(findings[id], v[id])]
  /\ Proceed("gate")
  /\ UNCHANGED <<mergeVars, scanned, records>>

-----------------------------------------------------------------------------
(* settle_disputes: the deciders close the pending disputes they refute.     *)
(* Mutant: disputes about a rule without a decider are settled as well.      *)
SettleableAny == DisputedPending(findings)

Settleable == { id \in DisputedPending(findings) : id.rule \in DeciderRules }

Settle(fs, settled) ==
  [id \in DOMAIN fs |->
    IF id \in settled THEN [fs[id] EXCEPT !.status = "verified", !.adjudicated = TRUE]
    ELSE fs[id]]

(* What triage makes of a finding in the bucket, then of a pending dispute.  *)
(* A finding that is both is asked about twice, in this order.               *)
WontFix(f) == [f EXCEPT !.status = "wontfix", !.adjudicated = TRUE]

Rule(f, choice) ==
  CASE choice = "accept" -> [f EXCEPT !.adjudicated = TRUE]
    [] choice = "reopen" -> [f EXCEPT !.status = "open", !.adjudicated = FALSE, !.reopens = 0]
    [] choice = "wontfix" -> WontFix(f)
    [] choice = "skip" -> f

(* coldsweep adjudicate.  Both lists are fixed before the first prompt.  A    *)
(* rule adopted into the taxonomy is in the profile at once; the rulings are *)
(* saved at the end, unless the command dies before that.                   *)
Adjudicate(settled, adopted, dropped, saved) ==
  LET kept     == Settle(findings, settled)
      bucket   == UnclassifiedPending(findings, profile)
      disputes == DisputedPending(kept)
  IN  /\ adopted \cup dropped \subseteq bucket /\ adopted \cap dropped = {}
      /\ profile' = [profile EXCEPT !.rule_ids = @ \cup { id.rule : id \in adopted }]
      /\ \E choice \in [disputes -> {"accept", "reopen", "wontfix", "skip"}] :
           findings' =
             IF ~saved THEN kept
             ELSE [id \in DOMAIN kept |->
                    LET f == IF id \in dropped THEN WontFix(kept[id]) ELSE kept[id]
                    IN  IF id \in disputes THEN Rule(f, choice[id]) ELSE f]

Triage ==
  /\ Idle
  /\ \E settled \in SUBSET Settleable, adopted, dropped \in SUBSET DOMAIN findings,
        saved \in BOOLEAN : Adjudicate(settled, adopted, dropped, saved)
  /\ UNCHANGED <<scan, mem, todo, claimed, decisions, scanned, records, pc, mode>>

(* The user rewrites profile.yaml: rules are added, retired or handed over.  *)
EditProfile ==
  /\ Idle
  /\ profile' \in Profiles
  /\ UNCHANGED <<scan, mem, todo, claimed, decisions, disk, pc, mode>>

(* The process is killed, or a step fails with an error nothing handles: a    *)
(* subsystem that cannot run, an unusable anchor, a file that cannot be       *)
(* written.  What was saved stays.                                           *)
Crash == ~Idle /\ Exit /\ DropMerge /\ UNCHANGED <<profile, disk>>

-----------------------------------------------------------------------------
RunStep ==
  \/ RunGate
  \/ \E n \in Rounds : RunScan(n)
  \/ pc = "ingest" /\ \E r \in Rounds, raws \in Raws : StartIngest(r, TRUE, raws)
  \/ Merging \/ SaveFindings \/ SaveRecord
  \/ pc = "fix" /\ \E named \in SUBSET DOMAIN findings : Fix(named)
  \/ pc = "verify" /\ Verify

Command ==
  \/ StartRun \/ Triage \/ EditProfile
  \/ \E n \in Rounds : ScanCommand(n)
  \/ Idle /\ \E r \in scanned, ok \in BOOLEAN, raws \in Raws : StartIngest(r, ok, raws)
  \/ Idle /\ \E named \in SUBSET DOMAIN findings : Fix(named)
  \/ Idle /\ Verify

Next == RunStep \/ Command \/ Crash

Spec == Init /\ [][Next]_vars

(* A command that is running goes on to its end; nobody owes a new command,  *)
(* nor a crash.                                                              *)
FairSpec == Spec /\ WF_vars(RunStep)

-----------------------------------------------------------------------------
GateOpen == Converged(findings, records, profile, FALSE)

(* What an ingest record says it added is in findings.jsonl, first seen in   *)
(* that round: the findings are saved before the record, and neither a crash *)
(* between the two writes nor a later ingest of any round undoes it.         *)
RecordsMatchFindings ==
  \A r \in DOMAIN records : \A id \in records[r].new :
    id \in DOMAIN findings /\ findings[id].first = r

(* The gate is computed from findings.jsonl, yet it may open only over       *)
(* rounds whose own records show full coverage and nothing added, with every *)
(* finding closed or ruled on.                                              *)
GateIsBackedByRecords ==
  GateOpen =>
    /\ \A r \in Tail(DOMAIN records) : records[r].new = {} /\ ~records[r].failed
    /\ \A id \in DOMAIN findings :
         \/ findings[id].status \in {"verified", "lapsed", "wontfix"}
         \/ findings[id].status = "disputed" /\ findings[id].adjudicated

(* The global gate is what its halves make it: it is open exactly when        *)
(* converged --half opens for each half that has rules and everything off    *)
(* the taxonomy was retired, none of it first seen in the quiet window.      *)
GateIsItsHalves ==
  LET halves == { rules \in {Decidable(profile), Budgeted(profile)} : rules # {} }
  IN  halves # {} =>
        (GateOpen <=>
           /\ \A rules \in halves : Half(findings, records, rules)
           /\ \A id \in DOMAIN findings : Unclassified(profile, id) =>
                /\ findings[id].status = "wontfix"
                /\ findings[id].first \notin Tail(DOMAIN records))

(* The oscillation guard: unless an agent meddles with a finding it was not   *)
(* sent to, none that waits for work or was closed by silence has been       *)
(* reopened more often than the guard allows since a person last ruled on it. *)
GuardHolds ==
  \A id \in DOMAIN findings \ Foreign :
    findings[id].status \in {"open", "fixed", "lapsed"} => findings[id].reopens <= MaxReopens

(* No finding is ever dropped, and what the quiet window and the staleness    *)
(* rule count on only moves forward, out-of-order ingests included.          *)
KeepsFindings ==
  \A id \in DOMAIN findings :
    /\ id \in DOMAIN findings'
    /\ findings'[id].first = findings[id].first
    /\ findings'[id].last >= findings[id].last
NothingIsForgotten == [][KeepsFindings]_vars

(* Whatever was ruled on or waits for a ruling keeps its status through every *)
(* scan, ingest, fix and verify: only adjudicate moves it.                    *)
KeepsRulings ==
  \A id \in DOMAIN findings \ Foreign :
    findings[id].status \in {"disputed", "wontfix"} =>
      findings'[id].status = findings[id].status
RulingsStand == [][KeepsRulings \/ Triage]_vars

(* A ruling does not carry over: a finding that becomes disputed, for         *)
(* whichever reason, waits for a ruling of its own, even if an earlier        *)
(* dispute about it was settled.                                             *)
NewDisputesPending ==
  \A id \in DOMAIN findings :
    findings[id].status # "disputed" /\ findings'[id].status = "disputed" =>
      findings'[id].adjudicated = FALSE
DisputesStartPending == [][NewDisputesPending]_vars

(* What the gate calls triage no scan can do: where only triage is left, the  *)
(* gate opens on adjudicate or an edit of the taxonomy and on nothing else.   *)
OnlyTriageOpens ==
  [][NeedsTriage(findings, records, profile, FALSE) /\ GateOpen' =>
       Triage \/ EditProfile]_vars

(* An open gate stays open through fixes, verdicts, rulings, scans and        *)
(* crashes: a round that was ingested or an edit of the taxonomy may shut it  *)
(* and nothing else.                                                        *)
OnlyRoundsShut ==
  [][GateOpen /\ ~GateOpen' => SaveFindings \/ SaveRecord \/ EditProfile]_vars

(* A run never turns in place: every step of it leads on to the next stage of *)
(* its loop, takes a raw finding off the merge, or adds a round to the        *)
(* ingested ones, of which there were less than its ceiling.                 *)
StagesLeft ==
  CASE pc = "fix" -> 6 [] pc = "verify" -> 5 [] pc = "gate" -> 4 [] pc = "scan" -> 3
    [] pc = "ingest" -> 2 [] pc = "merge" -> 1 [] pc = "record" -> 0

AddsRound ==
  /\ Cardinality(DOMAIN records) < Ceiling
  /\ \E r \in Rounds \ DOMAIN records : DOMAIN records' = DOMAIN records \cup {r}

TakesRaw == pc = "merge" /\ \E id \in Ids : todo[id] > 0 /\ todo' = [todo EXCEPT ![id] = @ - 1]

RunAdvances ==
  [][mode # "cmd" /\ mode' # "cmd" =>
       \/ AddsRound
       \/ records' = records /\ (StagesLeft' < StagesLeft \/ (pc' = pc /\ TakesRaw))]_vars

(* A run ends: it converges, hands over to triage or spends its rounds.       *)
RunEnds == pc = "gate" ~> Idle

-----------------------------------------------------------------------------
(* The task as Lifecycle sees it: an ingest takes effect where it saves the  *)
(* findings, and a crash before that is no step at all.                      *)
LifeIn(fs, id) ==
  IF id \notin DOMAIN fs THEN "unseen"
  ELSE IF Claimed(fs[id]) THEN "work"
  ELSE IF fs[id].status \in {"verified", "lapsed"} THEN "closed"
  ELSE IF Pending(fs[id]) THEN "disputed" ELSE "ruled"

Own == Ids \ Foreign
Promised == INSTANCE Lifecycle WITH
  Ids <- Own,
  Refutable <- { id \in Own : id.rule \in DeciderRules },
  life <- [id \in Own |-> LifeIn(findings, id)],
  folding <- pc = "merge"

(* Every history of a task is one that Lifecycle allows, crashes, forced and   *)
(* repeated ingests and edits of the taxonomy included: rounds take effect as *)
(* a whole, only they bring a finding up or back, fixes and verdicts stay     *)
(* with work in hand, and only triage moves what is disputed or ruled on.     *)
FollowsLifecycle == Promised!Spec
=============================================================================
