----------------------------- MODULE SpecFreeze -----------------------------
(***************************************************************************)
(* A features task: a spec document of items, frozen in spec.lock, marker   *)
(* comments that claim to implement them, and the findings on items without *)
(* a marker, which code decides (spec.py, and what cli.py, merge.py, verify.py *)
(* and converge.py make of it).  Agent-decided rules, and the optional rule *)
(* on markers that name no item, are left to TaskLoop.                      *)
(*                                                                          *)
(* One process at a time.  The user may edit spec and code between any two  *)
(* commands, so also between the scan of a round and its ingest.            *)
(***************************************************************************)
EXTENDS Staleness

CONSTANTS
  Items,       \* ids of spec items
  Others,      \* whether the document has more items, implemented and never edited
  Texts,       \* versions of the text of an item
  Unimplemented,  \* the finding on each item
  MaxEdits     \* bound on edits by the user, for TLC

ASSUME ItemsAssumption ==
  /\ Unimplemented \in [Items -> Ids] /\ Others \in BOOLEAN /\ MaxEdits \in Nat
  /\ \A i \in Items : Unimplemented[i].rule \in OwnedRules
  /\ \A i, j \in Items : Unimplemented[i] = Unimplemented[j] => i = j

VARIABLES
  text,       \* the document: the text of each item in it
  lock,       \* spec.lock: the text of each item when it was frozen
  frozen,     \* whether there is a spec.lock
  marked,     \* items that a marker in scope names
  edits,      \* edits by the user so far
  runs,       \* the runs/<n>.json: what each reports, and what it looked at
  findings,   \* findings.jsonl
  records,    \* the runs/<n>.ingest.json
  swept,      \* of each ingested round the items it looked at
  disturbed   \* items whose marker, or which themselves, the user once removed

spec == <<text, lock, frozen>>
vars == <<spec, marked, edits, runs, findings, records, swept, disturbed>>

SpecTexts == UNION { [is -> Texts] : is \in SUBSET Items }
Run == [raws : SUBSET Ids, ok : BOOLEAN, items : SUBSET Items]

TypeOK ==
  /\ text \in SpecTexts /\ lock \in SpecTexts /\ frozen \in BOOLEAN
  /\ marked \subseteq Items /\ disturbed \subseteq Items /\ edits \in 0 .. MaxEdits
  /\ DOMAIN runs \subseteq Rounds /\ runs \in [DOMAIN runs -> Run]
  /\ IsFindingSet(findings)
  /\ AreRecords(records) /\ DOMAIN records \subseteq DOMAIN runs
  /\ swept \in [DOMAIN records -> SUBSET Items]

Init ==
  /\ text \in SpecTexts /\ marked \in SUBSET Items
  /\ lock = [i \in {} |-> 0] /\ frozen = FALSE
  /\ edits = 0 /\ disturbed = {}
  /\ runs = [r \in {} |-> 0] /\ records = [r \in {} |-> 0] /\ swept = [r \in {} |-> {}]
  /\ findings = [id \in {} |-> NewFinding(1)]

InDocument == DOMAIN text
NoItems == InDocument = {} /\ ~Others
Profile == [rule_ids |-> OwnedRules, exhaustive |-> OwnedRules]

-----------------------------------------------------------------------------
(* spec.drift_of: items added, reworded or removed since the freeze.         *)
Drift == (DOMAIN text \ DOMAIN lock) \cup (DOMAIN lock \ DOMAIN text)
         \cup { i \in DOMAIN text \cap DOMAIN lock : text[i] # lock[i] }

(* Mutant: only what the lock has is compared.                              *)
BlockedByRewording ==
  NoItems \/ ~frozen \/ (\E i \in DOMAIN text \cap DOMAIN lock : text[i] # lock[i])

(* spec.blockers: an empty document is an error, and shuts the gate too.     *)
Blocked == NoItems \/ ~frozen \/ Drift # {}

(* spec.run: the items nothing claims to implement.                         *)
Sweep == { Unimplemented[i] : i \in InDocument \ marked }

Edit == edits < MaxEdits /\ edits' = edits + 1
        /\ UNCHANGED <<lock, frozen, runs, findings, records, swept>>

EditSpec(i) ==
  /\ Edit
  /\ \/ \E v \in Texts : text' = Put(text, i, v) /\ text' # text /\ UNCHANGED disturbed
     \/ /\ i \in InDocument
        /\ text' = [j \in InDocument \ {i} |-> text[j]] /\ disturbed' = disturbed \cup {i}
  /\ UNCHANGED marked

EditCode(i) ==
  /\ Edit
  /\ \/ i \notin marked /\ marked' = marked \cup {i} /\ UNCHANGED disturbed
     \/ i \in marked /\ marked' = marked \ {i} /\ disturbed' = disturbed \cup {i}
  /\ UNCHANGED text

(* coldsweep spec freeze.  The round it notes in the lock is only shown.  *)
Freeze ==
  /\ ~NoItems
  /\ lock' = text /\ frozen' = TRUE
  /\ UNCHANGED <<text, marked, edits, runs, findings, records, swept, disturbed>>

-----------------------------------------------------------------------------
(* coldsweep scan: refused while the gate is blocked.  ok: every agent shard *)
(* reported as well.  Any round may be scanned at any time, so also one whose *)
(* number is below that of a round scanned before it (--round).              *)
Scan(n, ok) ==
  /\ ~Blocked
  /\ runs' = Put(runs, n, [raws |-> Sweep, ok |-> ok, items |-> InDocument])
  /\ UNCHANGED <<spec, marked, edits, findings, records, swept, disturbed>>

(* coldsweep ingest.  The rule is exhaustive, so a raw finding meets its  *)
(* own identity or is new; then whatever the round is silent on is closed.  *)
(* What the record says was added is left out: no gate reads it.            *)
Folded(fs, r) ==
  CloseStale(Matched(fs, runs[r].raws, r), [round |-> r, ok |-> runs[r].ok, decided |-> TRUE])

Ingest(r) ==
  /\ r \in DOMAIN runs
  /\ findings' = Folded(findings, r)
  /\ records' = Put(records, r, [new |-> {}, failed |-> ~runs[r].ok])
  /\ swept' = Put(swept, r, runs[r].items)
  /\ UNCHANGED <<spec, marked, edits, runs, disturbed>>

(* coldsweep fix: the agents claim or dispute open findings.  A claim may be *)
(* true or not.                                                             *)
Fix(named) ==
  /\ named \subseteq { id \in DOMAIN findings : findings[id].status = "open" }
  /\ \E outcome \in [named -> {"fixed", "disputed"}] :
       findings' = [id \in DOMAIN findings |->
                      IF id \notin named THEN findings[id]
                      ELSE IF outcome[id] = "fixed" THEN [findings[id] EXCEPT !.status = "fixed"]
                      ELSE Dispute(findings[id])]
  /\ \E added \in SUBSET { i \in Items : Unimplemented[i] \in named } : marked' = marked \cup added
  /\ UNCHANGED <<spec, edits, runs, records, swept, disturbed>>

FixedOnes == { id \in DOMAIN findings : findings[id].status = "fixed" }
HasMarker(id) == \E i \in marked : id = Unimplemented[i]

(* Mutant: an item is verified when it is in the document.                  *)
VerifyByDocument ==
  /\ FixedOnes # {}
  /\ findings' = [id \in DOMAIN findings |->
       IF id \notin FixedOnes THEN findings[id]
       ELSE Judge(findings[id], IF \E i \in InDocument : id = Unimplemented[i]
                                  THEN "verified" ELSE "reopened")]
  /\ UNCHANGED <<spec, marked, edits, runs, records, swept, disturbed>>

(* coldsweep verify: decided by the markers as they are now.  If they cannot *)
(* be read every claim is deferred, which changes nothing.                  *)
Verify ==
  /\ FixedOnes # {}
  /\ findings' = [id \in DOMAIN findings |->
       IF id \notin FixedOnes THEN findings[id]
       ELSE Judge(findings[id], IF HasMarker(id) THEN "verified" ELSE "reopened")]
  /\ UNCHANGED <<spec, marked, edits, runs, records, swept, disturbed>>

(* adjudicate: a dispute about an item that has its marker is settled, if    *)
(* the markers can be read (decided); any other is put to a person, who      *)
(* accepts it, reopens it, drops it or skips.                               *)
Ruling(id, choice, decided) ==
  IF decided /\ HasMarker(id)
    THEN [findings[id] EXCEPT !.status = "verified", !.adjudicated = TRUE]
  ELSE CASE choice = "accept" -> [findings[id] EXCEPT !.adjudicated = TRUE]
         [] choice = "reopen" -> [findings[id] EXCEPT !.status = "open", !.adjudicated = FALSE,
                                          !.reopens = 0]
         [] choice = "wontfix" -> [findings[id] EXCEPT !.status = "wontfix", !.adjudicated = TRUE]
         [] choice = "skip" -> findings[id]

Adjudicate ==
  /\ DisputedPending(findings) # {}
  /\ \E choice \in [DisputedPending(findings) -> {"accept", "reopen", "wontfix", "skip"}],
       decided \in BOOLEAN :
       findings' = [id \in DOMAIN findings |->
                      IF id \in DisputedPending(findings) THEN Ruling(id, choice[id], decided)
                      ELSE findings[id]]
  /\ UNCHANGED <<spec, marked, edits, runs, records, swept, disturbed>>

Next ==
  \/ \E i \in Items : EditSpec(i) \/ EditCode(i)
  \/ Freeze
  \/ \E n \in Rounds : Ingest(n) \/ \E ok \in BOOLEAN : Scan(n, ok)
  \/ \E named \in SUBSET DOMAIN findings : Fix(named)
  \/ Verify \/ Adjudicate

Spec == Init /\ [][Next]_vars

-----------------------------------------------------------------------------
DecidableGate == Half(findings, records, Decidable(Profile))

RuledOn(i) ==
  /\ Unimplemented[i] \in DOMAIN findings
  /\ findings[Unimplemented[i]].adjudicated
  /\ findings[Unimplemented[i]].status \in {"disputed", "wontfix"}

(* A round later than all that looked at the item was ingested.             *)
PassedOver(i) ==
  \E q \in DOMAIN records : \A r \in DOMAIN records : i \in swept[r] => r < q

(* The decidable gate opens over no item that a round of its window looked   *)
(* at and that is neither implemented nor ruled on.  Excepted are items the  *)
(* user disturbed after the look, and those passed over, as below.           *)
GateCoversWhatItSwept ==
  DecidableGate =>
    \A i \in Items \ disturbed :
      (\E r \in Tail(DOMAIN records) : i \in swept[r]) =>
        i \in marked \/ RuledOn(i) \/ PassedOver(i)

(* "Proof, not silence" (merge.py): an item is verified only when a marker    *)
(* for it is there, or a later round never looked at it.  The second case is  *)
(* the code's: a finding is closed by any round with a later number that is  *)
(* silent on it, so round 3, scanned before the item was in the document,     *)
(* closes what round 2, scanned after that, has found.                       *)
VerifiedIsMarked ==
  \A i \in Items \ disturbed :
    Unimplemented[i] \in DOMAIN findings /\ findings[Unimplemented[i]].status = "verified" =>
      i \in marked \/ PassedOver(i)

(* No work item is about an item that was added to the document and never    *)
(* frozen, whenever it was added (spec.blockers shuts scans out till then).  *)
WorkIsFrozenWork ==
  \A i \in Items : Unimplemented[i] \in DOMAIN findings => i \in DOMAIN lock \cup disturbed

(* A round that was ingested is ingested again, after a crash before its      *)
(* record or by a user who is not sure: right after the first time nothing   *)
(* changes.  No sighting is counted twice and no reopen is.                  *)
IngestIsIdempotent ==
  \A r \in DOMAIN runs : Folded(Folded(findings, r), r) = Folded(findings, r)
=============================================================================
