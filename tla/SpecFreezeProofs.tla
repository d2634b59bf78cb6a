-------------------------- MODULE SpecFreezeProofs --------------------------
(***************************************************************************)
(* What a features task can rely on, for any items, texts, rounds and edits *)
(* of spec and code between commands.                                      *)
(*                                                                         *)
(* The argument: a round that looked at an item and did not report it found *)
(* its marker, which stays until an edit disturbs the item.  So an item     *)
(* without a marker was last seen no earlier than the last round that       *)
(* looked at it, and what closes its finding is a round later than those.   *)
(***************************************************************************)
EXTENDS SpecFreeze, FindingLemmas

Known == DOMAIN lock \cup disturbed

LockIsDocument == DOMAIN lock \subseteq InDocument \cup disturbed

RunsAreKnown ==
  \A r \in DOMAIN runs :
    /\ runs[r].items \subseteq Known
    /\ \A id \in runs[r].raws : \E i \in runs[r].items : id = Unimplemented[i]

FindingsAreKnown ==
  \A id \in DOMAIN findings : \E i \in Known : i \in Items /\ id = Unimplemented[i]

SilenceIsMarked ==
  \A r \in DOMAIN runs : \A i \in runs[r].items \ disturbed :
    Unimplemented[i] \notin runs[r].raws => i \in marked

SweptIsTracked ==
  \A r \in DOMAIN swept : \A i \in swept[r] \ disturbed :
    \/ i \in marked
    \/ Unimplemented[i] \in DOMAIN findings /\ findings[Unimplemented[i]].last >= r

(* Code decides these findings: none lapses, and none is dropped unruled.    *)
NoneLapses ==
  \A id \in DOMAIN findings :
    /\ findings[id].status # "lapsed"
    /\ findings[id].status = "wontfix" => findings[id].adjudicated

RunsInv == RunsAreKnown /\ SilenceIsMarked
FindingsInv ==
  FindingsAreKnown /\ VerifiedIsMarked /\ SweptIsTracked /\ NoneLapses

IInv == TypeOK /\ LockIsDocument /\ RunsInv /\ FindingsInv

USE ItemsAssumption, BoundsAssumption

(* The finding of an item is the finding of no other.                       *)
LEMMA OneItemEach ==
  ASSUME NEW i \in Items, NEW j \in Items, Unimplemented[i] = Unimplemented[j]
  PROVE  i = j
OBVIOUS

LEMMA ItemFacts ==
  ASSUME TypeOK, NEW r \in DOMAIN runs
  PROVE  /\ runs[r].items \subseteq Items /\ runs[r].raws \subseteq Ids /\ runs[r].ok \in BOOLEAN
         /\ r \in Rounds
BY DEF TypeOK, Run

-----------------------------------------------------------------------------
(* The steps, one lemma each.                                               *)
LEMMA InitIInv == Init => IInv
<1> SUFFICES ASSUME Init PROVE IInv
  OBVIOUS
<1>1. /\ DOMAIN runs = {} /\ DOMAIN findings = {} /\ DOMAIN records = {} /\ DOMAIN swept = {}
      /\ DOMAIN lock = {} /\ disturbed = {} /\ frozen = FALSE
  BY DEF Init
<1>2. lock \in SpecTexts
  <2>1. lock \in [{} -> Texts]
    BY <1>1 DEF Init
  <2> QED BY <2>1 DEF SpecTexts
<1>3. TypeOK
  <2>1. /\ runs \in [{} -> Run] /\ records \in [{} -> Record] /\ swept \in [{} -> SUBSET Items]
        /\ findings \in [{} -> Finding]
    BY DEF Init
  <2>2. /\ text \in SpecTexts /\ marked \subseteq Items /\ disturbed \subseteq Items
        /\ edits \in 0 .. MaxEdits
    BY DEF Init
  <2>3. frozen \in BOOLEAN
    BY <1>1
  <2> QED BY <1>1, <1>2, <2>1, <2>2, <2>3 DEF TypeOK, IsFindingSet, AreRecords
<1>4. LockIsDocument /\ RunsInv
  BY <1>1 DEF LockIsDocument, RunsInv, RunsAreKnown, SilenceIsMarked
<1>5. FindingsInv
  BY <1>1 DEF FindingsInv, FindingsAreKnown, VerifiedIsMarked, PassedOver, SweptIsTracked,
     NoneLapses
<1> QED BY <1>3, <1>4, <1>5 DEF IInv

(* An edit: whatever it takes away from the task, it disturbs.              *)
LEMMA EditStep ==
  ASSUME IInv, NEW i \in Items, EditSpec(i) \/ EditCode(i)
  PROVE  IInv'
<1>1. /\ UNCHANGED <<lock, frozen, runs, findings, records, swept>>
      /\ edits < MaxEdits /\ edits' = edits + 1
  BY DEF EditSpec, EditCode, Edit
<1>2. /\ text' \in SpecTexts /\ marked' \subseteq Items /\ disturbed' \subseteq Items
      /\ disturbed \subseteq disturbed'
      /\ DOMAIN text \subseteq DOMAIN text' \cup disturbed'
      /\ marked \subseteq marked' \cup disturbed'
  <2>1. PICK is \in SUBSET Items : text \in [is -> Texts]
    BY DEF IInv, TypeOK, SpecTexts
  <2>2. marked \subseteq Items /\ disturbed \subseteq Items
    BY DEF IInv, TypeOK
  <2>3. CASE (\E v \in Texts : text' = Put(text, i, v)) /\ UNCHANGED <<disturbed, marked>>
    <3>1. text' \in [is \cup {i} -> Texts]
      BY <2>1, <2>3 DEF Put
    <3>2. text' \in SpecTexts
      BY <3>1 DEF SpecTexts
    <3>3. DOMAIN text \subseteq DOMAIN text'
      BY <2>1, <3>1
    <3> QED BY <2>2, <2>3, <3>2, <3>3
  <2>4. CASE /\ text' = [j \in InDocument \ {i} |-> text[j]] /\ disturbed' = disturbed \cup {i}
             /\ UNCHANGED marked
    <3>1. text' \in [is \ {i} -> Texts]
      BY <2>1, <2>4 DEF InDocument
    <3>2. text' \in SpecTexts
      BY <3>1 DEF SpecTexts
    <3>3. DOMAIN text = is /\ DOMAIN text' = is \ {i} /\ i \in disturbed'
      BY <2>1, <2>4 DEF InDocument
    <3> QED BY <2>2, <2>4, <3>2, <3>3
  <2>5. CASE /\ UNCHANGED text
             /\ \/ marked' = marked \cup {i} /\ UNCHANGED disturbed
                \/ marked' = marked \ {i} /\ disturbed' = disturbed \cup {i}
    <3>1. text' \in SpecTexts
      BY <2>1, <2>5 DEF SpecTexts
    <3> QED BY <2>2, <2>5, <3>1
  <2>6. CASE EditSpec(i)
    <3>1. UNCHANGED marked
      BY <2>6 DEF EditSpec
    <3>2. CASE (\E v \in Texts : text' = Put(text, i, v)) /\ UNCHANGED disturbed
      BY <2>3, <3>1, <3>2
    <3>3. CASE text' = [j \in InDocument \ {i} |-> text[j]] /\ disturbed' = disturbed \cup {i}
      BY <2>4, <3>1, <3>3
    <3> QED BY <2>6, <3>2, <3>3, Zenon DEF EditSpec
  <2>7. CASE EditCode(i)
    BY <2>5, <2>7 DEF EditCode
  <2> QED BY <2>6, <2>7
<1>3. edits' \in 0 .. MaxEdits
  BY <1>1 DEF IInv, TypeOK
<1>4. TypeOK'
  BY <1>1, <1>2, <1>3 DEF IInv, TypeOK
<1>5. LockIsDocument'
  BY <1>1, <1>2 DEF IInv, LockIsDocument, InDocument
<1>6. RunsInv'
  <2>1. RunsAreKnown'
    BY <1>1, <1>2 DEF IInv, RunsInv, RunsAreKnown, Known
  <2>2. SilenceIsMarked'
    BY <1>1, <1>2 DEF IInv, RunsInv, SilenceIsMarked
  <2> QED BY <2>1, <2>2 DEF RunsInv
<1>7. FindingsInv'
  <2>1. FindingsAreKnown'
    BY <1>1, <1>2 DEF IInv, FindingsInv, FindingsAreKnown, Known
  <2>2. VerifiedIsMarked'
    BY <1>1, <1>2 DEF IInv, FindingsInv, VerifiedIsMarked, PassedOver
  <2>3. SweptIsTracked'
    BY <1>1, <1>2 DEF IInv, FindingsInv, SweptIsTracked
  <2>4. NoneLapses'
    BY <1>1 DEF IInv, FindingsInv, NoneLapses
  <2> QED BY <2>1, <2>2, <2>3, <2>4 DEF FindingsInv
<1> QED BY <1>4, <1>5, <1>6, <1>7 DEF IInv

(* A freeze: what left the lock had left the document.                      *)
LEMMA FreezeStep ==
  ASSUME IInv, Freeze
  PROVE  IInv'
<1>1. /\ lock' = text /\ frozen' = TRUE
      /\ UNCHANGED <<text, marked, edits, runs, findings, records, swept, disturbed>>
  BY DEF Freeze
<1>2. TypeOK'
  BY <1>1 DEF IInv, TypeOK
<1>3. Known \subseteq Known' /\ LockIsDocument'
  BY <1>1 DEF IInv, LockIsDocument, Known, InDocument
<1>4. RunsInv'
  BY <1>1, <1>3 DEF IInv, RunsInv, RunsAreKnown, SilenceIsMarked
<1>5. FindingsInv'
  BY <1>1, <1>3 DEF IInv, FindingsInv, FindingsAreKnown, VerifiedIsMarked, PassedOver,
     SweptIsTracked, NoneLapses
<1> QED BY <1>2, <1>3, <1>4, <1>5 DEF IInv

(* A scan, which looks at the document it is frozen with.                   *)
LEMMA ScanStep ==
  ASSUME IInv, NEW n \in Rounds, NEW ok \in BOOLEAN, Scan(n, ok)
  PROVE  IInv'
<1> DEFINE run == [raws |-> Sweep, ok |-> ok, items |-> InDocument]
<1>1. /\ ~Blocked /\ runs' = Put(runs, n, run)
      /\ UNCHANGED <<text, lock, frozen, marked, edits, findings, records, swept, disturbed>>
  BY DEF Scan, spec
<1>2. InDocument = DOMAIN lock /\ InDocument \subseteq Items
  BY <1>1 DEF Blocked, Drift, InDocument, IInv, TypeOK, SpecTexts
<1>3. Sweep \subseteq Ids /\ \A id \in Sweep : \E i \in InDocument : id = Unimplemented[i]
  BY <1>2 DEF Sweep
<1>4. run \in Run /\ run.items = InDocument /\ run.raws = Sweep
  BY <1>2, <1>3 DEF Run
<1> HIDE DEF run
<1>5. /\ DOMAIN runs' = DOMAIN runs \cup {n} /\ runs'[n] = run
      /\ \A r \in DOMAIN runs \ {n} : runs'[r] = runs[r]
      /\ runs' = [r \in DOMAIN runs' |-> runs'[r]]
  BY <1>1 DEF Put
<1>6. TypeOK'
  <2>1. DOMAIN runs' \subseteq Rounds /\ runs' \in [DOMAIN runs' -> Run]
    BY <1>4, <1>5 DEF IInv, TypeOK
  <2>2. DOMAIN records \subseteq DOMAIN runs'
    BY <1>5 DEF IInv, TypeOK
  <2> QED BY <1>1, <2>1, <2>2 DEF IInv, TypeOK
<1>7. Known' = Known /\ InDocument \subseteq Known'
  BY <1>1, <1>2 DEF Known
<1>8. LockIsDocument'
  BY <1>1 DEF IInv, LockIsDocument, InDocument
<1>9. RunsInv'
  <2>1. RunsAreKnown'
    <3>1. \A r \in DOMAIN runs \ {n} :
            /\ runs'[r].items \subseteq Known'
            /\ \A id \in runs'[r].raws : \E i \in runs'[r].items : id = Unimplemented[i]
      BY <1>5, <1>7 DEF IInv, RunsInv, RunsAreKnown
    <3>2. /\ runs'[n].items \subseteq Known'
          /\ \A id \in runs'[n].raws : \E i \in runs'[n].items : id = Unimplemented[i]
      BY <1>3, <1>4, <1>5, <1>7
    <3> QED BY <1>5, <3>1, <3>2 DEF RunsAreKnown
  <2>2. SilenceIsMarked'
    <3> SUFFICES ASSUME NEW r \in DOMAIN runs', NEW i \in runs'[r].items \ disturbed,
                        Unimplemented[i] \notin runs'[r].raws
                 PROVE  i \in marked
      BY <1>1 DEF SilenceIsMarked
    <3>1. CASE r # n
      BY <1>5, <3>1 DEF IInv, RunsInv, SilenceIsMarked
    <3>2. CASE r = n
      BY <1>4, <1>5, <3>2 DEF Sweep
    <3> QED BY <3>1, <3>2
  <2> QED BY <2>1, <2>2 DEF RunsInv
<1>10. FindingsInv'
  <2>1. FindingsAreKnown'
    BY <1>1, <1>7 DEF IInv, FindingsInv, FindingsAreKnown
  <2>2. VerifiedIsMarked' /\ SweptIsTracked' /\ NoneLapses'
    BY <1>1 DEF IInv, FindingsInv, VerifiedIsMarked, PassedOver, SweptIsTracked, NoneLapses
  <2> QED BY <2>1, <2>2 DEF FindingsInv
<1> QED BY <1>6, <1>8, <1>9, <1>10 DEF IInv

(* A command that changes findings one by one: fix, verify and adjudicate.   *)
LEMMA UpdateStep ==
  ASSUME IInv, UNCHANGED <<text, lock, frozen, edits, runs, records, swept, disturbed>>,
         DOMAIN findings' = DOMAIN findings, findings' = [id \in DOMAIN findings |-> findings'[id]],
         marked \subseteq marked', marked' \subseteq Items,
         \A id \in DOMAIN findings :
           /\ findings'[id] \in Finding /\ findings'[id].last = findings[id].last
           /\ findings'[id].status = "verified" => findings[id].status = "verified" \/ HasMarker(id)
           /\ findings'[id].status # "lapsed"
           /\ findings'[id].status = "wontfix" => findings'[id].adjudicated
  PROVE  IInv'
<1>1. IsFindingSet(findings')
  BY DEF IInv, TypeOK, IsFindingSet
<1>2. TypeOK'
  BY <1>1 DEF IInv, TypeOK
<1>3. LockIsDocument'
  BY DEF IInv, LockIsDocument, InDocument
<1>4. RunsInv'
  BY DEF IInv, RunsInv, RunsAreKnown, SilenceIsMarked, Known
<1>5. FindingsInv'
  <2>1. FindingsAreKnown' /\ NoneLapses'
    BY DEF IInv, FindingsInv, FindingsAreKnown, NoneLapses, Known
  <2>2. SweptIsTracked'
    <3> SUFFICES ASSUME NEW r \in DOMAIN swept', NEW i \in swept'[r] \ disturbed'
                 PROVE  \/ i \in marked'
                        \/ /\ Unimplemented[i] \in DOMAIN findings'
                           /\ findings'[Unimplemented[i]].last >= r
      BY DEF SweptIsTracked
    <3>1. \/ i \in marked
          \/ Unimplemented[i] \in DOMAIN findings /\ findings[Unimplemented[i]].last >= r
      BY DEF IInv, FindingsInv, SweptIsTracked
    <3> QED BY <3>1
  <2>3. VerifiedIsMarked'
    <3> SUFFICES ASSUME NEW i \in Items \ disturbed, Unimplemented[i] \in DOMAIN findings,
                        findings'[Unimplemented[i]].status = "verified"
                 PROVE  i \in marked' \/ PassedOver(i)
      BY DEF VerifiedIsMarked, PassedOver
    <3>1. CASE findings[Unimplemented[i]].status = "verified"
      BY <3>1 DEF IInv, FindingsInv, VerifiedIsMarked
    <3>2. CASE HasMarker(Unimplemented[i])
      BY <3>2, OneItemEach DEF HasMarker, IInv, TypeOK
    <3> QED BY <3>1, <3>2
  <2> QED BY <2>1, <2>2, <2>3 DEF FindingsInv
<1> QED BY <1>2, <1>3, <1>4, <1>5 DEF IInv

(* What one round makes of one finding: reported again it counts as seen,    *)
(* passed over it may close, and closing means verified.                    *)
LEMMA FoldedFacts ==
  ASSUME IInv, NEW r \in DOMAIN runs, NEW m, m = Matched(findings, runs[r].raws, r)
  PROVE  /\ IsFindingSet(m) /\ DOMAIN m = DOMAIN findings \cup runs[r].raws
         /\ \A id \in DOMAIN findings \ runs[r].raws : m[id] = findings[id]
         /\ \A id \in runs[r].raws :
              /\ m[id].last >= r /\ m[id].status \in {"open", "disputed", "wontfix"}
              /\ m[id].status = "wontfix" => m[id].adjudicated
              /\ id \in DOMAIN findings => m[id].last >= findings[id].last
<1>1. r \in Rounds /\ runs[r].raws \subseteq Ids /\ IsFindingSet(findings)
  BY ItemFacts DEF IInv, TypeOK
<1>2. DOMAIN m = DOMAIN findings \cup runs[r].raws
  BY DEF Matched
<1>3. \A id \in DOMAIN findings \ runs[r].raws : m[id] = findings[id]
  BY DEF Matched
<1>4. ASSUME NEW id \in runs[r].raws
      PROVE  /\ m[id] \in Finding /\ m[id].last >= r
             /\ m[id].status \in {"open", "disputed", "wontfix"}
             /\ m[id].status = "wontfix" => m[id].adjudicated
             /\ id \in DOMAIN findings => m[id].last >= findings[id].last
  <2>1. CASE id \in DOMAIN findings
    <3>1. m[id] = Touch(findings[id], r)
      BY <2>1 DEF Matched
    <3>2. findings[id] \in Finding /\ findings[id].status \in Statuses
      BY <1>1, <2>1 DEF IsFindingSet, Finding
    <3>3. findings[id].status = "wontfix" => findings[id].adjudicated
      BY <2>1 DEF IInv, FindingsInv, NoneLapses
    <3>4. PICK f \in Finding : f = findings[id]
      BY <3>2
    <3>5. /\ Touch(f, r) \in Finding /\ Touch(f, r).last >= r /\ Touch(f, r).last >= f.last
          /\ f.status \in {"open", "disputed", "wontfix"} =>
               Touch(f, r).status = f.status /\ Touch(f, r).adjudicated = f.adjudicated
          /\ f.status \in {"fixed", "verified", "lapsed"} =>
               Touch(f, r).status \in {"open", "disputed"}
      BY <1>1, TouchFacts
    <3> QED BY <3>1, <3>2, <3>3, <3>4, <3>5 DEF Statuses
  <2>2. CASE id \notin DOMAIN findings
    <3>1. m[id] = NewFinding(r)
      BY <2>2 DEF Matched
    <3>2. /\ NewFinding(r) \in Finding /\ NewFinding(r).last = r
          /\ NewFinding(r).status = "open"
      BY <1>1, NewFindingFacts
    <3>3. m[id].last >= r
      BY <1>1, <3>1, <3>2 DEF Rounds
    <3> QED BY <2>2, <3>1, <3>2, <3>3
  <2> QED BY <2>1, <2>2
<1>5. IsFindingSet(m)
  <2>1. \A id \in DOMAIN m : m[id] \in Finding
    BY <1>1, <1>2, <1>3, <1>4 DEF IsFindingSet
  <2>2. m = [id \in DOMAIN m |-> m[id]]
    BY DEF Matched
  <2> QED BY <1>1, <1>2, <2>1, <2>2 DEF IsFindingSet
<1> QED BY <1>2, <1>3, <1>4, <1>5

LEMMA IngestStep ==
  ASSUME IInv, NEW r \in Rounds, Ingest(r)
  PROVE  IInv'
<1>0. PICK m : m = Matched(findings, runs[r].raws, r)
  OBVIOUS
<1>1. PICK s : s = [round |-> r, ok |-> runs[r].ok, decided |-> TRUE]
  OBVIOUS
<1>2. /\ r \in DOMAIN runs /\ findings' = CloseStale(m, s)
      /\ records' = Put(records, r, [new |-> {}, failed |-> ~runs[r].ok])
      /\ swept' = Put(swept, r, runs[r].items)
      /\ UNCHANGED <<text, lock, frozen, marked, edits, runs, disturbed>>
  BY <1>0, <1>1 DEF Ingest, Folded, spec
<1>3. /\ runs[r].items \subseteq Items /\ runs[r].raws \subseteq Ids
      /\ runs[r].items \subseteq Known
      /\ \A id \in runs[r].raws : \E i \in runs[r].items : id = Unimplemented[i]
  BY <1>2, ItemFacts DEF IInv, RunsInv, RunsAreKnown
<1>4. /\ IsFindingSet(m) /\ DOMAIN m = DOMAIN findings \cup runs[r].raws
      /\ \A id \in DOMAIN findings \ runs[r].raws : m[id] = findings[id]
      /\ \A id \in runs[r].raws :
           /\ m[id].last >= r /\ m[id].status \in {"open", "disputed", "wontfix"}
           /\ m[id].status = "wontfix" => m[id].adjudicated
           /\ id \in DOMAIN findings => m[id].last >= findings[id].last
  <2>1. r \in DOMAIN runs
    BY <1>2
  <2> HIDE <1>2
  <2>2. IsFindingSet(m)
    BY <1>0, <2>1, FoldedFacts
  <2>3. DOMAIN m = DOMAIN findings \cup runs[r].raws
    BY <1>0, <2>1, FoldedFacts
  <2>4. \A id \in DOMAIN findings \ runs[r].raws : m[id] = findings[id]
    BY <1>0 DEF Matched
  <2>5. \A id \in runs[r].raws :
           /\ m[id].last >= r /\ m[id].status \in {"open", "disputed", "wontfix"}
           /\ m[id].status = "wontfix" => m[id].adjudicated
           /\ id \in DOMAIN findings => m[id].last >= findings[id].last
    BY <1>0, <2>1, FoldedFacts
  <2> QED BY <2>2, <2>3, <2>4, <2>5
<1>5. /\ IsFindingSet(findings') /\ DOMAIN findings' = DOMAIN m
      /\ \A id \in DOMAIN m : /\ findings'[id].last = m[id].last
                              /\ findings'[id].adjudicated = m[id].adjudicated
  BY <1>2, <1>4, CloseStaleFacts
<1>6. ASSUME NEW id \in DOMAIN m
      PROVE  \/ findings'[id].status = m[id].status
             \/ findings'[id].status = "verified" /\ m[id].last < r
  <2>1. CASE s.ok /\ IsStale(m[id], id, s)
    <3>1. PICK i \in Items : id = Unimplemented[i]
      BY <1>3, <1>4 DEF IInv, FindingsInv, FindingsAreKnown
    <3>2. Proven(id, s)
      BY <1>1, <3>1 DEF Proven
    <3>3. findings'[id] = [m[id] EXCEPT !.status = "verified"]
      BY <1>2, <2>1, <3>2 DEF CloseStale
    <3>4. m[id] \in Finding
      BY <1>4 DEF IsFindingSet
    <3>5. findings'[id].status = "verified"
      BY <3>3, <3>4 DEF Finding
    <3> QED BY <1>1, <2>1, <3>5 DEF IsStale
  <2>2. CASE ~(s.ok /\ IsStale(m[id], id, s))
    BY <1>2, <2>2 DEF CloseStale
  <2> QED BY <2>1, <2>2
<1>7. /\ DOMAIN records' = DOMAIN records \cup {r} /\ DOMAIN swept' = DOMAIN swept \cup {r}
      /\ swept'[r] = runs[r].items /\ \A q \in DOMAIN swept \ {r} : swept'[q] = swept[q]
  BY <1>2 DEF Put
<1>8. TypeOK'
  <2>1. [new |-> {}, failed |-> ~runs[r].ok] \in Record
    BY DEF Record
  <2>2. AreRecords(records')
    BY <1>2, <2>1 DEF IInv, TypeOK, AreRecords, Put
  <2>3. swept' \in [DOMAIN records' -> SUBSET Items]
    BY <1>2, <1>3, <1>7 DEF IInv, TypeOK, Put
  <2>4. DOMAIN records' \subseteq DOMAIN runs
    BY <1>2, <1>7 DEF IInv, TypeOK
  <2> QED BY <1>2, <1>5, <2>2, <2>3, <2>4 DEF IInv, TypeOK
<1>9. LockIsDocument' /\ RunsInv'
  BY <1>2 DEF IInv, LockIsDocument, InDocument, RunsInv, RunsAreKnown, SilenceIsMarked, Known
<1>10. FindingsInv'
  <2>1. FindingsAreKnown'
    <3>1. \A id \in DOMAIN m : \E i \in Known : i \in Items /\ id = Unimplemented[i]
      BY <1>3, <1>4 DEF IInv, FindingsInv, FindingsAreKnown
    <3> QED BY <1>2, <1>5, <3>1 DEF FindingsAreKnown, Known
  <2>2. VerifiedIsMarked'
    <3> SUFFICES ASSUME NEW i \in Items \ disturbed, Unimplemented[i] \in DOMAIN m,
                        findings'[Unimplemented[i]].status = "verified", i \notin marked
                 PROVE  \E q \in DOMAIN records' : \A p \in DOMAIN records' :
                          i \in swept'[p] => p < q
      BY <1>2, <1>5 DEF VerifiedIsMarked, PassedOver
    <3> DEFINE id == Unimplemented[i]
    <3>1. id \notin runs[r].raws
      <4>1. CASE id \in runs[r].raws
        <5>1. m[id].last >= r /\ m[id].last \in Rounds
          BY <1>4, <4>1 DEF IsFindingSet, Finding
        <5>2. ~(m[id].last < r)
          BY <5>1 DEF Rounds
        <5> QED BY <1>4, <1>6, <4>1, <5>2
      <4> QED BY <4>1
    <3>2. m[id] = findings[id] /\ id \in DOMAIN findings
      BY <1>4, <3>1
    <3>3. i \notin swept'[r]
      BY <1>2, <1>7, <3>1 DEF IInv, RunsInv, SilenceIsMarked
    <3>4. DOMAIN swept = DOMAIN records
      BY DEF IInv, TypeOK
    <3>5. ASSUME NEW p \in DOMAIN records', i \in swept'[p]
          PROVE  p \in DOMAIN records /\ i \in swept[p]
      BY <1>7, <3>3, <3>4, <3>5
    <3>6. CASE findings[id].status = "verified"
      <4>1. PICK q \in DOMAIN records : \A p \in DOMAIN records : i \in swept[p] => p < q
        BY <3>2, <3>6 DEF IInv, FindingsInv, VerifiedIsMarked, PassedOver
      <4> QED BY <1>7, <3>5, <4>1
    <3>7. CASE findings[id].last < r
      <4>1. ASSUME NEW p \in DOMAIN records', i \in swept'[p]
            PROVE  p < r
        <5>1. p \in DOMAIN swept /\ i \in swept[p]
          BY <3>4, <3>5, <4>1
        <5>2. findings[id].last >= p
          BY <5>1 DEF IInv, FindingsInv, SweptIsTracked
        <5>3. p \in Nat /\ r \in Nat /\ findings[id].last \in Nat
          BY <3>2, <5>1 DEF IInv, TypeOK, AreRecords, IsFindingSet, Finding, Rounds
        <5> QED BY <3>7, <5>2, <5>3
      <4> QED BY <1>7, <4>1
    <3>8. findings'[id].status = m[id].status \/ m[id].last < r
      BY <1>6
    <3>9. findings[id].status = "verified" \/ findings[id].last < r
      BY <3>2, <3>8
    <3> QED BY <3>6, <3>7, <3>9
  <2>3. SweptIsTracked'
    <3> SUFFICES ASSUME NEW q \in DOMAIN swept', NEW i \in swept'[q] \ disturbed', i \notin marked'
                 PROVE  /\ Unimplemented[i] \in DOMAIN findings'
                        /\ findings'[Unimplemented[i]].last >= q
      BY DEF SweptIsTracked
    <3> DEFINE id == Unimplemented[i]
    <3>0. /\ i \notin disturbed /\ i \notin marked
          /\ (id \in DOMAIN m /\ m[id].last >= q => id \in DOMAIN findings' /\ findings'[id].last >= q)
      BY <1>2, <1>5
    <3>1. CASE q = r
      <4>1. id \in runs[r].raws
        BY <1>2, <1>7, <3>0, <3>1 DEF IInv, RunsInv, SilenceIsMarked
      <4> QED BY <1>4, <3>0, <3>1, <4>1
    <3>2. CASE q # r
      <4>1. q \in DOMAIN swept /\ i \in swept[q]
        BY <1>7, <3>2
      <4>2. id \in DOMAIN findings /\ findings[id].last >= q
        BY <3>0, <4>1 DEF IInv, FindingsInv, SweptIsTracked
      <4>3. id \in DOMAIN m /\ m[id].last \in Nat /\ findings[id].last \in Nat /\ q \in Nat
        BY <1>4, <4>1, <4>2 DEF IInv, TypeOK, AreRecords, IsFindingSet, Finding, Rounds
      <4>4. m[id].last >= findings[id].last
        <5>1. CASE id \in runs[r].raws
          BY <1>4, <4>2, <5>1
        <5>2. CASE id \notin runs[r].raws
          BY <1>4, <4>2, <4>3, <5>2
        <5> QED BY <5>1, <5>2
      <4> QED BY <3>0, <4>2, <4>3, <4>4
    <3> QED BY <3>1, <3>2
  <2>4. NoneLapses'
    <3> SUFFICES ASSUME NEW id \in DOMAIN m
                 PROVE  /\ findings'[id].status # "lapsed"
                        /\ findings'[id].status = "wontfix" => findings'[id].adjudicated
      BY <1>5 DEF NoneLapses
    <3>1. m[id].status # "lapsed" /\ (m[id].status = "wontfix" => m[id].adjudicated)
      BY <1>4 DEF IInv, FindingsInv, NoneLapses
    <3> QED BY <1>5, <1>6, <3>1
  <2> QED BY <2>1, <2>2, <2>3, <2>4 DEF FindingsInv
<1> QED BY <1>8, <1>9, <1>10 DEF IInv

(* Claims and disputes; a claim may come with a marker.                     *)
LEMMA FixStep ==
  ASSUME IInv, NEW named \in SUBSET DOMAIN findings, Fix(named)
  PROVE  IInv'
<1>1. PICK outcome \in [named -> {"fixed", "disputed"}] :
        findings' = [id \in DOMAIN findings |->
                       IF id \notin named THEN findings[id]
                       ELSE IF outcome[id] = "fixed" THEN [findings[id] EXCEPT !.status = "fixed"]
                       ELSE Dispute(findings[id])]
  BY DEF Fix
<1>2. ASSUME NEW id \in DOMAIN findings
      PROVE  /\ findings'[id] \in Finding /\ findings'[id].last = findings[id].last
             /\ \/ findings'[id] = findings[id]
                \/ findings'[id].status \in {"fixed", "disputed"}
  <2>1. findings[id] \in Finding
    BY DEF IInv, TypeOK, IsFindingSet
  <2>2. CASE id \notin named
    BY <1>1, <2>1, <2>2
  <2>3. CASE id \in named /\ outcome[id] = "fixed"
    <3>1. findings'[id] = [findings[id] EXCEPT !.status = "fixed"]
      BY <1>1, <2>3
    <3> QED BY <2>1, <3>1 DEF Finding, Statuses
  <2>4. CASE id \in named /\ outcome[id] # "fixed"
    <3>1. findings'[id] = Dispute(findings[id])
      BY <1>1, <2>4
    <3> QED BY <2>1, <3>1, DisputeFacts
  <2> QED BY <2>2, <2>3, <2>4
<1>3. \A id \in DOMAIN findings :
        /\ findings'[id].status = "verified" => findings[id].status = "verified"
        /\ findings'[id].status # "lapsed"
        /\ findings'[id].status = "wontfix" => findings'[id].adjudicated
  BY <1>2 DEF IInv, FindingsInv, NoneLapses
<1>4. /\ UNCHANGED <<text, lock, frozen, edits, runs, records, swept, disturbed>>
      /\ marked \subseteq marked' /\ marked' \subseteq Items
  BY DEF Fix, spec, IInv, TypeOK
<1>5. /\ DOMAIN findings' = DOMAIN findings
      /\ findings' = [id \in DOMAIN findings |-> findings'[id]]
  BY <1>1
<1> QED BY <1>2, <1>3, <1>4, <1>5, UpdateStep

(* The markers decide.                                                      *)
LEMMA VerifyStep ==
  ASSUME IInv, Verify
  PROVE  IInv'
<1>1. findings' = [id \in DOMAIN findings |->
        IF id \notin FixedOnes THEN findings[id]
        ELSE Judge(findings[id], IF HasMarker(id) THEN "verified" ELSE "reopened")]
  BY DEF Verify
<1>2. ASSUME NEW id \in DOMAIN findings
      PROVE  /\ findings'[id] \in Finding /\ findings'[id].last = findings[id].last
             /\ \/ findings'[id] = findings[id]
                \/ findings'[id].status = "verified" /\ HasMarker(id)
                \/ findings'[id].status \in {"open", "disputed"}
  <2>1. findings[id] \in Finding
    BY DEF IInv, TypeOK, IsFindingSet
  <2>2. CASE id \notin FixedOnes
    BY <1>1, <2>1, <2>2
  <2>3. CASE id \in FixedOnes /\ HasMarker(id)
    <3>1. findings'[id] = [findings[id] EXCEPT !.status = "verified"]
      BY <1>1, <2>3 DEF Judge
    <3> QED BY <2>1, <2>3, <3>1 DEF Finding, Statuses
  <2>4. CASE id \in FixedOnes /\ ~HasMarker(id)
    <3>1. findings'[id] = Reopen(findings[id])
      BY <1>1, <2>4 DEF Judge
    <3> QED BY <2>1, <3>1, ReopenFacts
  <2> QED BY <2>2, <2>3, <2>4
<1>3. \A id \in DOMAIN findings :
        /\ findings'[id].status = "verified" => findings[id].status = "verified" \/ HasMarker(id)
        /\ findings'[id].status # "lapsed"
        /\ findings'[id].status = "wontfix" => findings'[id].adjudicated
  BY <1>2 DEF IInv, FindingsInv, NoneLapses
<1>4. /\ UNCHANGED <<text, lock, frozen, edits, runs, records, swept, disturbed>>
      /\ marked \subseteq marked' /\ marked' \subseteq Items
  BY DEF Verify, spec, IInv, TypeOK
<1>5. /\ DOMAIN findings' = DOMAIN findings
      /\ findings' = [id \in DOMAIN findings |-> findings'[id]]
  BY <1>1
<1> QED BY <1>2, <1>3, <1>4, <1>5, UpdateStep

(* The markers settle what they can, a person rules on the rest.            *)
LEMMA AdjudicateStep ==
  ASSUME IInv, Adjudicate
  PROVE  IInv'
<1>1. PICK choice \in [DisputedPending(findings) -> {"accept", "reopen", "wontfix", "skip"}],
           decided \in BOOLEAN :
        findings' = [id \in DOMAIN findings |->
                       IF id \in DisputedPending(findings) THEN Ruling(id, choice[id], decided)
                       ELSE findings[id]]
  BY DEF Adjudicate
<1>2. ASSUME NEW id \in DOMAIN findings
      PROVE  /\ findings'[id] \in Finding /\ findings'[id].last = findings[id].last
             /\ \/ /\ findings'[id].status = findings[id].status
                   /\ (findings[id].adjudicated => findings'[id].adjudicated)
                \/ findings'[id].status = "verified" /\ HasMarker(id)
                \/ findings'[id].status = "open"
                \/ findings'[id].status = "wontfix" /\ findings'[id].adjudicated
  <2>1. findings[id] \in Finding
    BY DEF IInv, TypeOK, IsFindingSet
  <2>2. CASE id \notin DisputedPending(findings)
    <3>1. findings'[id] = findings[id]
      BY <1>1, <2>2
    <3>2. findings'[id].status = findings[id].status
          /\ (findings[id].adjudicated => findings'[id].adjudicated)
      BY <3>1
    <3>3. findings'[id] \in Finding /\ findings'[id].last = findings[id].last
      BY <2>1, <3>1
    <3> QED BY <3>2, <3>3
  <2>3. CASE id \in DisputedPending(findings)
    <3>1. findings'[id] = Ruling(id, choice[id], decided)
      BY <1>1, <2>3
    <3>2. CASE decided /\ HasMarker(id)
      <4>1. findings'[id] = [findings[id] EXCEPT !.status = "verified", !.adjudicated = TRUE]
        BY <3>1, <3>2 DEF Ruling
      <4> QED BY <2>1, <3>2, <4>1 DEF Finding, Statuses
    <3>3. CASE ~(decided /\ HasMarker(id)) /\ choice[id] = "accept"
      <4>1. findings'[id] = [findings[id] EXCEPT !.adjudicated = TRUE]
        BY <3>1, <3>3 DEF Ruling
      <4>2. findings'[id] \in Finding /\ findings'[id].last = findings[id].last
            /\ findings'[id].status = findings[id].status
        BY <2>1, <4>1 DEF Finding
      <4>3. findings'[id].adjudicated
        BY <2>1, <4>1 DEF Finding
      <4> QED BY <4>2, <4>3
    <3>4. CASE ~(decided /\ HasMarker(id)) /\ choice[id] = "reopen"
      <4>1. findings'[id] = [findings[id] EXCEPT !.status = "open", !.adjudicated = FALSE,
                                           !.reopens = 0]
        BY <3>1, <3>4 DEF Ruling
      <4>2. 0 <= MaxReopens /\ 0 \in 0 .. MaxReopens + 1
        BY BoundsAssumption
      <4>3. findings'[id] \in Finding /\ findings'[id].last = findings[id].last
            /\ findings'[id].status = "open"
        BY <2>1, <4>1, <4>2 DEF Finding, Statuses
      <4> QED BY <4>3
    <3>5. CASE ~(decided /\ HasMarker(id)) /\ choice[id] = "wontfix"
      <4>1. findings'[id] = [findings[id] EXCEPT !.status = "wontfix", !.adjudicated = TRUE]
        BY <3>1, <3>5 DEF Ruling
      <4>2. findings'[id] \in Finding /\ findings'[id].last = findings[id].last
            /\ findings'[id].status = "wontfix"
        BY <2>1, <4>1 DEF Finding, Statuses
      <4>3. findings'[id].adjudicated
        BY <2>1, <4>1 DEF Finding
      <4> QED BY <4>2, <4>3
    <3>6. CASE ~(decided /\ HasMarker(id)) /\ choice[id] = "skip"
      <4>1. findings'[id] = findings[id]
        BY <3>1, <3>6 DEF Ruling
      <4>2. findings'[id] \in Finding /\ findings'[id].last = findings[id].last
        BY <2>1, <4>1
      <4>3. findings'[id].status = findings[id].status
            /\ (findings[id].adjudicated => findings'[id].adjudicated)
        BY <4>1
      <4> QED BY <4>2, <4>3
    <3>7. choice[id] \in {"accept", "reopen", "wontfix", "skip"}
      BY <2>3
    <3> QED BY <3>2, <3>3, <3>4, <3>5, <3>6, <3>7
  <2> QED BY <2>2, <2>3
<1>3. \A id \in DOMAIN findings :
        /\ findings'[id].status = "verified" => findings[id].status = "verified" \/ HasMarker(id)
        /\ findings'[id].status # "lapsed"
        /\ findings'[id].status = "wontfix" => findings'[id].adjudicated
  BY <1>2 DEF IInv, FindingsInv, NoneLapses
<1>4. /\ UNCHANGED <<text, lock, frozen, edits, runs, records, swept, disturbed>>
      /\ marked \subseteq marked' /\ marked' \subseteq Items
  BY DEF Adjudicate, spec, IInv, TypeOK
<1>5. /\ DOMAIN findings' = DOMAIN findings
      /\ findings' = [id \in DOMAIN findings |-> findings'[id]]
  BY <1>1
<1> QED BY <1>2, <1>3, <1>4, <1>5, UpdateStep

-----------------------------------------------------------------------------
LEMMA InvHolds == Spec => []IInv
<1>1. IInv /\ Next => IInv'
  BY EditStep, FreezeStep, ScanStep, IngestStep, FixStep, VerifyStep, AdjudicateStep DEF Next
<1>2. IInv /\ UNCHANGED vars => IInv'
  BY DEF vars, spec, IInv, TypeOK, LockIsDocument, RunsInv, RunsAreKnown, SilenceIsMarked, FindingsInv, FindingsAreKnown, VerifiedIsMarked, PassedOver,
     SweptIsTracked, NoneLapses, Known, InDocument
<1> QED BY <1>1, <1>2, InitIInv, PTL DEF Spec

(* Every command and every edit leaves the task well formed.                *)
THEOREM SpecTypes == Spec => []TypeOK
<1>1. IInv => TypeOK
  BY DEF IInv
<1> QED BY <1>1, InvHolds, PTL

(* Work is about items that somebody froze.                                 *)
THEOREM FrozenWork == Spec => []WorkIsFrozenWork
<1>1. IInv => WorkIsFrozenWork
  BY OneItemEach DEF IInv, FindingsInv, FindingsAreKnown, Known, WorkIsFrozenWork
<1> QED BY <1>1, InvHolds, PTL

(* An item without a marker is verified only where a round came later than  *)
(* all that looked at it, or the user removed the marker or the item.        *)
THEOREM ProofNotSilence == Spec => []VerifiedIsMarked
<1>1. IInv => VerifiedIsMarked
  BY DEF IInv, FindingsInv
<1> QED BY <1>1, InvHolds, PTL

(* The gate of the decidable half opens over nothing that a round swept and  *)
(* that is neither implemented nor ruled on, with the same two exceptions.   *)
THEOREM GateCovers == Spec => []GateCoversWhatItSwept
<1>1. ASSUME IInv PROVE GateCoversWhatItSwept
  <2> SUFFICES ASSUME DecidableGate, NEW i \in Items \ disturbed, NEW r \in Tail(DOMAIN records),
                      i \in swept[r], i \notin marked, ~PassedOver(i)
               PROVE  RuledOn(i)
    BY DEF GateCoversWhatItSwept
  <2> DEFINE id == Unimplemented[i]
  <2>1. r \in DOMAIN swept
    BY <1>1 DEF Tail, IInv, TypeOK
  <2>2. id \in DOMAIN findings
    BY <1>1, <2>1 DEF IInv, FindingsInv, SweptIsTracked
  <2>3. ~Claimed(findings[id]) /\ ~Pending(findings[id])
    BY <2>2 DEF DecidableGate, Half, Decidable, Profile
  <2>4. findings[id] \in Finding
    BY <1>1, <2>2 DEF IInv, TypeOK, IsFindingSet
  <2>5. findings[id].status \notin {"verified", "lapsed"}
        /\ (findings[id].status = "wontfix" => findings[id].adjudicated)
    BY <1>1, <2>2 DEF IInv, FindingsInv, VerifiedIsMarked, NoneLapses
  <2> QED BY <2>2, <2>3, <2>4, <2>5 DEF RuledOn, Claimed, Pending, Finding, Statuses
<1> QED BY <1>1, InvHolds, PTL

(* Ingesting a round again right away changes no finding, whatever the        *)
(* history, the reports and the bounds.                                     *)
THEOREM IngestTwice == Spec => []IngestIsIdempotent
<1>1. ASSUME IInv PROVE IngestIsIdempotent
  <2> SUFFICES ASSUME NEW r \in DOMAIN runs
               PROVE  Folded(Folded(findings, r), r) = Folded(findings, r)
    BY DEF IngestIsIdempotent
  <2> DEFINE s == [round |-> r, ok |-> runs[r].ok, decided |-> TRUE]
  <2>1. r \in Rounds /\ runs[r].raws \in SUBSET Ids /\ IsFindingSet(findings)
    BY <1>1, ItemFacts DEF IInv, TypeOK
  <2>2. s.round = r
    OBVIOUS
  <2>3. \A fs : Folded(fs, r) = CloseStale(Matched(fs, runs[r].raws, s.round), s)
    BY <2>2 DEF Folded
  <2> HIDE DEF s
  <2> QED BY <2>1, <2>2, <2>3, FoldTwice
<1> QED BY <1>1, InvHolds, PTL
=============================================================================
