--------------------------- MODULE FixLanesProofs ---------------------------
(***************************************************************************)
(* The safety of a batch of fix agents, for any number of groups, files,   *)
(* slots and retries, and any slices.                                      *)
(*                                                                         *)
(* The argument: fix_lanes puts groups that share a file in one lane, a     *)
(* lane runs one group at a time, so nobody else writes a file while an    *)
(* agent holds it, and what the agent read of it is still what is there.   *)
(***************************************************************************)
EXTENDS FixLanes, WellFoundedInduction, TLAPS

(* What fix_lanes has established for the groups it has placed.             *)
Placed ==
  /\ phase = "plan" => planned < N
  /\ phase \in {"fix", "saved"} => planned = N
  /\ \A h \in Groups : h > planned => lane[h] = h
  /\ \A h \in Groups : h <= planned => lane[h] <= planned
  /\ \A f \in Files : owner[f] <= planned
  /\ \A h \in Groups : h <= planned => \A f \in slice[h] :
       owner[f] # NoGroup /\ lane[h] = lane[owner[f]]

Scheduled ==
  /\ phase \in {"plan", "aborted"} => \A g \in Groups : at[g] = "waiting"
  /\ phase = "saved" => \A g \in Groups : at[g] = "ended"
  /\ \A g \in Agents : Turn(g)
  /\ phase # "aborted" => \A g \in Groups : at[g] # "ended" => result[g] = "none"
  /\ \A g \in Groups : at[g] = "ended" => result[g] # "none"

(* What an agent has not written it read as it is now; what it has written   *)
(* is there.                                                                *)
Held ==
  \A g \in Groups :
    /\ edit[g] \subseteq slice[g]
    /\ at[g] \in {"waiting", "reading"} => edit[g] = {}
    /\ at[g] = "writing" => \A f \in slice[g] \ edit[g] : seen[g][f] = tree[f]
    /\ at[g] = "writing" \/ (at[g] = "ended" /\ result[g] = "fixed") =>
         \A f \in edit[g] : g \in tree[f]

Recorded ==
  \A g \in Groups : status[g] = "fixed" =>
    phase = "saved" /\ result[g] = "fixed" /\ g \notin Rejected

IInv == TypeOK /\ Placed /\ Scheduled /\ Held /\ Recorded

USE GroupsAssumption, AgentAssumption, SlicesAssumption

-----------------------------------------------------------------------------
(* Once all groups are placed, two that share a file are in one lane.        *)
LEMMA SharersInOneLane ==
  ASSUME TypeOK, Placed, planned = N, NEW g \in Groups, NEW h \in Groups,
         slice[g] \cap slice[h] # {}
  PROVE  lane[g] = lane[h]
<1>1. PICK f \in Files : f \in slice[g] /\ f \in slice[h]
  BY DEF TypeOK
<1>2. g <= planned /\ h <= planned
  BY DEF Groups
<1> QED
  BY <1>1, <1>2 DEF Placed

(* Two agents that run at once share no file.                               *)
LEMMA AgentsShareNothing ==
  ASSUME TypeOK, Placed, Scheduled, NEW g \in Agents, NEW h \in Agents, g # h
  PROVE  slice[g] \cap slice[h] = {}
<1>1. g \in Groups /\ h \in Groups /\ at[g] # "ended" /\ at[h] # "ended"
      /\ at[g] # "waiting" /\ Turn(g) /\ Turn(h)
  BY DEF Agents, Scheduled
<1>2. planned = N
  BY <1>1 DEF Scheduled, Placed, TypeOK
<1>3. SUFFICES ASSUME slice[g] \cap slice[h] # {} PROVE FALSE
  OBVIOUS
<1>4. lane[g] = lane[h]
  BY <1>1, <1>2, <1>3, SharersInOneLane
<1>5. g < h \/ h < g
  BY <1>1 DEF Groups
<1> QED
  BY <1>1, <1>4, <1>5 DEF Turn

-----------------------------------------------------------------------------
LEMMA InitIInv == Init => IInv
<1> SUFFICES ASSUME Init PROVE IInv
  OBVIOUS
<1>1. TypeOK
  BY GroupsAssumption, SlicesAssumption DEF Init, TypeOK, Groups, NoGroup, Unread
<1>2. Placed
  BY GroupsAssumption DEF Init, Placed, Groups, NoGroup
<1>3. Scheduled /\ Held /\ Recorded
  BY DEF Init, Scheduled, Held, Recorded, Agents
<1> QED BY <1>1, <1>2, <1>3 DEF IInv

LEMMA PlaceStep == IInv /\ Place => IInv'
<1> SUFFICES ASSUME IInv, Place PROVE IInv'
  OBVIOUS
<1> DEFINE g == planned + 1
           met == { lane[owner[f]] : f \in { x \in slice[g] : owner[x] # NoGroup } }
<1>1. /\ lane' = [h \in Groups |-> IF lane[h] \in met THEN g ELSE lane[h]]
      /\ owner' = [f \in Files |-> IF f \in slice[g] THEN g ELSE owner[f]]
      /\ planned' = g
      /\ phase' = (IF g = N THEN "fix" ELSE "plan")
      /\ UNCHANGED <<slice, agents, tree, red, status>>
      /\ phase = "plan"
  BY DEF Place
<1>2. planned < N /\ planned \in Nat /\ g \in Groups /\ g \in Nat
  BY <1>1 DEF IInv, TypeOK, Placed, Groups
<1> HIDE DEF met
<1>3. TypeOK'
  <2>1. lane' \in [Groups -> Groups] /\ owner' \in [Files -> Groups \cup {NoGroup}]
    BY <1>1, <1>2 DEF IInv, TypeOK
  <2>2. planned' \in 0 .. N /\ phase' \in {"plan", "fix", "saved", "aborted"}
    BY <1>1, <1>2
  <2> QED
    BY <1>1, <2>1, <2>2 DEF IInv, TypeOK, agents
<1>4. Placed'
  <2>1. \A h \in Groups : lane'[h] = (IF lane[h] \in met THEN g ELSE lane[h])
    BY <1>1
  <2>2. \A x \in met : x \in Groups /\ x <= planned
    <3> SUFFICES ASSUME NEW f \in slice[g], owner[f] # NoGroup
                 PROVE  lane[owner[f]] \in Groups /\ lane[owner[f]] <= planned
      BY DEF met
    <3>1. f \in Files
      BY <1>2 DEF IInv, TypeOK
    <3>2. owner[f] \in Groups /\ owner[f] <= planned
      BY <3>1 DEF IInv, TypeOK, Placed
    <3> QED
      BY <3>2 DEF IInv, TypeOK, Placed
  <2>3. lane[g] = g /\ g \notin met
    BY <1>2, <2>2 DEF IInv, Placed
  <2>4. lane'[g] = g
    BY <1>2, <2>1, <2>3
  <2>5. \A h \in Groups : h > planned' => lane'[h] = h
    BY <1>1, <1>2, <2>1, <2>2 DEF IInv, Placed, Groups
  <2>6. \A h \in Groups : h <= planned' => lane'[h] <= planned'
    <3> SUFFICES ASSUME NEW h \in Groups, h <= g PROVE lane'[h] <= g
      BY <1>1
    <3>1. CASE h = g
      BY <3>1, <2>4, <1>2
    <3>2. CASE h # g
      <4>1. h <= planned
        BY <3>2, <1>2 DEF Groups
      <4> QED
        <5>1. lane[h] \in Groups /\ lane[h] <= planned
          BY <4>1 DEF IInv, TypeOK, Placed
        <5> QED
          BY <5>1, <2>1, <1>2 DEF Groups
    <3> QED
      BY <3>1, <3>2
  <2>7. \A f \in Files : owner'[f] <= planned'
    <3> SUFFICES ASSUME NEW f \in Files PROVE owner'[f] <= g
      BY <1>1
    <3>1. owner[f] \in Groups \cup {NoGroup} /\ owner[f] <= planned
      BY DEF IInv, TypeOK, Placed
    <3>2. owner'[f] = IF f \in slice[g] THEN g ELSE owner[f]
      BY <1>1
    <3> QED BY <1>2, <3>1, <3>2 DEF Groups, NoGroup
  <2>8. ASSUME NEW h \in Groups, h <= planned', NEW f \in slice'[h]
        PROVE  owner'[f] # NoGroup /\ lane'[h] = lane'[owner'[f]]
    <3>a. h = g \/ h <= planned
      BY <2>8, <1>1, <1>2 DEF Groups
    <3>b. f \in Files /\ f \in slice[h]
      BY <2>8, <1>1 DEF IInv, TypeOK
    <3>1. f \in Files /\ f \in slice[h] /\ (h = g \/ h <= planned)
      BY <3>a, <3>b
    <3>2. CASE f \in slice[g]
      <4>1. owner'[f] = g
        BY <3>1, <3>2, <1>1
      <4>2. CASE h = g
        BY <4>1, <4>2, <1>2 DEF Groups, NoGroup
      <4>3. CASE h <= planned
        <5>1. owner[f] # NoGroup /\ lane[h] = lane[owner[f]]
          BY <3>1, <4>3 DEF IInv, Placed
        <5>2. lane[h] \in met
          BY <5>1, <3>2 DEF met
        <5> QED
          BY <4>1, <5>2, <2>1, <2>4, <1>2 DEF Groups, NoGroup
      <4> QED
        BY <3>1, <4>2, <4>3
    <3>3. CASE f \notin slice[g]
      <4>1. owner'[f] = owner[f] /\ h <= planned
        BY <3>1, <3>3, <1>1
      <4>2. owner[f] # NoGroup /\ lane[h] = lane[owner[f]] /\ owner[f] \in Groups
        BY <3>1, <4>1 DEF IInv, Placed, TypeOK
      <4> QED
        BY <4>1, <4>2, <2>1
    <3> QED
      BY <3>2, <3>3
  <2>9. /\ phase' = "plan" => planned' < N
        /\ phase' \in {"fix", "saved"} => planned' = N
    BY <1>1, <1>2
  <2> QED
    BY <2>5, <2>6, <2>7, <2>8, <2>9 DEF Placed
<1>5. Scheduled' /\ Held'
  <2>1. /\ \A h \in Groups : at[h] = "waiting"
        /\ UNCHANGED <<slice, at, attempt, seen, edit, result, tree>>
        /\ Agents' = {}
    BY <1>1 DEF IInv, Scheduled, Agents, agents
  <2>2. Scheduled'
    BY <1>1, <2>1 DEF IInv, Scheduled
  <2>3. Held'
    BY <2>1 DEF IInv, Held
  <2> QED
    BY <2>2, <2>3
<1>6. Recorded'
  BY <1>1 DEF IInv, Recorded, agents
<1> QED
  BY <1>3, <1>4, <1>5, <1>6 DEF IInv

(* What a step of group g leaves alone: the plan, and the place of everyone  *)
(* else.  Turns and lanes are as they were.                                 *)
LEMMA PlanKept ==
  ASSUME IInv, UNCHANGED <<plan, phase>> PROVE Placed'
BY DEF IInv, Placed, plan

LEMMA LaunchStep == ASSUME IInv, NEW g \in Groups, Launch(g) PROVE IInv'
<1>1. /\ phase = "fix" /\ at[g] = "waiting" /\ Turn(g)
      /\ at' = [at EXCEPT ![g] = "reading"]
      /\ UNCHANGED <<slice, owner, lane, planned, phase, attempt, seen, edit, result, tree, red,
                     status>>
  BY DEF Launch, plan
<1>2. TypeOK'
  BY <1>1 DEF IInv, TypeOK
<1>3. Placed'
  BY <1>1, PlanKept DEF plan
<1>4. Scheduled'
  <2>1. Agents' = Agents \cup {g}
    BY <1>1 DEF Agents, IInv, TypeOK
  <2>2. \A h \in Groups : Turn(h) => Turn(h)'
    BY <1>1 DEF Turn, IInv, TypeOK
  <2>3. \A h \in Agents' : Turn(h)'
    BY <1>1, <2>1, <2>2 DEF IInv, Scheduled, Agents
  <2> QED
    BY <1>1, <2>3 DEF IInv, Scheduled, TypeOK
<1>5. Held'
  BY <1>1 DEF IInv, Held, TypeOK
<1>6. Recorded'
  BY <1>1 DEF IInv, Recorded, Rejected
<1> QED
  BY <1>2, <1>3, <1>4, <1>5, <1>6 DEF IInv

LEMMA ReadStep == ASSUME IInv, NEW g \in Groups, Read(g) PROVE IInv'
<1>1. /\ at[g] = "reading"
      /\ at' = [at EXCEPT ![g] = "writing"] /\ seen' = [seen EXCEPT ![g] = tree]
      /\ UNCHANGED <<slice, owner, lane, planned, phase, attempt, edit, result, tree, red, status>>
  BY DEF Read, plan
<1>2. TypeOK'
  BY <1>1 DEF IInv, TypeOK
<1>3. Placed'
  BY <1>1, PlanKept DEF plan
<1>4. Scheduled'
  <2>1. Agents' = Agents /\ g \in Agents
    BY <1>1 DEF Agents, IInv, TypeOK
  <2>2. \A h \in Groups : Turn(h) => Turn(h)'
    BY <1>1 DEF Turn, IInv, TypeOK
  <2>3. \A h \in Agents' : Turn(h)'
    BY <2>1, <2>2 DEF IInv, Scheduled, Agents
  <2> QED
    BY <1>1, <2>3 DEF IInv, Scheduled, TypeOK
<1>5. Held'
  <2>1. seen'[g] = tree /\ at'[g] = "writing" /\ edit[g] = {}
    BY <1>1 DEF IInv, TypeOK, Held
  <2>2. \A h \in Groups \ {g} : seen'[h] = seen[h] /\ at'[h] = at[h]
    BY <1>1 DEF IInv, TypeOK
  <2> QED
    BY <1>1, <2>1, <2>2 DEF IInv, Held
<1>6. Recorded'
  BY <1>1 DEF IInv, Recorded, Rejected
<1> QED
  BY <1>2, <1>3, <1>4, <1>5, <1>6 DEF IInv

(* A write changes nobody else's files, so each edit still there stays.      *)
LEMMA WriteAdds ==
  ASSUME IInv, NEW g \in Groups, NEW f \in Files, Write(g, f)
  PROVE  /\ g \in Agents /\ phase # "aborted" /\ f \in slice[g]
         /\ tree' = [tree EXCEPT ![f] = @ \cup {g}]
<1>1. /\ at[g] = "writing" /\ f \in slice[g] \ edit[g]
      /\ tree' = [tree EXCEPT ![f] = seen[g][f] \cup {g}]
  BY DEF Write
<1>2. seen[g][f] = tree[f] /\ f \in slice[g]
  BY <1>1 DEF IInv, Held
<1> QED
  BY <1>1, <1>2 DEF IInv, Scheduled, Agents

LEMMA WriteStep == ASSUME IInv, NEW g \in Groups, NEW f \in Files, Write(g, f) PROVE IInv'
<1>1. /\ at[g] = "writing" /\ f \in slice[g] \ edit[g]
      /\ edit' = [edit EXCEPT ![g] = @ \cup {f}]
      /\ red' \subseteq red \cup {f}
      /\ UNCHANGED <<slice, owner, lane, planned, phase, at, attempt, seen, result, status>>
  BY DEF Write, plan
<1>2. tree' = [tree EXCEPT ![f] = @ \cup {g}] /\ g \in Agents
  BY WriteAdds
<1>3. TypeOK'
  BY <1>1, <1>2 DEF IInv, TypeOK
<1>4. Placed'
  BY <1>1, PlanKept DEF plan
<1>5. Scheduled'
  BY <1>1 DEF IInv, Scheduled, Agents, Turn
<1>6. Held'
  <2> SUFFICES ASSUME NEW h \in Groups
               PROVE  /\ edit'[h] \subseteq slice'[h]
                      /\ at'[h] \in {"waiting", "reading"} => edit'[h] = {}
                      /\ at'[h] = "writing" =>
                           \A x \in slice'[h] \ edit'[h] : seen'[h][x] = tree'[x]
                      /\ at'[h] = "writing" \/ (at'[h] = "ended" /\ result'[h] = "fixed") =>
                           \A x \in edit'[h] : h \in tree'[x]
    BY DEF Held
  <2>0. edit[h] \subseteq Files /\ slice[h] \subseteq Files
    BY DEF IInv, TypeOK
  <2>1. CASE h = g
    BY <1>1, <1>2, <2>0, <2>1 DEF IInv, TypeOK, Held
  <2>2. CASE h # g
    <3>1. at[h] = "writing" => f \notin slice[h]
      <4>1. at[h] = "writing" => slice[g] \cap slice[h] = {}
        BY <1>2, <2>2, AgentsShareNothing DEF IInv, Agents
      <4> QED
        BY <4>1, <1>1
    <3> QED
      BY <1>1, <1>2, <2>0, <2>2, <3>1 DEF IInv, TypeOK, Held
  <2> QED
    BY <2>1, <2>2
<1>7. Recorded'
  <2>1. phase # "saved"
    BY <1>2 DEF IInv, Scheduled, Agents
  <2> QED
    BY <1>1, <2>1 DEF IInv, Recorded
<1> QED
  BY <1>3, <1>4, <1>5, <1>6, <1>7 DEF IInv

LEMMA AnswerStep ==
  ASSUME IInv, NEW g \in Groups, NEW outcome \in {"fixed", "disputed"}, Answer(g, outcome)
  PROVE  IInv'
<1>1. /\ at[g] = "writing"
      /\ at' = [at EXCEPT ![g] = "ended"] /\ result' = [result EXCEPT ![g] = outcome]
      /\ seen' = [seen EXCEPT ![g] = Unread]
      /\ UNCHANGED <<slice, owner, lane, planned, phase, attempt, edit, tree, red, status>>
  BY DEF Answer, Settle, plan
<1>2. phase = "fix" /\ g \in Agents
  BY <1>1 DEF IInv, Scheduled, TypeOK, Agents
<1>3. TypeOK'
  <2>1. seen' \in [Groups -> [Files -> SUBSET Groups]]
    BY <1>1 DEF IInv, TypeOK, Unread
  <2> QED
    BY <1>1, <2>1 DEF IInv, TypeOK
<1>4. Placed'
  BY <1>1, PlanKept DEF plan
<1>5. Scheduled'
  <2>1. Agents' \subseteq Agents
    BY <1>1 DEF Agents, IInv, TypeOK
  <2>2. \A h \in Groups : Turn(h) => Turn(h)'
    BY <1>1 DEF Turn, IInv, TypeOK
  <2>3. \A h \in Agents' : Turn(h)'
    BY <2>1, <2>2 DEF IInv, Scheduled, Agents
  <2> QED
    BY <1>1, <1>2, <2>3 DEF IInv, Scheduled, TypeOK
<1>6. Held'
  BY <1>1 DEF IInv, Held, TypeOK
<1>7. Recorded'
  BY <1>1, <1>2 DEF IInv, Recorded
<1> QED
  BY <1>3, <1>4, <1>5, <1>6, <1>7 DEF IInv

LEMMA FailStep == ASSUME IInv, NEW g \in Groups, Fail(g) PROVE IInv'
<1>1. /\ g \in Agents
      /\ seen' = [seen EXCEPT ![g] = Unread] /\ edit' = [edit EXCEPT ![g] = {}]
      /\ UNCHANGED <<slice, owner, lane, planned, phase, tree, red, status>>
  BY DEF Fail, plan
<1>2. \/ /\ attempt[g] <= Retries /\ attempt' = [attempt EXCEPT ![g] = @ + 1]
         /\ at' = [at EXCEPT ![g] = "waiting"] /\ UNCHANGED result
      \/ /\ UNCHANGED attempt
         /\ at' = [at EXCEPT ![g] = "ended"] /\ result' = [result EXCEPT ![g] = "failed"]
  BY DEF Fail, Settle
<1>3. phase = "fix" /\ at[g] # "ended"
  BY <1>1 DEF IInv, Scheduled, TypeOK, Agents
<1>5. TypeOK'
  <2>2. seen' \in [Groups -> [Files -> SUBSET Groups]]
    BY <1>1 DEF IInv, TypeOK, Unread
  <2>3. attempt' \in [Groups -> 1 .. Retries + 1]
    <3>1. attempt \in [Groups -> 1 .. Retries + 1] /\ attempt[g] \in Nat
      BY DEF IInv, TypeOK
    <3>2. attempt[g] <= Retries => attempt[g] + 1 \in 1 .. Retries + 1
      BY <3>1
    <3> QED
      BY <3>1, <3>2, <1>2
  <2>4. /\ at' \in [Groups -> {"waiting", "reading", "writing", "ended"}]
        /\ result' \in [Groups -> {"none", "fixed", "disputed", "failed"}]
    BY <1>2 DEF IInv, TypeOK
  <2> QED
    BY <1>1, <2>2, <2>3, <2>4 DEF IInv, TypeOK
<1>6. Placed'
  BY <1>1, PlanKept DEF plan
<1>7. Scheduled'
  <2>1. Agents' \subseteq Agents
    BY <1>1, <1>2 DEF Agents, IInv, TypeOK
  <2>2. \A h \in Groups : Turn(h) => Turn(h)'
    BY <1>1, <1>2, <1>3 DEF Turn, IInv, TypeOK
  <2>3. \A h \in Agents' : Turn(h)'
    BY <2>1, <2>2 DEF IInv, Scheduled, Agents
  <2>4. \A h \in Groups : (at'[h] # "ended" => result'[h] = "none")
                          /\ (at'[h] = "ended" => result'[h] # "none")
    BY <1>2, <1>3 DEF IInv, Scheduled, TypeOK
  <2> QED
    BY <1>1, <1>3, <2>3, <2>4 DEF Scheduled
<1>8. Held'
  <2>1. at'[g] # "writing" /\ ~(at'[g] = "ended" /\ result'[g] = "fixed")
    BY <1>2 DEF IInv, TypeOK
  <2>2. \A h \in Groups \ {g} : at'[h] = at[h] /\ result'[h] = result[h]
    BY <1>2 DEF IInv, TypeOK
  <2> QED
    BY <1>1, <2>1, <2>2 DEF IInv, Held, TypeOK
<1>9. Recorded'
  BY <1>1, <1>3 DEF IInv, Recorded
<1> QED
  BY <1>5, <1>6, <1>7, <1>8, <1>9 DEF IInv

LEMMA RecordStep == IInv /\ Record => IInv'
<1> SUFFICES ASSUME IInv, Record PROVE IInv'
  OBVIOUS
<1>1. /\ phase = "fix" /\ \A g \in Groups : at[g] = "ended"
      /\ phase' = "saved"
      /\ status' = [g \in Groups |->
           IF result[g] = "failed" \/ g \in Rejected THEN "open" ELSE result[g]]
      /\ UNCHANGED <<slice, owner, lane, planned, at, attempt, seen, edit, result, tree, red>>
  BY DEF Record, plan, agents
<1>2. Scheduled' /\ Agents' = {}
  BY <1>1 DEF IInv, Scheduled, Agents
<1>3. Placed'
  BY <1>1 DEF IInv, Placed
<1>4. Held'
  BY <1>1 DEF IInv, Held
<1>5. Recorded'
  BY <1>1 DEF Recorded, Rejected
<1>7. TypeOK'
  <2>1. \A g \in Groups : result[g] # "none"
    BY <1>1 DEF IInv, Scheduled
  <2> QED
    BY <1>1, <2>1 DEF IInv, TypeOK
<1> QED
  BY <1>2, <1>3, <1>4, <1>5, <1>7 DEF IInv

LEMMA AbortStep == IInv /\ Abort => IInv'
<1> SUFFICES ASSUME IInv, Abort PROVE IInv'
  OBVIOUS
<1>1. /\ phase' = "aborted" /\ phase \in {"plan", "fix"}
      /\ at' = [g \in Groups |-> "waiting"] /\ attempt' = [g \in Groups |-> 1]
      /\ seen' = [g \in Groups |-> Unread] /\ edit' = [g \in Groups |-> {}]
      /\ UNCHANGED <<slice, owner, lane, planned, result, tree, red, status>>
  BY DEF Abort, plan
<1>2. TypeOK'
  BY <1>1 DEF IInv, TypeOK, Unread
<1>3. Placed'
  BY <1>1 DEF IInv, Placed
<1>4. Scheduled'
  <2>1. Agents' = {}
    BY <1>1 DEF Agents
  <2> QED
    BY <1>1, <2>1 DEF Scheduled
<1>5. Held'
  BY <1>1 DEF Held
<1>6. Recorded'
  BY <1>1 DEF IInv, Recorded
<1> QED
  BY <1>2, <1>3, <1>4, <1>5, <1>6 DEF IInv

LEMMA AgentStepIInv == ASSUME IInv, NEW g \in Groups, AgentStep(g) PROVE IInv'
BY LaunchStep, ReadStep, WriteStep, AnswerStep, FailStep DEF AgentStep

LEMMA StepIInv == IInv /\ [Next]_vars => IInv'
<1> SUFFICES ASSUME IInv, [Next]_vars PROVE IInv'
  OBVIOUS
<1>1. CASE UNCHANGED vars
  BY <1>1 DEF vars, plan, agents, IInv, TypeOK, Placed, Scheduled, Held, Recorded,
    Agents, Turn, Rejected
<1>2. CASE Next
  BY <1>2, PlaceStep, AgentStepIInv, RecordStep, AbortStep DEF Next
<1> QED
  BY <1>1, <1>2

LEMMA SpecIInv == Spec => []IInv
BY InitIInv, StepIInv, PTL DEF Spec

(* The plan, the agents and the tree of a batch stay well formed.            *)
THEOREM BatchTypeOK == Spec => []TypeOK
<1>1. IInv => TypeOK
  BY DEF IInv
<1> QED
  BY <1>1, SpecIInv, PTL

(* Two fix agents never hold the same file at once.                         *)
THEOREM AgentsHoldTheirFiles == Spec => []NoSharedFile
<1>1. IInv => NoSharedFile
  BY AgentsShareNothing DEF IInv, NoSharedFile
<1> QED
  BY <1>1, SpecIInv, PTL

(* What is recorded as fixed is in the tree, and proved where it has to be.  *)
THEOREM FixedIsInTree == Spec => []RecordedFixIsInTree
<1>1. ASSUME IInv PROVE RecordedFixIsInTree
  <2> SUFFICES ASSUME NEW g \in Groups, status[g] = "fixed"
               PROVE  /\ \A f \in edit[g] : g \in tree[f]
                      /\ Proving => slice[g] \cap red = {}
    BY DEF RecordedFixIsInTree
  <2>1. phase = "saved" /\ result[g] = "fixed" /\ g \notin Rejected
    BY <1>1 DEF IInv, Recorded
  <2>2. at[g] = "ended"
    BY <1>1, <2>1 DEF IInv, Scheduled
  <2> QED
    BY <1>1, <2>1, <2>2 DEF IInv, Held, Rejected
<1> QED
  BY <1>1, SpecIInv, PTL

(* The batch implements AtomicEdits: each whole-file write adds one edit to   *)
(* what the file holds at that moment, and nothing else changes the tree.    *)
THEOREM BatchIsAtomic == Spec => EditsAreAtomic
<1>1. Init => Atomic!Init
  BY DEF Init, Atomic!Init
<1>2. IInv /\ [Next]_vars => [Atomic!Next]_<<slice, tree, result>>
  <2> SUFFICES ASSUME IInv, [Next]_vars PROVE [Atomic!Next]_<<slice, tree, result>>
    OBVIOUS
  <2>1. CASE UNCHANGED vars \/ Place \/ Record \/ Abort
    BY <2>1 DEF vars, plan, agents, Place, Record, Abort
  <2>2. ASSUME NEW g \in Groups, AgentStep(g) PROVE [Atomic!Next]_<<slice, tree, result>>
    <3>1. CASE Launch(g) \/ Read(g)
      BY <3>1 DEF Launch, Read, plan
    <3>2. ASSUME NEW f \in Files, Write(g, f) PROVE Atomic!Edit(g, f)
      <4>1. result[g] = "none"
        BY <3>2, WriteAdds DEF IInv, Scheduled, Agents
      <4> QED
        BY <3>2, <4>1, WriteAdds DEF Write, plan, Atomic!Edit
    <3>3. ASSUME NEW outcome \in {"fixed", "disputed"}, Answer(g, outcome)
          PROVE  Atomic!Report(g)
      <4>1. result[g] = "none"
        BY <3>3 DEF Answer, IInv, Scheduled, TypeOK
      <4> QED
        BY <3>3, <4>1 DEF Answer, Settle, plan, Atomic!Report
    <3>4. CASE Fail(g)
      <4>1. result[g] = "none"
        BY <3>4 DEF Fail, Agents, IInv, Scheduled, TypeOK
      <4> QED
        BY <3>4, <4>1 DEF Fail, Settle, plan, Atomic!Report, Atomic!Next
    <3> QED
      BY <2>2, <3>1, <3>2, <3>3, <3>4 DEF AgentStep, Atomic!Next
  <2> QED
    BY <2>1, <2>2 DEF Next
<1> QED
  BY <1>1, <1>2, SpecIInv, PTL DEF Spec, EditsAreAtomic, Atomic!Spec
-----------------------------------------------------------------------------
(* The lanes are no coarser than they have to be: groups placed so far are in *)
(* one lane only if a chain of shared files among them joins them.           *)
Closed(part, n) ==
  \A i \in part, j \in Groups : j <= n /\ slice[i] \cap slice[j] # {} => j \in part
Chained(g, h, n) == \A part \in SUBSET (1 .. n) : g \in part /\ Closed(part, n) => h \in part

LaneIsChained ==
  /\ \A f \in Files : owner[f] # NoGroup => f \in slice[owner[f]]
  /\ \A g, h \in 1 .. planned : lane[g] = lane[h] => Chained(g, h, planned)

ChainInv == IInv /\ LaneIsChained

(* Chains only grow longer as groups are placed.                            *)
LEMMA ChainGrows ==
  ASSUME NEW n \in Nat, NEW g \in 1 .. n, NEW h \in 1 .. n, Chained(g, h, n),
         NEW part \in SUBSET (1 .. n + 1), g \in part, Closed(part, n + 1)
  PROVE  h \in part
<1> DEFINE old == part \cap (1 .. n)
<1>1. old \in SUBSET (1 .. n) /\ g \in old
  OBVIOUS
<1>2. Closed(old, n)
  BY DEF Closed, Groups
<1> QED
  BY <1>1, <1>2 DEF Chained

(* The lanes that the next group joins are those that hold a sharer of it.    *)
LEMMA PlaceChains ==
  ASSUME ChainInv, Place, IInv'
  PROVE  LaneIsChained'
<1> DEFINE n == planned + 1
           met == { lane[owner[f]] : f \in { x \in slice[n] : owner[x] # NoGroup } }
<1>1. /\ planned < N /\ planned \in Nat /\ n \in Groups /\ planned' = n
      /\ 1 .. n \subseteq Groups /\ 1 .. planned \subseteq Groups
  <2>1. planned \in 0 .. N /\ planned < N /\ planned' = planned + 1
    BY DEF Place, ChainInv, IInv, TypeOK, Placed
  <2> QED BY <2>1 DEF Groups
<1>2. /\ UNCHANGED slice
      /\ owner' = [f \in Files |-> IF f \in slice[n] THEN n ELSE owner[f]]
      /\ lane' = [h \in Groups |-> IF lane[h] \in met THEN n ELSE lane[h]]
  BY DEF Place
<1>3. /\ slice \in [Groups -> SUBSET Files] /\ owner \in [Files -> Groups \cup {NoGroup}]
      /\ lane \in [Groups -> Groups] /\ NoGroup \notin Groups
  <2>1. slice \in Slices /\ owner \in [Files -> Groups \cup {NoGroup}] /\ lane \in [Groups -> Groups]
    BY DEF ChainInv, IInv, TypeOK
  <2>2. slice \in [Groups -> SUBSET Files]
    BY <2>1
  <2>3. NoGroup \notin Groups
    BY DEF NoGroup, Groups
  <2> QED BY <2>1, <2>2, <2>3
<1>4. ASSUME NEW f \in Files, owner'[f] # NoGroup PROVE f \in slice'[owner'[f]]
  BY <1>2, <1>3, <1>4 DEF ChainInv, LaneIsChained
<1>5. ASSUME NEW g \in 1 .. n, NEW h \in 1 .. n, lane'[g] = lane'[h],
             NEW part \in SUBSET (1 .. n), g \in part, Closed(part, n)
      PROVE  h \in part
  <2>1. \A x \in 1 .. planned : lane[x] \in Groups /\ lane[x] <= planned /\ lane[x] # n
    BY <1>1, <1>3 DEF ChainInv, IInv, Placed, Groups
  <2>2. lane[n] = n
    BY <1>1 DEF ChainInv, IInv, Placed, Groups
  <2>3. \A x \in 1 .. planned : lane[x] \in met =>
          \E o \in 1 .. planned : lane[o] = lane[x] /\ slice[o] \cap slice[n] # {}
    <3> SUFFICES ASSUME NEW x \in 1 .. planned, lane[x] \in met
                 PROVE  \E o \in 1 .. planned : lane[o] = lane[x] /\ slice[o] \cap slice[n] # {}
      OBVIOUS
    <3>1. PICK f \in slice[n] : owner[f] # NoGroup /\ lane[x] = lane[owner[f]]
      OBVIOUS
    <3>2. f \in Files /\ owner[f] \in Groups /\ owner[f] <= planned
      BY <1>1, <1>3, <3>1 DEF ChainInv, IInv, Placed
    <3>3. f \in slice[owner[f]] /\ owner[f] \in 1 .. planned
      BY <1>1, <3>1, <3>2 DEF ChainInv, LaneIsChained, Groups
    <3> QED
      BY <3>1, <3>3
  <2>4. \A x, y \in 1 .. planned : lane[x] = lane[y] /\ x \in part => y \in part
    <3> SUFFICES ASSUME NEW x \in 1 .. planned, NEW y \in 1 .. planned, lane[x] = lane[y], x \in part
                 PROVE  y \in part
      OBVIOUS
    <3>1. Chained(x, y, planned)
      BY DEF ChainInv, LaneIsChained
    <3> QED
      BY <1>1, <1>5, <3>1, ChainGrows
  <2>5. \A x, y \in 1 .. n : slice[x] \cap slice[y] # {} /\ x \in part => y \in part
    BY <1>1, <1>5 DEF Closed, Groups
  <2>6. \A x \in 1 .. planned : lane[x] \in met => (x \in part <=> n \in part)
    <3> SUFFICES ASSUME NEW x \in 1 .. planned, lane[x] \in met
                 PROVE  x \in part <=> n \in part
      OBVIOUS
    <3>1. PICK o \in 1 .. planned : lane[o] = lane[x] /\ slice[o] \cap slice[n] # {}
      BY <2>3
    <3>2. o \in 1 .. n /\ n \in 1 .. n /\ slice[n] \cap slice[o] # {}
      BY <1>1, <3>1
    <3> QED
      BY <2>4, <2>5, <3>1, <3>2
  <2>7. /\ g = n \/ g \in 1 .. planned
        /\ h = n \/ h \in 1 .. planned
    BY <1>1
  <2>8. /\ lane'[g] = IF lane[g] \in met THEN n ELSE lane[g]
        /\ lane'[h] = IF lane[h] \in met THEN n ELSE lane[h]
    BY <1>1, <1>2
  <2>9. CASE lane'[g] = n
    <3>1. /\ g = n \/ (g \in 1 .. planned /\ lane[g] \in met)
          /\ h = n \/ (h \in 1 .. planned /\ lane[h] \in met)
      BY <1>5, <2>1, <2>7, <2>8, <2>9
    <3> QED
      BY <1>5, <2>6, <3>1
  <2>10. CASE lane'[g] # n
    <3>1. /\ g \in 1 .. planned /\ h \in 1 .. planned /\ lane[g] = lane[h]
      BY <1>5, <2>2, <2>7, <2>8, <2>10
    <3> QED
      BY <1>5, <2>4, <3>1
  <2> QED
    BY <2>9, <2>10
<1>6. ASSUME NEW g \in 1 .. n, NEW h \in 1 .. n, lane'[g] = lane'[h]
      PROVE  Chained(g, h, planned)'
  <2> SUFFICES ASSUME NEW part \in SUBSET (1 .. planned'), g \in part, Closed(part, planned)'
               PROVE  h \in part
    BY DEF Chained
  <2>1. Closed(part, n)
    BY <1>1, <1>2 DEF Closed
  <2> QED
    BY <1>1, <1>5, <1>6, <2>1
<1>7. \A g, h \in 1 .. planned' : lane'[g] = lane'[h] => Chained(g, h, planned)'
  BY <1>1, <1>6
<1> QED
  BY <1>4, <1>7 DEF LaneIsChained

LEMMA SpecChainInv == Spec => []ChainInv
<1>1. Init => ChainInv
  <2> SUFFICES ASSUME Init PROVE LaneIsChained
    BY InitIInv DEF ChainInv
  <2>1. planned = 0 /\ \A f \in Files : owner[f] = NoGroup
    BY DEF Init
  <2> QED
    BY <2>1 DEF LaneIsChained
<1>2. ChainInv /\ [Next]_vars => ChainInv'
  <2> SUFFICES ASSUME ChainInv, [Next]_vars PROVE ChainInv'
    OBVIOUS
  <2>1. IInv'
    BY StepIInv DEF ChainInv
  <2>2. Place \/ UNCHANGED plan
    BY DEF Next, vars, AgentStep, Launch, Read, Write, Answer, Fail, Record, Abort
  <2>3. CASE Place
    BY <2>1, <2>3, PlaceChains DEF ChainInv
  <2>4. CASE UNCHANGED plan
    BY <2>1, <2>4 DEF plan, ChainInv, LaneIsChained, Chained, Closed
  <2> QED
    BY <2>2, <2>3, <2>4
<1> QED
  BY <1>1, <1>2, PTL DEF Spec

(* fix_lanes puts groups in one lane exactly when a chain of shared files     *)
(* joins them: no two that might collide run at once, and nothing else waits. *)
THEOREM LanesAreExact == Spec => []LanesAreComponents
<1>1. ASSUME ChainInv, phase = "fix", NEW g \in Groups, NEW h \in Groups
      PROVE  lane[g] = lane[h] <=> Joined(g, h)
  <2>1. planned = N /\ 1 .. planned = Groups
    BY <1>1 DEF ChainInv, IInv, Placed, Groups
  <2>2. ASSUME lane[g] = lane[h] PROVE Joined(g, h)
    <3>1. Chained(g, h, N)
      BY <1>1, <2>1, <2>2 DEF ChainInv, LaneIsChained
    <3>2. ASSUME NEW part \in SUBSET Groups, g \in part,
                 \A i \in part, j \in Groups : slice[i] \cap slice[j] # {} => j \in part
          PROVE  h \in part
      BY <2>1, <3>1, <3>2 DEF Chained, Closed
    <3> QED
      BY <3>2 DEF Joined
  <2>3. ASSUME Joined(g, h) PROVE lane[g] = lane[h]
    <3> DEFINE part == { i \in Groups : lane[i] = lane[g] }
    <3>1. \A i \in part, j \in Groups : slice[i] \cap slice[j] # {} => j \in part
      BY <1>1, <2>1, SharersInOneLane DEF ChainInv, IInv
    <3>2. part \in SUBSET Groups /\ g \in part
      OBVIOUS
    <3>3. h \in part
      BY <2>3, <3>1, <3>2 DEF Joined
    <3> QED
      BY <3>3
  <2> QED
    BY <2>2, <2>3
<1>2. ChainInv => LanesAreComponents
  BY <1>1 DEF LanesAreComponents
<1> QED
  BY <1>2, SpecChainInv, PTL

-----------------------------------------------------------------------------
(* A batch goes on to its end.                                              *)

LEMMA SmallestOf ==
  ASSUME NEW some \in SUBSET Groups, some # {}
  PROVE  \E g \in some : \A h \in some : g <= h
<1> DEFINE below == { ss \in Nat \X Nat : ss[1] < ss[2] }
<1>1. below = OpToRel(<, Nat)
  BY DEF OpToRel
<1>2. IsWellFoundedOn(below, Nat)
  BY <1>1, NatLessThanWellFounded
<1>3. some \subseteq Nat
  BY DEF Groups
<1>4. PICK g \in some : \A h \in some : ~(<<h, g>> \in below)
  <2> HIDE DEF below
  <2> QED BY <1>2, <1>3, WFMin
<1>5. ASSUME NEW h \in some PROVE g <= h
  <2>1. h \in Nat /\ g \in Nat
    BY <1>3
  <2>2. <<h, g>> \in Nat \X Nat /\ <<h, g>>[1] = h /\ <<h, g>>[2] = g
    BY <2>1
  <2>3. ~(<<h, g>>[1] < <<h, g>>[2])
    BY <1>4, <2>2, Zenon
  <2>4. ~(h < g)
    BY <2>2, <2>3
  <2> QED BY <2>1, <2>4
<1> QED BY <1>4, <1>5

(* Nothing waits for ever on its own lane: the first group of it that has    *)
(* not ended is free to go on, and an agent of the lane is that very group.   *)
THEOREM LanesGoOn == Spec => []LanesKeepGoing
<1>1. ASSUME IInv, NEW g \in Groups, at[g] # "ended"
      PROVE  \E h \in Groups :
               /\ lane[h] = lane[g] /\ at[h] # "ended" /\ Turn(h)
               /\ \A i \in Agents : lane[i] = lane[g] => i = h
  <2> DEFINE waiting == { h \in Groups : lane[h] = lane[g] /\ at[h] # "ended" }
  <2>1. PICK h \in waiting : \A i \in waiting : h <= i
    <3>1. waiting \in SUBSET Groups /\ g \in waiting
      BY <1>1
    <3> HIDE DEF waiting
    <3> QED BY <3>1, SmallestOf
  <2>2. Turn(h)
    <3>1. ASSUME NEW i \in Groups, i < h, lane[i] = lane[h] PROVE at[i] = "ended"
      BY <2>1, <3>1 DEF Groups
    <3> QED BY <3>1 DEF Turn
  <2>3. ASSUME NEW i \in Agents, lane[i] = lane[g] PROVE i = h
    <3>1. i \in waiting /\ Turn(i)
      BY <1>1, <2>3 DEF IInv, Scheduled, Agents
    <3>2. ~(h < i)
      BY <2>1, <2>3, <3>1 DEF Turn
    <3> QED BY <2>1, <3>1, <3>2 DEF Groups
  <2> QED BY <2>1, <2>2, <2>3
<1>2. IInv => LanesKeepGoing
  BY <1>1 DEF LanesKeepGoing
<1> QED
  BY <1>2, SpecIInv, PTL

(* One step of one agent.                                                   *)
LEMMA AgentGoesFurther ==
  ASSUME IInv, NEW g \in Groups, AgentStep(g)
  PROVE  /\ TakesFurther(g)
         /\ \A h \in Groups \ {g} :
              at'[h] = at[h] /\ attempt'[h] = attempt[h] /\ edit'[h] = edit[h]
<1> DEFINE Others == \A h \in Groups \ {g} :
              at'[h] = at[h] /\ attempt'[h] = attempt[h] /\ edit'[h] = edit[h]
<1>1. /\ at \in [Groups -> {"waiting", "reading", "writing", "ended"}]
      /\ attempt \in [Groups -> 1 .. Retries + 1] /\ edit \in [Groups -> SUBSET Files]
  BY DEF IInv, TypeOK
<1>2. CASE Launch(g)
  BY <1>1, <1>2 DEF Launch, TakesFurther, Stage
<1>3. CASE Read(g)
  <2>1. /\ at[g] = "reading" /\ at' = [at EXCEPT ![g] = "writing"] /\ attempt' = attempt
        /\ edit' = edit
    BY <1>3 DEF Read
  <2> QED BY <1>1, <2>1 DEF TakesFurther, Stage
<1>4. CASE Fail(g)
  <2>1. /\ at[g] \in {"reading", "writing"} /\ edit' = [edit EXCEPT ![g] = {}]
        /\ \/ attempt' = [attempt EXCEPT ![g] = @ + 1] /\ at' = [at EXCEPT ![g] = "waiting"]
           \/ attempt' = attempt /\ at' = [at EXCEPT ![g] = "ended"]
    BY <1>4 DEF Fail, Settle, Agents
  <2> QED BY <1>1, <2>1 DEF TakesFurther, Stage
<1>5. ASSUME NEW f \in Files, Write(g, f) PROVE TakesFurther(g) /\ Others
  <2>1. f \notin edit[g] /\ edit' = [edit EXCEPT ![g] = @ \cup {f}] /\ UNCHANGED <<at, attempt>>
    BY <1>5 DEF Write
  <2> QED BY <1>1, <2>1 DEF TakesFurther
<1>6. ASSUME NEW outcome \in {"fixed", "disputed"}, Answer(g, outcome)
      PROVE  TakesFurther(g) /\ Others
  <2>1. /\ at[g] = "writing" /\ at' = [at EXCEPT ![g] = "ended"] /\ attempt' = attempt
        /\ edit' = edit
    BY <1>6 DEF Answer, Settle
  <2> QED BY <1>1, <2>1 DEF TakesFurther, Stage
<1> QED BY <1>2, <1>3, <1>4, <1>5, <1>6 DEF AgentStep

(* A batch never turns in place: it has finitely many attempts, each of them  *)
(* four stages and finitely many files to write.                             *)
THEOREM BatchesAdvance == Spec => BatchAdvances
<1>1. ASSUME IInv, Next, phase = "fix", phase' = "fix"
      PROVE  \E g \in Groups :
               /\ TakesFurther(g)
               /\ \A h \in Groups \ {g} :
                    at'[h] = at[h] /\ attempt'[h] = attempt[h] /\ edit'[h] = edit[h]
  <2>1. PICK g \in Groups : AgentStep(g)
    BY <1>1 DEF Next, Place, Record, Abort
  <2> QED BY <1>1, <2>1, AgentGoesFurther
<1>2. IInv /\ [Next]_vars =>
        [phase = "fix" /\ phase' = "fix" =>
           \E g \in Groups :
             /\ TakesFurther(g)
             /\ \A h \in Groups \ {g} :
                  at'[h] = at[h] /\ attempt'[h] = attempt[h] /\ edit'[h] = edit[h]]_vars
  BY <1>1
<1> QED
  BY <1>2, SpecIInv, PTL DEF Spec, BatchAdvances
=============================================================================
