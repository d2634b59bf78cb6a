------------------------------ MODULE FixLanes ------------------------------
(***************************************************************************)
(* coldsweep fix: one agent per group of findings, many at once, in one    *)
(* working tree (runner.py, and the fix command of cli.py).                *)
(*                                                                         *)
(* A fix agent reads the files it was handed, decides, and writes them     *)
(* back whole, one after the other; it may die or time out between two     *)
(* writes and is then tried again.  Of a file's content only the groups    *)
(* whose edit it holds is kept, and whether its tests pass.                *)
(***************************************************************************)
EXTENDS Naturals, FiniteSets

CONSTANTS
  N,            \* the number of groups, which are worked in the order of their keys
  Files,        \* the files fix agents may write
  Slices,       \* what editable_slice may hand each group of them
  Parallelism,  \* agent.parallelism
  Retries,      \* agent.retries
  Proving       \* whether the profile has a mutation block: its remedy is a test

ASSUME GroupsAssumption == N \in Nat \ {0}
ASSUME AgentAssumption ==
  Parallelism \in Nat \ {0} /\ Retries \in Nat /\ Proving \in BOOLEAN

Groups == 1 .. N
NoGroup == 0
ASSUME SlicesAssumption == Slices \subseteq [Groups -> SUBSET Files]

VARIABLES
  slice,    \* the files each group may write
  owner,    \* fix_lanes: the last group seen to write a file
  lane,     \* fix_lanes: the root of each group's lane
  planned,  \* fix_lanes: how many groups are placed
  phase,    \* where the command is
  at,       \* where each group is
  attempt,  \* the number of its current attempt
  seen,     \* the tree as its agent read it
  edit,     \* the files its agent has written in this attempt
  result,   \* what its call returned
  tree,     \* the groups whose edit is in each file
  red,      \* the files whose tests fail
  status    \* the findings of each group, as saved

plan == <<slice, owner, lane, planned>>
agents == <<at, attempt, seen, edit, result>>
vars == <<plan, phase, agents, tree, red, status>>

Unread == [f \in Files |-> {}]

TypeOK ==
  /\ slice \in Slices
  /\ owner \in [Files -> Groups \cup {NoGroup}] /\ lane \in [Groups -> Groups]
  /\ planned \in 0 .. N
  /\ phase \in {"plan", "fix", "saved", "aborted"}
  /\ at \in [Groups -> {"waiting", "reading", "writing", "ended"}]
  /\ attempt \in [Groups -> 1 .. Retries + 1]
  /\ seen \in [Groups -> [Files -> SUBSET Groups]]
  /\ edit \in [Groups -> SUBSET Files]
  /\ result \in [Groups -> {"none", "fixed", "disputed", "failed"}]
  /\ tree \in [Files -> SUBSET Groups] /\ red \subseteq Files
  /\ status \in [Groups -> {"open", "fixed", "disputed"}]

Init ==
  /\ slice \in Slices
  /\ owner = [f \in Files |-> NoGroup] /\ lane = [g \in Groups |-> g] /\ planned = 0
  /\ phase = "plan"
  /\ at = [g \in Groups |-> "waiting"] /\ attempt = [g \in Groups |-> 1]
  /\ seen = [g \in Groups |-> Unread]
  /\ edit = [g \in Groups |-> {}]
  /\ result = [g \in Groups |-> "none"]
  /\ tree = [f \in Files |-> {}] /\ red = {}
  /\ status = [g \in Groups |-> "open"]

-----------------------------------------------------------------------------
(* Mutant: every group has a lane of its own.                               *)
PlaceApart ==
  /\ phase = "plan" /\ planned' = planned + 1
  /\ phase' = IF planned + 1 = N THEN "fix" ELSE "plan"
  /\ UNCHANGED <<slice, owner, lane, agents, tree, red, status>>

(* Mutant: a group joins one lane it meets and leaves the others apart.     *)
PlaceInOne ==
  /\ phase = "plan"
  /\ LET g   == planned + 1
         met == { lane[owner[f]] : f \in { x \in slice[g] : owner[x] # NoGroup } }
     IN  /\ lane' = [lane EXCEPT ![g] = IF met = {} THEN g ELSE CHOOSE root \in met : TRUE]
         /\ owner' = [f \in Files |-> IF f \in slice[g] THEN g ELSE owner[f]]
         /\ planned' = g
         /\ phase' = IF g = N THEN "fix" ELSE "plan"
  /\ UNCHANGED <<slice, agents, tree, red, status>>

(* fix_lanes places one group: it joins every lane that a file of its slice  *)
(* already belongs to, and becomes the root of them all.  A group that may    *)
(* write no file stands for itself, under its own key, in a lane of its own. *)
Place ==
  /\ phase = "plan"
  /\ LET g   == planned + 1
         met == { lane[owner[f]] : f \in { x \in slice[g] : owner[x] # NoGroup } }
     IN  /\ lane' = [h \in Groups |-> IF lane[h] \in met THEN g ELSE lane[h]]
         /\ owner' = [f \in Files |-> IF f \in slice[g] THEN g ELSE owner[f]]
         /\ planned' = g
         /\ phase' = IF g = N THEN "fix" ELSE "plan"
  /\ UNCHANGED <<slice, agents, tree, red, status>>

-----------------------------------------------------------------------------
Agents == { g \in Groups : at[g] \in {"reading", "writing"} }

(* Mutant: a group waits for every other of its lane, not for those before it. *)
TurnLast(g) == \A h \in Groups \ {g} : lane[h] = lane[g] => at[h] = "ended"

(* A lane works its groups in the order of their keys, one after the other.  *)
Turn(g) == \A h \in Groups : h < g /\ lane[h] = lane[g] => at[h] = "ended"

(* Mutant: a call that is over keeps its slot.                               *)
LaunchKeepingSlots(g) ==
  /\ phase = "fix" /\ at[g] = "waiting" /\ Turn(g)
  /\ Cardinality({ h \in Groups : at[h] # "waiting" }) < Parallelism
  /\ at' = [at EXCEPT ![g] = "reading"]
  /\ UNCHANGED <<plan, phase, attempt, seen, edit, result, tree, red, status>>

(* A free slot of the semaphore is taken for one attempt.                    *)
Launch(g) ==
  /\ phase = "fix" /\ at[g] = "waiting" /\ Turn(g)
  /\ Cardinality(Agents) < Parallelism
  /\ at' = [at EXCEPT ![g] = "reading"]
  /\ UNCHANGED <<plan, phase, attempt, seen, edit, result, tree, red, status>>

Read(g) ==
  /\ at[g] = "reading"
  /\ at' = [at EXCEPT ![g] = "writing"]
  /\ seen' = [seen EXCEPT ![g] = tree]
  /\ UNCHANGED <<plan, phase, attempt, edit, result, tree, red, status>>

(* A file is written back whole: as the agent read it, with its edit added.  *)
Write(g, f) ==
  /\ at[g] = "writing" /\ f \in slice[g] \ edit[g]
  /\ tree' = [tree EXCEPT ![f] = seen[g][f] \cup {g}]
  /\ edit' = [edit EXCEPT ![g] = @ \cup {f}]
  /\ red' \in {red \cup {f}, red \ {f}}
  /\ UNCHANGED <<plan, phase, at, attempt, seen, result, status>>

Settle(g, outcome) ==
  /\ at' = [at EXCEPT ![g] = "ended"]
  /\ result' = [result EXCEPT ![g] = outcome]
  /\ UNCHANGED attempt

(* An agent may answer what it likes whenever it likes: nothing holds a       *)
(* claimed fix against what was written, and it may have written nothing.    *)
Answer(g, outcome) ==
  /\ at[g] = "writing" /\ Settle(g, outcome)
  /\ seen' = [seen EXCEPT ![g] = Unread]
  /\ UNCHANGED <<plan, phase, edit, tree, red, status>>

(* Mutant: a retry does not use up an attempt.                              *)
FailForFree(g) ==
  /\ g \in Agents
  /\ \/ attempt[g] <= Retries /\ at' = [at EXCEPT ![g] = "waiting"] /\ UNCHANGED <<attempt, result>>
     \/ attempt[g] > Retries /\ Settle(g, "failed")
  /\ seen' = [seen EXCEPT ![g] = Unread] /\ edit' = [edit EXCEPT ![g] = {}]
  /\ UNCHANGED <<plan, phase, tree, red, status>>

(* The attempt fails: the agent does not start, dies, times out and is       *)
(* killed, or answers what the schema rejects.  What it wrote stays.         *)
Fail(g) ==
  /\ g \in Agents
  /\ \/ /\ attempt[g] <= Retries
        /\ attempt' = [attempt EXCEPT ![g] = @ + 1]
        /\ at' = [at EXCEPT ![g] = "waiting"]
        /\ UNCHANGED result
     \/ attempt[g] > Retries /\ Settle(g, "failed")
  /\ seen' = [seen EXCEPT ![g] = Unread] /\ edit' = [edit EXCEPT ![g] = {}]
  /\ UNCHANGED <<plan, phase, tree, red, status>>

-----------------------------------------------------------------------------
(* A profile whose remedy is a test takes no claim on the agent's word: the  *)
(* paired tests of the sources it claims are run when every agent is done.   *)
Rejected == { g \in Groups : Proving /\ result[g] = "fixed" /\ slice[g] \cap red # {} }

(* Mutant: the claims are taken on the agents' word.                         *)
RecordClaims ==
  /\ phase = "fix" /\ \A g \in Groups : at[g] = "ended"
  /\ phase' = "saved"
  /\ status' = [g \in Groups |-> IF result[g] = "failed" THEN "open" ELSE result[g]]
  /\ UNCHANGED <<plan, agents, tree, red>>

Record ==
  /\ phase = "fix" /\ \A g \in Groups : at[g] = "ended"
  /\ phase' = "saved"
  /\ status' = [g \in Groups |->
       IF result[g] = "failed" \/ g \in Rejected THEN "open" ELSE result[g]]
  /\ UNCHANGED <<plan, agents, tree, red>>

(* The command is interrupted, or a step fails with an error nothing handles. *)
(* The agents that run are killed, and nothing is saved.                     *)
Abort ==
  /\ phase \in {"plan", "fix"}
  /\ phase' = "aborted"
  /\ at' = [g \in Groups |-> "waiting"] /\ attempt' = [g \in Groups |-> 1]
  /\ seen' = [g \in Groups |-> Unread] /\ edit' = [g \in Groups |-> {}]
  /\ UNCHANGED <<plan, result, tree, red, status>>

AgentStep(g) ==
  \/ Launch(g) \/ Read(g) \/ Fail(g)
  \/ \E f \in Files : Write(g, f)
  \/ \E outcome \in {"fixed", "disputed"} : Answer(g, outcome)

Next == Place \/ (\E g \in Groups : AgentStep(g)) \/ Record \/ Abort

Spec == Init /\ [][Next]_vars

(* The event loop runs every lane that can go on, and an attempt ends: its    *)
(* agent answers, or agent.timeout_s passes and it is killed.                *)
FairSpec ==
  /\ Spec /\ WF_vars(Place) /\ WF_vars(Record)
  /\ \A g \in Groups : WF_vars(AgentStep(g))

-----------------------------------------------------------------------------
(* Groups are in one lane exactly when a chain of shared files joins them:    *)
(* "two groups that never touch the same file still share a lane if each     *)
(* shares one with a third", and nothing else is put in sequence.            *)
Joined(g, h) ==
  \A part \in SUBSET Groups :
    /\ g \in part
    /\ \A i \in part, j \in Groups : slice[i] \cap slice[j] # {} => j \in part
    => h \in part

LanesAreComponents ==
  phase = "fix" => \A g, h \in Groups : lane[g] = lane[h] <=> Joined(g, h)

(* "never letting two agents hold the same file at once", retries included.  *)
NoSharedFile ==
  \A g, h \in Agents : g # h => slice[g] \cap slice[h] = {}

(* What the agent of a fix that is recorded wrote is in the tree, in every    *)
(* file it wrote, and where a fix has to be proved no paired test of it      *)
(* fails.  That it wrote what the fix takes is its word: only its tests and  *)
(* the next verify tell.                                                     *)
RecordedFixIsInTree ==
  \A g \in Groups : status[g] = "fixed" =>
    /\ \A f \in edit[g] : g \in tree[f]
    /\ Proving => slice[g] \cap red = {}

(* The parallel agents leave the tree as if each edit had been added to its   *)
(* file in one step: no retry, timeout or whole-file write undoes an edit.   *)
Atomic == INSTANCE AtomicEdits
EditsAreAtomic == Atomic!Spec

(* No lane waits for itself, and none has two agents: while a group of it has *)
(* not ended, it is the turn of one that works or waits for nothing but a    *)
(* slot, and no other group of the lane works.                               *)
LanesKeepGoing ==
  phase = "fix" =>
    \A g \in Groups : at[g] # "ended" =>
      \E h \in Groups :
        /\ lane[h] = lane[g] /\ at[h] # "ended" /\ Turn(h)
        /\ \A i \in Agents : lane[i] = lane[g] => i = h

(* A batch never turns in place: every step of it takes one group further, to *)
(* its next attempt, the next stage of this one or one more file written,     *)
(* and leaves the other groups where they are.                               *)
Stage(g) ==
  CASE at[g] = "waiting" -> 0 [] at[g] = "reading" -> 1
    [] at[g] = "writing" -> 2 [] at[g] = "ended" -> 3

TakesFurther(g) ==
  \/ attempt'[g] > attempt[g]
  \/ attempt'[g] = attempt[g] /\ Stage(g)' > Stage(g)
  \/ /\ attempt'[g] = attempt[g] /\ at'[g] = at[g]
     /\ edit[g] \subseteq edit'[g] /\ edit'[g] # edit[g]

BatchAdvances ==
  [][phase = "fix" /\ phase' = "fix" =>
       \E g \in Groups :
         /\ TakesFurther(g)
         /\ \A h \in Groups \ {g} :
              at'[h] = at[h] /\ attempt'[h] = attempt[h] /\ edit'[h] = edit[h]]_vars

(* A batch ends: every lane gets its turn and every call its last attempt.    *)
BatchEnds == <>(phase \in {"saved", "aborted"})
=============================================================================
