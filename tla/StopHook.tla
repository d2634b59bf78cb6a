------------------------------ MODULE StopHook ------------------------------
(***************************************************************************)
(* The Stop hook beside a task that another process works on.  The hook    *)
(* shells out to "coldsweep converged", which reads the profile, the       *)
(* findings, the list of ingested rounds and which of them are incomplete, *)
(* one after the other and with no lock.  Between two of these reads the   *)
(* commands of TaskLoop may take any number of steps.                      *)
(***************************************************************************)
EXTENDS TaskLoop

VARIABLES
  hook,    \* what the hook has read last, "out" when no session is stopping
  seen,    \* what it has read: [profile, findings, rounds]
  answer,  \* how the last session to stop was answered
  gates,   \* history: what the gate was since the hook began to read
  moved    \* history: what of the profile and the records changed since then

history == <<gates, moved>>
hookVars == <<hook, seen, answer>>
allVars == <<vars, hookVars, history>>

Unread == [profile  |-> [rule_ids |-> {}, exhaustive |-> {}],
           findings |-> NoFindings, rounds |-> {}]
Looking == hook # "out"

HookTypeOK ==
  /\ TypeOK
  /\ hook \in {"out", "profile", "findings", "rounds"}
  /\ DOMAIN seen = {"profile", "findings", "rounds"}
  /\ seen.profile \in [rule_ids : SUBSET Rules, exhaustive : SUBSET Rules]
  /\ IsFindingSet(seen.findings) /\ seen.rounds \subseteq DOMAIN records
  /\ answer \in {"none", "allow", "block"}
  /\ gates \subseteq BOOLEAN /\ moved \subseteq {"anew", "again"}

HookInit ==
  /\ Init
  /\ hook = "out" /\ seen = Unread /\ answer = "none"
  /\ gates = {} /\ moved = {}

-----------------------------------------------------------------------------
(* What the task goes through while the hook looks.  "anew": the taxonomy or  *)
(* the rounds are others; "again": a round was ingested again.               *)
Changes ==
  (IF profile' # profile \/ DOMAIN records' # DOMAIN records THEN {"anew"} ELSE {}) \cup
  (IF \E r \in DOMAIN records : records'[r] # records[r] THEN {"again"} ELSE {})

Watch ==
  IF Looking THEN gates' = gates \cup {GateOpen'} /\ moved' = moved \cup Changes
             ELSE UNCHANGED history

Leave(told) ==
  /\ answer' = told
  /\ hook' = "out" /\ seen' = Unread /\ gates' = {} /\ moved' = {}
  /\ UNCHANGED vars

LoadProfile ==
  /\ ~Looking
  /\ hook' = "profile" /\ seen' = [seen EXCEPT !.profile = profile] /\ answer' = "none"
  /\ gates' = {GateOpen} /\ moved' = {}
  /\ UNCHANGED vars

LoadFindings ==
  /\ hook = "profile"
  /\ hook' = "findings" /\ seen' = [seen EXCEPT !.findings = findings]
  /\ UNCHANGED <<vars, answer, history>>

ListRounds ==
  /\ hook = "findings"
  /\ hook' = "rounds" /\ seen' = [seen EXCEPT !.rounds = DOMAIN records]
  /\ UNCHANGED <<vars, answer, history>>

(* The incomplete rounds and the blockers are read last.  The exit code of   *)
(* converged is the answer.                                                  *)
OpenAsSeen ==
  Converged(seen.findings, [r \in seen.rounds |-> records[r]], seen.profile, FALSE)

(* Mutant: the incomplete rounds are not asked for.                         *)
AnswerBlind ==
  /\ hook = "rounds"
  /\ Leave(IF Converged(seen.findings, [r \in seen.rounds |-> [new |-> {}, failed |-> FALSE]],
                        seen.profile, FALSE) THEN "allow" ELSE "block")

(* Mutant: a dispute blocks even when it has been accepted.                  *)
AnswerUnruled ==
  /\ hook = "rounds"
  /\ Leave(IF OpenAsSeen /\ \A id \in DOMAIN seen.findings : seen.findings[id].status # "disputed"
             THEN "allow" ELSE "block")

Answer ==
  /\ hook = "rounds"
  /\ Leave(IF OpenAsSeen THEN "allow" ELSE "block")

(* No task is named, the spec blocks, or something cannot be evaluated.      *)
Refuse == Leave("block")

(* The hook stands down: the session stops again right after it was blocked, *)
(* the payload is unreadable, or converged cannot be run.                    *)
StandDown == Leave("allow")

HookStep ==
  \/ LoadProfile \/ LoadFindings \/ ListRounds
  \/ Answer \/ Refuse \/ StandDown

HookNext == HookStep \/ (Next /\ UNCHANGED hookVars /\ Watch)
HookSpec == HookInit /\ [][HookNext]_allVars

-----------------------------------------------------------------------------
(* The gate does not send a session back to work for nothing ("a wrongly     *)
(* blocked stop is unrecoverable", hooks/stop.py:44): whatever commands ran   *)
(* between the reads, the gate was shut at some moment while the hook looked, *)
(* unless an ingested round was ingested again meanwhile.                    *)
BlocksOnlyWhileShut ==
  [][Answer /\ answer' = "block" => FALSE \in gates \/ "again" \in moved]_allVars

(* Fixes, verdicts, rulings and scans may land between the reads as they     *)
(* like: the gate lets a stop pass only if it was open at some moment of the  *)
(* look, unless a round was ingested or the profile edited meanwhile.        *)
AllowsWhatWasOpen ==
  [][Answer /\ answer' = "allow" => TRUE \in gates \/ moved # {}]_allVars

-----------------------------------------------------------------------------
(* A statement of the documentation that the hook does not keep.             *)

(* "Refuses to let an interactive session finish while the gate is shut"     *)
(* (hooks/stop.py:1), whatever runs beside it.                               *)
StopsOnlyOnceConverged ==
  [][Answer /\ answer' = "allow" => TRUE \in gates]_allVars
=============================================================================
