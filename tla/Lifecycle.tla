------------------------------ MODULE Lifecycle ------------------------------
(***************************************************************************)
(* What a task promises about its findings, whatever agents report, in      *)
(* whatever order rounds are ingested and wherever a command dies.  A round *)
(* is folded in as a whole or not at all.  Only a round brings findings up, *)
(* or back once they are closed; fixes and verdicts are about work in hand; *)
(* only triage moves what is disputed or ruled on.                          *)
(***************************************************************************)
CONSTANTS
  Ids,       \* the identities
  Refutable  \* those with a decider that can refute a dispute

VARIABLES
  life,     \* what each has come to
  folding   \* whether a round is being folded in

vars == <<life, folding>>

Lives == {"unseen", "work", "closed", "disputed", "ruled"}

Init == life = [id \in Ids |-> "unseen"] /\ folding = FALSE

Stays(id) == life'[id] = life[id]
Goes(id, from, to) == life[id] \in from /\ life'[id] = to

Begin == ~folding /\ folding' = TRUE /\ UNCHANGED life
Abandon == folding /\ folding' = FALSE /\ UNCHANGED life

(* What a round reports is work, what it no longer reports may close, and     *)
(* what keeps coming back is disputed.                                      *)
Round ==
  /\ folding /\ folding' = FALSE
  /\ \A id \in Ids :
       \/ Stays(id)
       \/ Goes(id, {"unseen", "closed"}, "work")
       \/ Goes(id, {"work"}, "closed")
       \/ Goes(id, {"work", "closed"}, "disputed")

FixOrVerify ==
  /\ ~folding /\ UNCHANGED folding
  /\ \A id \in Ids : Stays(id) \/ Goes(id, {"work"}, "closed") \/ Goes(id, {"work"}, "disputed")

(* A person rules on disputes, and on findings that the taxonomy lacks; a     *)
(* decider refutes disputes.                                                *)
Triage ==
  /\ ~folding /\ UNCHANGED folding
  /\ \A id \in Ids :
       \/ Stays(id)
       \/ Goes(id, {"disputed"}, "work")
       \/ Goes(id, {"work", "closed", "disputed"}, "ruled")
       \/ Goes(id, {"disputed"}, "closed") /\ id \in Refutable

Next ==
  /\ life' \in [Ids -> Lives]
  /\ Begin \/ Abandon \/ Round \/ FixOrVerify \/ Triage

Spec == Init /\ [][Next]_vars
=============================================================================
