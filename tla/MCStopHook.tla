----------------------------- MODULE MCStopHook -----------------------------
(***************************************************************************)
(* A session that stops beside a task: one finding of a rule the taxonomy  *)
(* has or lacks, or one of an agent-decided rule.                          *)
(***************************************************************************)
EXTENDS MCTaskLoop, StopHook

OneStray == {Stray}
=============================================================================
