SPECIFICATION Spec
CONSTANTS
  Ids <- AgentIds
  FileOf <- MCFileOf
  OwnedRules = {}
  DeciderRules = {}
  AbsenceRules = {"swallow"}
  MaxRound = 2
  K = 1
  MaxReopens = 1
  MaxCopies = 1
  Profiles <- JustAgent
  Foreign <- Nobody
  Ceiling = 2
  MaxDisputes = 1
  Blockers = {FALSE}
INVARIANTS
  RecordsMatchFindings
PROPERTIES
  RulingsStand
