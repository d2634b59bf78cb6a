SPECIFICATION HookSpec
CONSTANTS
  Ids <- OneAgent
  FileOf <- MCFileOf
  OwnedRules = {}
  DeciderRules = {}
  AbsenceRules = {"swallow"}
  MaxRound = 3
  K = 2
  MaxReopens = 2
  MaxCopies = 1
  Profiles <- JustAgent
  Foreign <- Nobody
  Ceiling = 2
  MaxDisputes = 9
  Blockers = {FALSE}
PROPERTY StopsOnlyOnceConverged
