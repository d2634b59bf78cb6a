SPECIFICATION HookSpec
CONSTANTS
  Ids <- OneStray
  FileOf <- MCFileOf
  OwnedRules = {"mutant"}
  DeciderRules = {"mutant"}
  AbsenceRules = {}
  MaxRound = 2
  K = 1
  MaxReopens = 0
  MaxCopies = 1
  Profiles <- MixedProfiles
  Foreign <- Nobody
  Ceiling = 3
  Blockers = {FALSE}
  MaxDisputes = 9
PROPERTIES BlocksOnlyWhileShut AllowsWhatWasOpen
