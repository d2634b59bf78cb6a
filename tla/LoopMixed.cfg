SPECIFICATION Spec
CONSTANTS
  Ids <- MixedIds
  FileOf <- MCFileOf
  OwnedRules = {"mutant"}
  DeciderRules = {"mutant"}
  AbsenceRules = {}
  MaxRound = 2
  K = 1
  MaxReopens = 1
  MaxCopies = 1
  Profiles <- MixedProfiles
  Foreign <- Nobody
  Ceiling = 2
  MaxDisputes = 9
  Blockers = {FALSE}
INVARIANT GateIsItsHalves
PROPERTIES DisputesStartPending OnlyTriageOpens OnlyRoundsShut FollowsLifecycle
