SPECIFICATION FairSpec
CONSTANTS
  Ids <- OneAgent
  FileOf <- MCFileOf
  OwnedRules = {}
  DeciderRules = {}
  AbsenceRules = {"swallow"}
  MaxRound = 4
  K = 2
  MaxReopens = 2
  MaxCopies = 1
  Profiles <- JustAgent
  Foreign <- Nobody
  Ceiling = 3
  MaxDisputes = 9
  Blockers = {TRUE, FALSE}
INVARIANTS
  TypeOK
  GateIsBackedByRecords
  GuardHolds
PROPERTIES
  NothingIsForgotten
  RunAdvances
  RunEnds
