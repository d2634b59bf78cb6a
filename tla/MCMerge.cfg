SPECIFICATION MergeSpec
CONSTANTS
  Ids <- MCIds
  FileOf <- MCFileOf
  OwnedRules = {"mutant"}
  DeciderRules = {"mutant"}
  AbsenceRules = {"swallow"}
  MaxRound = 3
  K = 2
  MaxReopens = 1
  MaxCopies = 2
  Carried <- MCCarried
INVARIANTS ReportedWorkIsKept CodeRoundIsExact
PROPERTIES AbsorbsAtMostOne
CHECK_DEADLOCK FALSE
