SPECIFICATION Spec
CONSTANTS
  Ids <- MCIds
  FileOf <- MCFileOf
  OwnedRules = {"unimplemented"}
  DeciderRules = {"unimplemented"}
  AbsenceRules = {}
  MaxRound = 3
  K = 2
  MaxReopens = 1
  Items = {"A"}
  Others = TRUE
  Texts = {1, 2}
  Unimplemented <- MCUnimplemented
  MaxEdits = 1
INVARIANTS
  TypeOK
  GateCoversWhatItSwept
  VerifiedIsMarked
  WorkIsFrozenWork
  IngestIsIdempotent
