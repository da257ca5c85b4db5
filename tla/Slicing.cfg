SPECIFICATION FairSpec
CONSTANTS
  d1 = d1
  d2 = d2
  d3 = d3
  Docs = {d1, d2, d3}
  Selected <- MCSelected
  SourceOf <- MCSourceOf
  Daily = {"windows"}
  Times = {0, 4, 8, 10, 12, 18}
  Start = 3
  End = 17
  Window = 8
  Target = 1
  MinSlice = 2
  Tick = 2
  Limit = 3
  MaxChanges = 1
CHECK_DEADLOCK FALSE
INVARIANTS
  TypeOK
  ExportIsComplete
  YieldsInOrder
PROPERTY ExportEnds
