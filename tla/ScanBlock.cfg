CONSTANTS
  Session = {s1}
  NoSession = NoSession
  Row = {r1, r2, r3}
  NoRow = NoRow
  MaxBlock = 2
  LinesPerPage = 2
  MaxCid = 3
  MaxDepth = 1
  BatchRows = 1
  Ops = {"block", "delete", "update", "truncate", "error", "cursor"}
SPECIFICATION ScanSpec
SYMMETRY Symmetry
INVARIANTS  ReadsAgree CountZeroMeansEmpty ScanExact
