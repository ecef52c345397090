CONSTANTS
  Session = {s1}
  NoSession = NoSession
  Row = {r1, r2, r3, r4}
  NoRow = NoRow
  MaxBlock = 2
  LinesPerPage = 2
  MaxCid = 2
  MaxDepth = 1
  BatchRows = 1
  Ops = {"delete", "update", "hot"}
SPECIFICATION ScanSpec
SYMMETRY Symmetry
INVARIANT ScanExact
