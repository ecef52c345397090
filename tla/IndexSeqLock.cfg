CONSTANTS
  Session = {s1, s2}
  NoSession = NoSession
  Row = {r1, r2, r3, r4}
  NoRow = NoRow
  MaxBlock = 2
  LinesPerPage = 2
  MaxCid = 2
  MaxDepth = 1
  Ops = {"block", "update", "hot", "index"}
SPECIFICATION Spec
SYMMETRY Symmetry
INVARIANT OneVersionPerRow
