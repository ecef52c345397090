CONSTANTS
  Session = {s1}
  NoSession = NoSession
  Row = {r1, r2}
  NoRow = NoRow
  MaxBlock = 2
  LinesPerPage = 2
  MaxCid = 2
  MaxDepth = 1
  Ops = {"block", "truncate", "disconnect"}
SPECIFICATION Spec
SYMMETRY Symmetry
INVARIANT ReadsAgree
