CONSTANTS
  Session = {s1, s2}
  NoSession = NoSession
  Row = {r1, r2, r3}
  NoRow = NoRow
  MaxBlock = 2
  LinesPerPage = 2
  MaxCid = 2
  MaxDepth = 2
  Ops = {"block", "delete", "update", "hot", "savepoint", "autotruncate", "disconnect"}
SPECIFICATION Spec
SYMMETRY Symmetry
INVARIANTS ReadsAgree 
PROPERTY RefinesStore
