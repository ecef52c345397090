CONSTANTS
  Session = {s1}
  NoSession = NoSession
  Row = {r1, r2, r3}
  NoRow = NoRow
  MaxBlock = 2
  LinesPerPage = 2
  MaxCid = 2
  MaxDepth = 3
  Ops = {"block", "delete", "update", "hot", "savepoint", "error", "index", "copy", "disconnect"}
SPECIFICATION Spec
SYMMETRY Symmetry
INVARIANTS ReadsAgree MergeIsAppendFrom IndexFindsRow WritesHitScannedRow
