CONSTANTS
  Session = {s1, s2}
  NoSession = NoSession
  Row = {r1, r2, r3}
  NoRow = NoRow
  MaxBlock = 2
  LinesPerPage = 2
  MaxCid = 2
  MaxDepth = 1
  Ops = {"block", "delete", "update", "error", "copy"}
SPECIFICATION Spec
SYMMETRY Symmetry
INVARIANTS TypeOK ReadsAgree RowCountExact PendingOwned IdleLeavesNothing ImplicitBelowTopEmpty
PROPERTIES RefinesStore SnapshotStable
