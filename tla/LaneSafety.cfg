CONSTANTS
  Session = {s1, s2, s3}
  NoSession = NoSession
  RowKey = {r1, r2}
  NoRow = NoRow
  PostgresCatalog = TRUE
  Kinds = {"begin", "query", "write", "ddl"}
  BlockKinds = {"query", "write", "ddl"}
SPECIFICATION Spec
SYMMETRY Symmetry
CHECK_DEADLOCK FALSE
INVARIANTS TypeOK LaneExclusion LocksOutliveOnlyBlocks WaitsOnlyForBlocks
PROPERTY ImplementsService
