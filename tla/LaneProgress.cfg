CONSTANTS
  Session = {s1, s2, s3}
  NoSession = NoSession
  RowKey = {r1}
  NoRow = NoRow
  PostgresCatalog = TRUE
  Kinds = {"begin", "query", "write", "ddl"}
  BlockKinds = {"query"}
SPECIFICATION FairSpec
INVARIANTS NoWaitInLane
 
