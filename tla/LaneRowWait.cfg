CONSTANTS
  Session = {s1, s2}
  NoSession = NoSession
  RowKey = {r1}
  NoRow = NoRow
  PostgresCatalog = TRUE
  Kinds = {"begin", "write"}
  BlockKinds = {"write"}
SPECIFICATION FairSpec
CHECK_DEADLOCK FALSE
PROPERTIES BlockEnds
