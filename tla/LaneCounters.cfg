CONSTANTS
  Session = {s1, s2, s3, s4}
  NoSession = NoSession
  RowKey = {r1}
  NoRow = NoRow
  PostgresCatalog = FALSE
  Kinds = {"query"}
  BlockKinds = {}
SPECIFICATION Spec
SYMMETRY Symmetry
INVARIANTS MaxActiveIsPeak
