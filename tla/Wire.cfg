CONSTANTS
  MaxSavepoints = 2
  MaxStatements = 2
SPECIFICATION FairSpec
INVARIANTS TypeOK CopyOnlyInCopyIn OverlaysMatchBlock QueryAnswered
PROPERTY QueryCompletes
