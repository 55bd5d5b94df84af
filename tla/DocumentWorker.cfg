SPECIFICATION FairSpec
CONSTANTS
  MaxPages = 3
  Scanned <- TwoScanned
  Budget = 2
CHECK_DEADLOCK FALSE
INVARIANTS WholeText Reaped Budgeted
PROPERTIES Streams Settles
