SPECIFICATION Spec
CONSTANTS
  Keys = {k1, k2}
  NoKey = NoKey
  Dispatchers = {d1, d2}
  Registered = {d1}
  MaxRev = 3
  MaxFaults = 3
SYMMETRY Symmetry
CHECK_DEADLOCK FALSE
INVARIANTS CredentialInvariant FirstFaultContained
PROPERTIES CommitPairs RecordIsCurrent
