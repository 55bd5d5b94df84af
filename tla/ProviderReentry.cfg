SPECIFICATION Spec
CONSTANTS
  Keys = {k1, k2}
  NoKey = NoKey
  Dispatchers = {d1}
  Registered = {d1}
  MaxRev = 3
  MaxFaults = 2
CHECK_DEADLOCK FALSE
INVARIANT KeyOfConfig
