SPECIFICATION Spec
CONSTANTS
  j1 = j1
  j2 = j2
  j3 = j3
  Jobs = {j1, j2, j3}
  KindOf <- MixedKinds
  Active <- OneActive
  Waiting <- OneWaiting
CHECK_DEADLOCK FALSE
INVARIANTS Conserved
PROPERTIES NoBarging Settles
