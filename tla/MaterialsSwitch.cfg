SPECIFICATION Spec
CONSTANTS
  m1 = m1
  m2 = m2
  t1 = t1
  g1 = g1
  s1 = s1
  s2 = s2
  None = None
  Materials = {m1}
  Tasks = {t1}
  Groups = {g1}
  TaskOf <- Alone
  GroupOf <- OneGroup
  Sources = {s1, s2}
  Models = {TRUE, FALSE}
  MaxRev = 3
  MaxDict = 2
  MaxConsents = 0
  MaxProfile = 2
  MaxCrashes = 1
CHECK_DEADLOCK FALSE
INVARIANTS PublicationInvariant ReadyIsReadable
PROPERTIES DispatchIsCurrent ReviewKeepsEvidence SettledNeedsRevision NoReplay QueueDrains
