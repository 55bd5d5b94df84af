SPECIFICATION Spec
CONSTANTS
  m1 = m1
  m2 = m2
  t1 = t1
  g1 = g1
  s1 = s1
  s2 = s2
  None = None
  Materials = {m1, m2}
  Tasks = {t1}
  Groups = {g1}
  TaskOf <- OneTask
  GroupOf <- OneGroup
  Sources = {s1}
  Models = {FALSE}
  MaxRev = 2
  MaxDict = 2
  MaxConsents = 1
  MaxProfile = 2
  MaxCrashes = 1
SYMMETRY Symmetry
CHECK_DEADLOCK FALSE
INVARIANTS PublishedIsCurrent CopyIsCurrent NoStranded
PROPERTIES DispatchIsCurrent OneDispatchPerConsent Publishes
