SPECIFICATION FairSpec
CONSTANTS
  o1 = o1
  s1 = s1
  t1 = t1
  Ids = {o1, s1}
  RawIds <- OneRaw
  Readers <- Thread
  MaxVersion = 2
  MaxFaults = 1
  MaxDamage = 1
CHECK_DEADLOCK FALSE
INVARIANTS RowsAgree BackedUp
PROPERTIES Preserved Opens
