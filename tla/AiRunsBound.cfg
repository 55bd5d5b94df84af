SPECIFICATION Spec
CONSTANTS
  r1 = r1
  r2 = r2
  m1 = m1
  Runs = {r1, r2}
  Chats <- NoChats
  Sources = {m1}
  Legacy <- NoLegacy
  Faults <- FailedSaves
  MaxRounds = 1
  MaxContext = 0
  MaxChange = 1
  MaxProfile = 1
CHECK_DEADLOCK FALSE
PROPERTIES EndedStays SentBound
