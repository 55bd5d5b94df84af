SPECIFICATION Spec
CONSTANTS
  r1 = r1
  r2 = r2
  m1 = m1
  Runs = {r1, r2}
  Chats <- ChatRuns
  Sources = {m1}
  Legacy <- NoLegacy
  Faults <- NoFaults
  MaxRounds = 1
  MaxContext = 4
  MaxChange = 0
  MaxProfile = 0
CHECK_DEADLOCK FALSE
PROPERTIES SentHistory
