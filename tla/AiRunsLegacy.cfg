SPECIFICATION Spec
CONSTANTS
  r1 = r1
  r2 = r2
  m1 = m1
  Runs = {r1}
  Chats <- NoChats
  Sources = {m1}
  Legacy <- OneLegacy
  Faults <- NoFaults
  MaxRounds = 1
  MaxContext = 1
  MaxChange = 1
  MaxProfile = 1
CHECK_DEADLOCK FALSE
PROPERTIES MaterialAdvances
