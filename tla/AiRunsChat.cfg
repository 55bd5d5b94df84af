SPECIFICATION FairSpec
CONSTANTS
  r1 = r1
  r2 = r2
  m1 = m1
  Runs = {r1, r2}
  Chats <- ChatRuns
  Sources = {m1}
  Legacy <- OneLegacy
  Faults <- Crashes
  MaxRounds = 1
  MaxContext = 1
  MaxChange = 0
  MaxProfile = 0
CHECK_DEADLOCK FALSE
INVARIANTS OneTurn AnswersFollow Owned
PROPERTIES  Settles
