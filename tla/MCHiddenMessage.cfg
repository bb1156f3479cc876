SPECIFICATION Spec
CONSTANTS
  Subagent = FALSE
  MailboxCap = 1
  MaxMessages = 2
  MaxRounds = 1
  MaxCalls = 1
  MaxCrashes = 1
  MaxFaults = 0
INVARIANTS
  OnlySyntheticIsHidden
CHECK_DEADLOCK FALSE
