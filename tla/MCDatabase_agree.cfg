SPECIFICATION DBSpec
CONSTANTS
  NumServers = 2
  Clients = {k1}
  Moves <- MCMoves
  Accounts = {1, 2}
  MaxRequests = 2
  Quorum = 2
  WindowSize = 2
  MaxSlot = 4
  Correct = {}
INVARIANTS MonitorNeverHalts DatabasesAgree
CONSTRAINT AmountIsCid
CHECK_DEADLOCK FALSE
