SPECIFICATION FairSpec
CONSTANTS
  NumServers = 2
  Clients = {k1}
  Moves = {m1}
  MaxRequests = 2
  Quorum = 2
  WindowSize = 2
  MaxSlot = 4
  Correct = {0}
INVARIANTS PerformedOnce NoReplicaExits
PROPERTIES NoRequestLost ImplementsMachine EveryRequestPerformed
CHECK_DEADLOCK FALSE
