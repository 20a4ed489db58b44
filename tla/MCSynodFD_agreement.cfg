SPECIFICATION FDSpec
CONSTANTS
  NumLeaders = 2
  a1 = a1
  a2 = a2
  c1 = c1
  c2 = c2
  Acceptors <- MCAcceptors2
  Commands <- MCCommands
  Replicas = {r1}
  Slots = {1, 2, 3}
  MaxBallot = 3
  nil = nil
INVARIANTS Agreement
CONSTRAINT Schedule
CHECK_DEADLOCK FALSE
