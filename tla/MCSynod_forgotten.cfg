SPECIFICATION Spec
CONSTANTS
  NumLeaders = 2
  a1 = a1
  a2 = a2
  a3 = a3
  c1 = c1
  c2 = c2
  Acceptors <- MCAcceptors3
  Commands = {c1}
  Replicas = {r1}
  Slots = {1}
  MaxBallot = 0
INVARIANTS NoSlotForgotten
SYMMETRY MCSymmetry3
CHECK_DEADLOCK FALSE
