SPECIFICATION Spec
CONSTANTS
  NumLeaders = 2
  a1 = a1
  a2 = a2
  a3 = a3
  c1 = c1
  c2 = c2
  Acceptors <- MCAcceptors3
  Commands <- MCCommands
  Replicas = {r1}
  Slots = {1}
  MaxBallot = 0
INVARIANTS Inv
SYMMETRY MCSymmetry
CHECK_DEADLOCK FALSE
