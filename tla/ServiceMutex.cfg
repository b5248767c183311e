SPECIFICATION FairSpec
CONSTANTS
  Benches = {b1}
  Pids = {p1}
  Ports = {q1}
  None = None
  MaxBorn = 2
PROPERTIES OperationEnds
