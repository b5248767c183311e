SPECIFICATION Spec
CONSTANTS
  Benches = {b1}
  Pids = {p1, p2}
  Ports = {q1}
  None = None
  MaxBorn = 2
PROPERTIES
  AnswerIsOwn
