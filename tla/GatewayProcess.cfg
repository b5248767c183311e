SPECIFICATION Spec
CONSTANTS
  Benches = {b1}
  Pids = {p1, p2}
  Ports = {q1, q2}
  None = None
  MaxBorn = 3
INVARIANTS KillsOnlyOwn KeepsTrack OneGateway
SYMMETRY Symmetric
