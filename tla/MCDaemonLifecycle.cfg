SPECIFICATION Spec
CONSTANTS
  p1 = p1  p2 = p2  p3 = p3
  None = None
  Procs = {p1, p2, p3}
  GraceMisses = 3
  MaxFaults = 3
INVARIANTS TypeOK ServingIsNamed WorkIsNotKilled
PROPERTIES ServedAgain
