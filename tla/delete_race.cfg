SPECIFICATION Spec
CONSTANTS
  None = None
  Names = {w1, w2, w3}
  Apps = {a1, a2, a3}
  Clients = {p, q, r}
  Cap = 3
  Faults = {}
  DeletesAlone = FALSE
  MaxFaults = 1
INVARIANTS
  UniqueApplicationNames
SYMMETRY Interchangeable
