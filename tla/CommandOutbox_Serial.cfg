SPECIFICATION Spec
CONSTANTS
  Commands = {c1}
  Gateways = {g1, g2}
  MaxAttempts = 2
  MaxInterrupts = 2
  Serial = TRUE
  None = None
SYMMETRY Symmetry
PROPERTIES
  ImplementsLeasedWork
