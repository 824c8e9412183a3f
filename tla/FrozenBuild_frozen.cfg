SPECIFICATION Spec
CONSTANTS
  c1 = c1  c2 = c2  c3 = c3  None = None
  Commands = {c1, c2}
  Kinds = {"desktop", "simulator", "device", "debug", "custom"}
  MaxChanges = 2  MaxFailures = 2
INVARIANT Inv
PROPERTY ReturnedIsPlanned
SYMMETRY Symmetry
CHECK_DEADLOCK FALSE
