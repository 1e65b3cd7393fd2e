CONSTANTS
  Workers = {}
  Callers = {c1}
  Buffers = {b1, b2}
  None = None
  Slow = TRUE
SPECIFICATION Spec
SYMMETRY BufferSymmetry
PROPERTIES OwnParams
