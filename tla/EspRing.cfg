SPECIFICATION Spec
CONSTANTS
  Size = 4
  Byte = {0, 65}
INVARIANTS TypeOK WindowStable RequestsAreMet
PROPERTIES ImplementsFifo
