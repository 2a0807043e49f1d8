SPECIFICATION Spec
CONSTANTS
  Cap = 4
  Bytes = {1, 2, 3}
PROPERTY Agrees
