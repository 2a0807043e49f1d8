SPECIFICATION Spec
CONSTANTS
  Rules = {r1, r2, r3, r4, r5}
  NULL = NULL
  Texts <- MCTexts
  Addr <- MCAddr
  NoAddr = "none"
SYMMETRY Symmetry
PROPERTIES ImplementsSet
