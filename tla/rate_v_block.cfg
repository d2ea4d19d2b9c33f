SPECIFICATION Spec
CONSTANTS
  Address = {c1, c2}
  Limits = {2}
  Intervals = {2}
  BlockTimes = {4}
  Second = 1
  Faulty = FALSE
SYMMETRY Symmetry
PROPERTIES
  BlockIsHeld
