SPECIFICATION EndsSpec
CONSTANTS
  Attempt = {a1, a2}
  Box = {b1}
  File = {f1, f2}
  None = None
PROPERTIES
  WorkEnds
CHECK_DEADLOCK FALSE
