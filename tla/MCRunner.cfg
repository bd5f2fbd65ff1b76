SPECIFICATION Spec
CONSTANTS
  Attempt = {a1, a2}
  Box = {b1, b2, b3}
  File = {f1, f2}
  None = None
INVARIANTS
  RunnerTypeOK
  CommandsAreTrue
  SessionIsDurable
  SessionIsRestored
  RunIsInformed
PROPERTIES
  PreviewIsHonest
  FilesAreKept
  CheckoutIsWhole
  AccessIsCurrent
CHECK_DEADLOCK FALSE
