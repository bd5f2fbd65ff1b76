SPECIFICATION Spec
CONSTANTS
  Op = {p1, c1}
  Attachment = {f, i}
  Provider = {d, k}
  Flow = {f1, f2}
  Thread = {t1, t2}
  Conn = {c1, c2}
  Tool = {t1, t2}
  None = None
INVARIANTS
  ServerTypeOK
  WritesAreTrue
  SubmissionsAreKept
  AccountIsSound
  PageIsTrue
  GatewayIsSound
  ListsAreWhole
PROPERTIES
  SettledStays
CHECK_DEADLOCK FALSE
