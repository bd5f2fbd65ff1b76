SPECIFICATION EndsSpec
CONSTANTS
  Op = {p1, c1}
  Attachment = {f, i}
  Provider = {d, k}
  Flow = {f1, f2}
  Thread = {t1}
  Conn = {c1, c2}
  Tool = {t1, t2}
  None = None
PROPERTIES
  NothingWaitsForever
CHECK_DEADLOCK FALSE
