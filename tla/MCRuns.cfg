SPECIFICATION RunSpec
CONSTANTS
  Thread = {t1}
  Message = {m1, m2}
  Attempt = {a1, a2}
  Question = {}
  GitOp = {}
  Command = {}
  Attachment = {}
  Model = {p1}
  None = None
  MaxActiveRuns = 1
  MaxReads = 1
  MaxOutstanding = 1
  MaxGeneration = 2
  MaxEdits = 0
  MaxEntries = 0
  MaxTries = 2
PROPERTIES
  RunsEnd
CHECK_DEADLOCK FALSE
