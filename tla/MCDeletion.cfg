SPECIFICATION FaultFreeSpec
CONSTANTS
  Thread = {t1}
  Message = {m1, m2}
  Attempt = {a1, a2}
  Question = {}
  GitOp = {}
  Command = {}
  Attachment = {}
  Model = {p1}
  None = None
  MaxActiveRuns = 1
  MaxReads = 1
  MaxOutstanding = 1
  MaxGeneration = 1
  MaxEdits = 0
  MaxEntries = 0
  MaxTries = 1
PROPERTIES
  DeletedIsPurged
CHECK_DEADLOCK FALSE
