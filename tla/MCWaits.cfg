SPECIFICATION PersonSpec
CONSTANTS
  Thread = {t1}
  Message = {m1}
  Attempt = {a1, a2, a3, a4}
  Question = {q1}
  GitOp = {g1}
  Command = {}
  Attachment = {}
  Model = {p1}
  None = None
  MaxActiveRuns = 1
  MaxReads = 1
  MaxOutstanding = 1
  MaxGeneration = 1
  MaxEdits = 0
  MaxEntries = 0
  MaxTries = 1
INVARIANTS
  SessionHasWorkspace
PROPERTIES
  WaitingRunsEnd
CHECK_DEADLOCK FALSE
