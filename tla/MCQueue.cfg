SPECIFICATION QueueSpec
CONSTANTS
  Thread = {t1, t2}
  Message = {m1, m2, m3}
  Attempt = {a1, a2}
  Question = {}
  GitOp = {}
  Command = {c1, c2}
  Attachment = {}
  Model = {p1, p2}
  None = None
  MaxActiveRuns = 1
  MaxReads = 2
  MaxOutstanding = 3
  MaxGeneration = 2
  MaxEdits = 1
  MaxEntries = 3
SYMMETRY Symmetry
INVARIANTS
  AdmissionLimit
  StartedHasRun
  SteersAreKept
  CommandsAreOwned
PROPERTIES
  QueueStallsOnlyByCancel
  CancelKeepsQueue
  SupersededStaysOut
  QueueIsFifo
CHECK_DEADLOCK FALSE
