SPECIFICATION LifeSpec
CONSTANTS
  Thread = {t1, t2}
  Message = {m1, m2, m3}
  Attempt = {a1}
  Question = {}
  GitOp = {g1, g2}
  Command = {}
  Attachment = {x1}
  Model = {p1}
  None = None
  MaxActiveRuns = 2
  MaxReads = 1
  MaxOutstanding = 1
  MaxGeneration = 2
  MaxEdits = 0
  MaxEntries = 1
SYMMETRY Symmetry
INVARIANTS
  OneActiveRun
  DeletedIsSettled
  AttachmentsBound
  GitWritesAreSafe
PROPERTIES
  TerminalIsFinal
  ImplementsRunLifecycle
CHECK_DEADLOCK FALSE
