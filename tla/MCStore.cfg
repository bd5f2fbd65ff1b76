SPECIFICATION StoreSpec
CONSTANTS
  Thread = {t1}
  Message = {m1}
  Attempt = {a1, a2}
  Question = {q1, q2}
  GitOp = {}
  Command = {}
  Attachment = {x1}
  Model = {p1}
  None = None
  MaxActiveRuns = 1
  MaxReads = 1
  MaxOutstanding = 1
  MaxGeneration = 1
  MaxEdits = 0
  MaxEntries = 1
SYMMETRY Symmetry
INVARIANTS
  TypeOK
  AskedInOrder
CHECK_DEADLOCK FALSE
