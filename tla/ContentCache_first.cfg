\* A reload that races the first load of an exam.
SPECIFICATION Spec
CONSTANTS
  Exam = {1, 2}
  Loaded = {1}
  Request = {r1, r2}
  Tool = tool
  None = None
  MaxVersion = 1
  MaxFaults = 0
PROPERTIES
  ReloadRebuildsAll
