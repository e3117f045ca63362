\* One exam loaded, a second one new; a push, a reload and the tool contend, with two faults.
SPECIFICATION FairSpec
CONSTANTS
  Exam = {1, 2}
  Loaded = {1}
  Request = {r1}
  Tool = tool
  None = None
  MaxVersion = 2
  MaxFaults = 2
INVARIANTS
  TypeOK
  ServedIsCurrent
  LatestDecides
  PublishedIsServed
PROPERTIES
  ReadyIsServed
  OperationsEnd
