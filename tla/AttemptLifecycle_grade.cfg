\* One student saves an answer twice: is the grade that of the second?
SPECIFICATION Spec
CONSTANTS
  Participant = {p1}
  AttemptId = {a1}
  Device = {d1}
  Item = {i1}
  Request = {r1}
  Sweeper = {s1}
  None = None
  StartsAt = 0
  EndsAt = 2
  Duration = 1
  MaxAttempts = 1
  MaxTime = 2
  MaxSeq = 2
  MaxGeneration = 0
  MaxFaults = 0
INVARIANTS
  GradeDescribesAnswer
