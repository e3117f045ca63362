\* What the finalizer's comment promises of the score, against late autosaves.
SPECIFICATION Spec
CONSTANTS
  Participant = {p1}
  AttemptId = {a1}
  Device = {d1}
  Item = {i1}
  Request = {r1, r2}
  Sweeper = {s1}
  None = None
  StartsAt = 0
  EndsAt = 2
  Duration = 1
  MaxAttempts = 1
  MaxTime = 2
  MaxSeq = 1
  MaxGeneration = 0
  MaxFaults = 0
INVARIANTS
  ScoreDescribesAnswers
