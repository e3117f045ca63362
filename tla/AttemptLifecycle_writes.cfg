\* Submits, autosaves, sweeps, resets and a crash; the sweep ticker goes on.
SPECIFICATION FairSpec
CONSTANTS
  Participant = {p1}
  AttemptId = {a1}
  Device = {d1}
  Item = {i1, i2}
  Request = {r1, r2}
  Sweeper = {s1}
  None = None
  StartsAt = 0
  EndsAt = 2
  Duration = 1
  MaxAttempts = 1
  MaxTime = 2
  MaxSeq = 2
  MaxGeneration = 2
  MaxFaults = 2
PROPERTIES
  ResultIsFinal
  AnswersNeverRegress
  ExpiredIsFinalized
