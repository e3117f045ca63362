\* One student, two devices, two handlers racing; more attempt ids than max_attempts allows; answers left to the writes run.
SPECIFICATION Spec
CONSTANTS
  Participant = {p1}
  AttemptId = {a1, a2, a3}
  Device = {d1, d2}
  Item = {}
  Request = {r1, r2}
  Sweeper = {s1}
  None = None
  StartsAt = 0
  EndsAt = 2
  Duration = 1
  MaxAttempts = 2
  MaxTime = 3
  MaxSeq = 1
  MaxGeneration = 1
  MaxFaults = 1
SYMMETRY Symmetry
INVARIANTS
  TypeOK
  ActiveIsLatest
  OneDevicePerAttempt
  AutoSubmitOnlyExpired
  AttemptsAccounted
PROPERTIES
  ImplementsSittings
