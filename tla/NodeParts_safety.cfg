\* Fence, login limit, integrity events, migrations, grading and enrolment, one per behaviour. Grading ends.
SPECIFICATION Spec
CONSTANTS
  Deployment = {d1, d2}
  NoDeployment = NoDeployment
  Client = {c1, c2}
  MaxTroubles = 2
  Key = {k1, k2, k3}
  Limit = 2
  Window = 2
  MaxKeys = 2
  MaxNow = 4
  Sender = {s1, s2}
  Kind = {blur, paste}
  Nobody = Nobody
  RateLimit = 2
  RateWindow = 6
  DedupWindow = 3
  MaxTicks = 9
  Runner = {node, loader}
  NoRunner = NoRunner
  Versions = 3
  Changes <- TwoTwoOne
  Refused <- LastRefused
  MaxCrashes = 2
  Text <- Texts
  Word <- TextWords
  Folded <- FoldedTexts
  Literal <- TwoLiterals
  Written <- WrittenLiterals
  Sprinted <- SprintedLiterals
  MaxList = 3
  MaxMixed = 2
  MaxPairs = 2
  Student = {p1, p2}
  StartRequest = {r1, r2}
  Limits = {1, 2}
INVARIANTS
  PartsTypeOK
  LimitIsExact
  EventsAreLimited
  ServesMigrated
  NeverClashes
  PointsAreEarned
  NoSittingTwice
PROPERTIES
  AckedIsClosed
  FenceIsAcknowledged
CHECK_DEADLOCK FALSE
