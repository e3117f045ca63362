\* Three commands on one attempt; deadlines pass, reports get lost, the worker restarts.
SPECIFICATION FairSpec
CONSTANTS
  AttemptId = {a1}
  Deployment = {x, y}
  Command = {1, 2, 3}
  Fractional = {2}
  RowDeployment = x
  EndsAt = 1
  Duration = 1
  Deadline = 1
  MaxPerPoll = 2
  None = None
  MaxTime = 1
  MaxFaults = 1
INVARIANTS
  TypeOK
  AppliedOnce
  OutcomeAgrees
PROPERTIES
  ReopensWhatWasSeen
  EveryCommandAnswered
