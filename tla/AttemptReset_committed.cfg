\* Participants as the repository reads them, without a deployment.
SPECIFICATION FairSpec
CONSTANTS
  AttemptId = {a1}
  Deployment = {x}
  Command = {1}
  Fractional = {}
  RowDeployment = None
  EndsAt = 3
  Duration = 3
  Deadline = 2
  MaxPerPoll = 50
  None = None
  MaxTime = 2
  MaxFaults = 0
PROPERTIES
  PreviewShowsAttempt
