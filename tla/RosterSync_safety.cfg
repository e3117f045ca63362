\* A node that is given one deployment; events of another one come along.
SPECIFICATION FairSpec
CONSTANTS
  Deployment = {1, 2}
  First = None
  Pushed = {1}
  Conflicting <- FirstConflicts
  Malformed = {}
  Listed <- OtherListed
  Page = 2
  None = None
  Last <- TwoAndOne
  MaxFaults = 2
INVARIANTS
  TypeOK
  PreflightPasses
  AppliedIsPresent
  OutcomeAgrees
PROPERTIES
  FencedRosterFrozen
  PendingIsDecided
  AppliedIsRestored
