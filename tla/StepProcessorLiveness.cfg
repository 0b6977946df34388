SPECIFICATION FairSpec
CONSTANTS
  Steps = {s1, s2}
  StepTypes = {UpgradeAgent}
  UpgradeAgent = UpgradeAgent
  ImageAvailability = ImageAvailability
  Outputs = {o1}
  None = None
  MaxRetries = 1
  MaxTries = 1
  DryRuns = {FALSE}
CHECK_DEADLOCK FALSE
PROPERTY EveryStepEnds
PROPERTY UpgradeRestarts
