SPECIFICATION Spec
CONSTANTS
  Steps = {s1, s2, s3}
  StepTypes = {inventory}
  UpgradeAgent = UpgradeAgent
  ImageAvailability = ImageAvailability
  Outputs = {o1, o2}
  None = None
  MaxRetries = 0
  MaxTries = 0
  DryRuns = {FALSE}
SYMMETRY StepSymmetry
CHECK_DEADLOCK FALSE
PROPERTY AlreadyExists
