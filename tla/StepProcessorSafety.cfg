SPECIFICATION Spec
CONSTANTS
  Steps = {s1, s2}
  StepTypes = {UpgradeAgent, ImageAvailability, inventory}
  UpgradeAgent = UpgradeAgent
  ImageAvailability = ImageAvailability
  Outputs = {o1, o2}
  None = None
  MaxRetries = 1
  MaxTries = 1
  DryRuns = {TRUE, FALSE}
SYMMETRY StepSymmetry
CHECK_DEADLOCK FALSE
INVARIANT SuppressedIsKnown
INVARIANT SemaphoreNotLeaked
INVARIANT CancelledAfterReply
