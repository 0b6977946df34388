SPECIFICATION AgentFairSpec
CONSTANTS
  Steps = {s1, s2}
  StepTypes = {UpgradeAgent}
  UpgradeAgent = UpgradeAgent
  ImageAvailability = ImageAvailability
  Outputs = {o1}
  None = None
  MaxRetries = 0
  MaxTries = 0
  DryRuns = {FALSE}
PROPERTY StepsDieWithRunner
PROPERTY RepliesAsPromised
PROPERTY UpgradeReregisters
