SPECIFICATION FairSpec
CONSTANTS
  Asked <- SmallAsked
  Preloaded <- SmallStores
  Valid <- Validate
  Retries = 3
  LookTime = 1
  NoStep = NoStep
CHECK_DEADLOCK FALSE
INVARIANT ResponseIsTrue
INVARIANT PullsEndInTime
INVARIANT InstallerSeesArguments
 
PROPERTY InstallerStartsOnce
 
