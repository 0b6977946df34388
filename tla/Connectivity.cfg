SPECIFICATION RunFairSpec
CONSTANTS
  V4 = {1, 2}
  V6 = {3}
  Macs = {1, 2}
  NoReporter <- NilReporter
  Pending = Pending
  NoReply = NoReply
  Requests <- SmallUnfoldings
  Check <- CheckJob
  Summary <- HostReport
  MayPanic <- MayFailAssertion
  ChannelCap = 1
CHECK_DEADLOCK FALSE
INVARIANT NoSendAfterClose
 
PROPERTY ReportsEveryCheck
PROPERTY RunEnds
