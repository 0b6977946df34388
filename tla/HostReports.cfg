SPECIFICATION Spec
CONSTANTS
  Unreadable = Unreadable
  Unknown = Unknown
  NoReply = NoReply
  NoOwner = NoOwner
  Hosts <- SmallHosts
  VipRequests <- SmallVipRequests
  TangServers <- SmallTangServers
  DomainRequests <- SmallDomainRequests
  ApiRequests <- SmallApiRequests
  Cards <- SmallCards
  Bonds = {1}
  Boards <- SmallBoards
  Routes6 <- SmallRoutes
  NoMac = 0
  ByteBits = 2
  IpBytes = 3
  MinSubnetMaskSize = 5
  AddressLimit = 4
  FreeRequests <- SmallFreeRequests
  NtpSteps = {"s", "t"}
  NtpRequests <- SmallNtpRequests
  Resolves <- SmallResolves
  FioSteps = {"s", "t"}
  numOfFioJobs = 2
  FioLatencies = {0, 1, 2}
  FioRequests <- SmallFioRequests
CHECK_DEADLOCK FALSE
INVARIANT DiskIdsDiffer
INVARIANT EligibleIsUsable
INVARIANT EveryItemIsAnswered
INVARIANT IgnitionIsFiltered
 
INVARIANT EveryAddressIsAccounted
 
 
PROPERTY OrderDoesNotMatter
PROPERTY FreeScanEnds
PROPERTY WorstLatencyIsReported
PROPERTY DiskCheckEnds
