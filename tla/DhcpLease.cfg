SPECIFICATION FairSpec
CONSTANTS
  Steps = {s1, s2}
  s1 = s1
  s2 = s2
  m1 = m1
  m2 = m2
  m3 = m3
  Macs = {m1, m2, m3}
  Addresses = {a1, a2}
  a1 = a1
  a2 = a2
  Asked <- SmallAsked
  MaxCrashes = 1
  None = None
INVARIANT NoEmptyVip
INVARIANT VipIsForMac
INVARIANT LinksAreDeleted
PROPERTY StepEnds
CHECK_DEADLOCK FALSE
