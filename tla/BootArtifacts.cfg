SPECIFICATION ReclaimFairSpec
CONSTANTS
  Runs = {r1, r2}
  r1 = r1
  r2 = r2
  Reboots = {q1, q2}
  q1 = q1
  q2 = q2
  MaxAttempts = 2
  MaxDeaths = 2
INVARIANT EntryNeverDangles
 
PROPERTY EverythingEnds
CHECK_DEADLOCK FALSE
