SPECIFICATION ReclaimSpec
CONSTANTS
  Runs = {r1}
  r1 = r1
  Reboots = {q1}
  q1 = q1
  MaxAttempts = 2
  MaxDeaths = 2
INVARIANT DownloadErrorIsHandled
CHECK_DEADLOCK FALSE
