\* One fault, which may meet the second response; responses bypass the process.
CONSTANTS
  Connectors = {k1, k2, k3}
  Readers = {r1, r2, r3}
  Detectors = {t1, t2}
  ResponseBypass = TRUE
  MaxReq = 2
  MaxRes = 2
  MaxFaults = 1
  LocalBuf = 1
  Closings = {}
  Verdicts = {"pass"}

SPECIFICATION FairSpec
PROPERTIES
  ResponsesRelayed
\* A session that nobody speaks to any more may stop.
CHECK_DEADLOCK FALSE
