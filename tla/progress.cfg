\* One fault; a peer may close at any time; responses go through the process.
CONSTANTS
  Connectors = {k1, k2, k3}
  Readers = {r1, r2, r3}
  Detectors = {t1, t2}
  ResponseBypass = FALSE
  MaxReq = 0
  MaxRes = 2
  MaxFaults = 1
  LocalBuf = 1
  Closings = {"fin"}
  Verdicts = {"pass"}

SPECIFICATION FairSpec
PROPERTIES
  ClosedEnds
  BypassEnds
