\* No faults; both directions go through the process.
CONSTANTS
  Connectors = {k1, k2}
  Readers = {r1, r2}
  Detectors = {t1, t2}
  ResponseBypass = FALSE
  MaxReq = 2
  MaxRes = 2
  MaxFaults = 0
  LocalBuf = 1
  Closings = {"fin"}
  Verdicts = {"pass"}

SPECIFICATION FairSpec
PROPERTIES
  RequestsRelayed
  ResponsesRelayed
