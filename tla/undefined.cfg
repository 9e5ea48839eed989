\* One fault, three bytes of requests, responses bypass the process.
CONSTANTS
  Connectors = {k1, k2, k3}
  Readers = {r1, r2, r3}
  Detectors = {t1, t2}
  ResponseBypass = TRUE
  MaxReq = 3
  MaxRes = 0
  MaxFaults = 1
  LocalBuf = 1
  Closings = {}
  Verdicts = {"pass"}

SPECIFICATION Spec
INVARIANTS
  NoUndefinedBehaviour
\* A session that nobody speaks to any more may stop.
CHECK_DEADLOCK FALSE
