\* One fault and broken connections; responses bypass the process.
CONSTANTS
  Connectors = {k1, k2, k3}
  Readers = {r1, r2, r3}
  Detectors = {t1, t2}
  ResponseBypass = TRUE
  MaxReq = 2
  MaxRes = 1
  MaxFaults = 1
  LocalBuf = 1
  Closings = {"rst"}
  Verdicts = {"pass"}

SPECIFICATION Spec
INVARIANTS
  OneConnecting
  OneDetector
PROPERTIES
  NothingReopens
