\* No faults; the process inspects both directions and may give every answer.
CONSTANTS
  Connectors = {k1, k2}
  Readers = {r1, r2}
  Detectors = {t1, t2}
  ResponseBypass = FALSE
  MaxReq = 4
  MaxRes = 1
  MaxFaults = 0
  LocalBuf = 1
  Closings = {"fin"}
  Verdicts = {"pass", "partial", "block", "create"}

SPECIFICATION Spec
INVARIANTS
  TypeOK
  OnlyHandledForwarded
  OneWriterPerPeer
  BuffersOutliveWrites
  NoUndefinedBehaviour
