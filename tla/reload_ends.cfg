\* One worker, one port, a file that changes once, one client; no port without
\* servers and none that is taken.
CONSTANTS
  Workers = {w1}
  Ports = {1}
  Serverless = {}
  Busy = {}
  MaxStamp = 1
  MaxClients = 1

SPECIFICATION Spec
INVARIANTS
  EndsOnlyOnSignal
