\* The default, response bypass: a packet that goes out in two chunks, and one
\* notification.
CONSTANTS
  DownCap = 1
  GhostLens = {9}
  BlockSize = 6
  Reserve = 3
  HeadLen = 1
  UpCap = 2
  Lens = {2}
  MaxRequests = 1
  MaxResponses = 1
  Bypassing = {TRUE}

SPECIFICATION Spec
INVARIANTS
  AlwaysHandledAsSent
