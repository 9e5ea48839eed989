\* Two packets of requests and one response, each larger than the socket.
CONSTANTS
  DownCap = 1
  GhostLens = {9}
  BlockSize = 6
  Reserve = 3
  HeadLen = 1
  UpCap = 2
  Lens = {2}
  MaxRequests = 2
  MaxResponses = 1
  Bypassing = {TRUE, FALSE}

SPECIFICATION FairSpec
INVARIANTS
  TypeOK
  PacketsFit
  HandledAsSent
  AcknowledgesOnlySent
  OneAfterEof
PROPERTIES
  ProcessEnds
  AllAcknowledged
