\* Two workers, two ports, a file that changes twice, one client.
CONSTANTS
  Workers = {w1, w2}
  Ports = {1, 2}
  Serverless = {2}
  Busy = {2}
  MaxStamp = 2
  MaxClients = 1

SPECIFICATION FairSpec
INVARIANTS
  TypeOK
  AcceptorsFollow
  FaultsOnlyOnRemoval
PROPERTIES
  Reloads
  Ends
