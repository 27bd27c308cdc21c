\* Two requests, a shutdown and the drop of the inspector store.
SPECIFICATION FairSpec
CONSTANTS
  r1 = r1
  r2 = r2
  b1 = b1
  b2 = b2
  Requests = {r1, r2}
  Backends = {b1, b2}
  Candidates <- PairCandidates
  Configs <- PairConfigs
  UpstreamErrors = {"connect"}
  UpstreamStatuses = {200, 500}
  MaxFallback = 1
  ErrorBodyCap = 1
PROPERTIES
  ImplementsRequestRecord
  AdmittedIsAnswered
  ShutdownEndsRequests
