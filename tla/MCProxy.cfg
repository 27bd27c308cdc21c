\* One request under every configuration.
SPECIFICATION Spec
CONSTANTS
  r1 = r1
  r2 = r2
  b1 = b1
  b2 = b2
  Requests = {r1}
  Backends = {b1, b2}
  Candidates <- MCCandidates
  Configs <- MCConfigs
  UpstreamErrors <- ErrorKinds
  UpstreamStatuses = {200, 404, 429, 500}
  MaxFallback = 2
  ErrorBodyCap = 2
INVARIANTS
  TypeOK
  AttemptsFollowCandidates
  RecordListsEveryAttempt
  HealthJudgesEveryAttempt
  CapturesMatchAttempts
  CountedOnceAsAnswered
  ForwardedErrorsAreWhole
PROPERTIES
  NoRetryAfterHeaders
