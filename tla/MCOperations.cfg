CONSTANTS
  Files <- MCFiles
  KnownMarkers = {"chat", "responses"}
  MaxAttempts = 2
  Limits <- MCLimits
  Backends = {"b1", "b2"}
  UnhealthyThreshold = 3
  FailureWindow = 1
  ContextSize <- MCContextSize
  Streams = {s1, s2, s3}
SPECIFICATION Spec
INVARIANT HealthFromHistory
PROPERTIES Settles ServerStops
CHECK_DEADLOCK FALSE
