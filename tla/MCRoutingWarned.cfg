SPECIFICATION Spec
CONSTANTS
  BackendIds = {"b1", "b2", "b3"}
  Models = {"m1", "m2", "m3"}
  OtherPaths <- MCOtherPaths
  PathCandidates <- MCPathCandidates
  RequiresModel <- MCRequiresModel
  Requests <- MCRequests
  Configs <- MCConfigs
  Reloads <- MCReloads
  CounterModulus = 5
INVARIANT WarnedNeverSelected
