SPECIFICATION Spec
CONSTANTS
  U32Max = 4
  Paths <- MCPaths
  Policies <- MCPolicies
  Requests <- MCRequests
  Exchanges <- MCExchanges
  ChunkSizes = {1, 2, 7}
INVARIANT
  UsageAsReported
CHECK_DEADLOCK FALSE
