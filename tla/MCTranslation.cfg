SPECIFICATION Spec
CONSTANTS
  U32Max = 4
  Paths <- MCPaths
  Policies <- MCPolicies
  Requests <- MCRequests
  Exchanges <- MCExchanges
  ChunkSizes = {1, 2, 7}
INVARIANTS
  SplitsDoNotMatter
  UsageAsAsked
  UsageCounted
  ClientProtocol
  StreamAgreesWithBuffered
  ConversationKept
CHECK_DEADLOCK FALSE
