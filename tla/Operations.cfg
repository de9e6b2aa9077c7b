SPECIFICATION Spec
CONSTANTS
  Letters <- MCLetters
  Workspace <- MCWorkspace
  Peer <- MCPeer
  Session <- MCSession
  Values <- MCValues
  MaxSet = 3
  NaN = NaN
INVARIANTS TypeOK RefusedIsSilent ReachesItsEndpoint ArgumentsReach ScopeKept AgreesWithSchema
