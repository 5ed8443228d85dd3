SPECIFICATION Spec
CONSTANTS
  maxNumberActiveCalls = 3
  maxConnectionsPerCall = 2
  Scenarios <- MCScenarios
  MaxRequests = 4
  MaxCommands = 2
INVARIANTS
  CallsCounted
  ToldAsDecided
PROPERTIES
  RequestsAnsweredOnce
  IncomingCallRings
CHECK_DEADLOCK FALSE
