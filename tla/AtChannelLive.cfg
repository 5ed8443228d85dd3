SPECIFICATION FairSpec
CONSTANTS
  Types <- MCLiveTypes
  MaxCmds = 2
  MaxOpens = 2
  MaxInter = 1
  MaxUnsol = 1
  Unsols <- MCUnsols
  Handshakes = 1
  HANDSHAKE_RETRY_COUNT = 2
  HANDSHAKE_TIMEOUT_MSEC = 250
  Usecs <- MCAnyUsecs
  Hangups = TRUE
  Timeouts = TRUE
  NULL = NULL
INVARIANTS
  NoCommandPending
PROPERTIES
  CommandEnds
CHECK_DEADLOCK FALSE
