SPECIFICATION Spec
CONSTANTS
  Types <- MCTypes
  MaxCmds = 3
  MaxOpens = 2
  MaxInter = 2
  MaxUnsol = 1
  Unsols <- MCUnsols
  Handshakes = 1
  HANDSHAKE_RETRY_COUNT = 2
  HANDSHAKE_TIMEOUT_MSEC = 250
  Usecs <- MCUsecs
  Hangups = TRUE
  Timeouts = FALSE
  NULL = NULL
INVARIANTS
  AnswerIsOwn
  AnswerIsWhole
  OneReader
CHECK_DEADLOCK FALSE
