SPECIFICATION FairSpec
CONSTANTS
  Workers = {w1}
  Infos = {p1, p2}
  Fds <- MCOneFd
  MaxConn = 2
  MaxRequests = 2
  MaxNitz = 1
  Blocks <- MCValid
  Vendor <- MCCompletes
  Sizes <- MCFits
  WriteFails = FALSE
  ReadFails = FALSE
  PeerEnds <- MCClosed
  NULL = NULL
INVARIANTS
  AtMostOnce
PROPERTIES
  RequestAnswered
CHECK_DEADLOCK FALSE
