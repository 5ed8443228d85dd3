SPECIFICATION Spec
CONSTANTS
  Workers = {w1, w2}
  Infos = {p1, p2}
  Fds <- MCFds
  MaxConn = 2
  MaxRequests = 2
  MaxNitz = 0
  Blocks <- MCBlocks
  Vendor <- MCVendor
  Sizes <- MCSizes
  WriteFails = TRUE
  ReadFails = TRUE
  PeerEnds <- MCEnds
  NULL = NULL
SYMMETRY InfoWorkerSymmetry
INVARIANTS
  FramesNotMixed
  AtMostOnce
  CancelledNotReported
  CompletionOwns
  WriteMutexNotLeaked
CHECK_DEADLOCK FALSE
