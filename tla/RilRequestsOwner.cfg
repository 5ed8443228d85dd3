SPECIFICATION Spec
CONSTANTS
  Workers = {w1, w2}
  Infos = {p1, p2}
  Fds <- MCFds
  MaxConn = 2
  MaxRequests = 1
  MaxNitz = 0
  Blocks <- MCValid
  Vendor <- MCWorker
  Sizes <- MCFits
  WriteFails = FALSE
  ReadFails = FALSE
  PeerEnds <- MCShut
  NULL = NULL
SYMMETRY InfoWorkerSymmetry
INVARIANTS
  ResponsesToOwner
CHECK_DEADLOCK FALSE
