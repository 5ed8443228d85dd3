SPECIFICATION Spec
CONSTANTS
  Threads = {main, reader}
  Main = main
  Timers = {t1, t2}
  Delays <- MCDelays
  WakeDelay = 1
  MaxTime = 1
  MAX_FD_EVENTS = 2
  WakeFd = 3
  ListenFd = 5
  CmdFds <- MCLowFd
  PipeCap = 1
  MaxBacklog = 1
  MaxData = 1
  Faults <- MCFaults
  NULL = NULL
SYMMETRY TimerSymmetry
INVARIANTS
  TypeOK
  WatchConsistent
  NeverDeaf
  CallbackAsserts
  MutexNotLeaked
PROPERTIES
  TimersInOrder
CHECK_DEADLOCK FALSE
