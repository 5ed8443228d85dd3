SPECIFICATION FairSpec
CONSTANTS
  Threads = {main}
  Main = main
  Timers = {t1, t2}
  Delays <- MCOneDelay
  WakeDelay = 1
  MaxTime = 1
  MAX_FD_EVENTS = 2
  WakeFd = 3
  ListenFd = 5
  CmdFds <- MCHighFd
  PipeCap = 1
  MaxBacklog = 1
  MaxData = 1
  Faults <- MCNoFaults
  NULL = NULL
PROPERTIES
  TimerFires
  ClientServed
