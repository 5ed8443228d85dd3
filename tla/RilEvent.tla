------------------------------ MODULE RilEvent ------------------------------
(***************************************************************************)
(* The event loop of libril (libril/ril_event.cpp) with the three file     *)
(* descriptor events and the timers that libril/ril.cpp hangs on it.       *)
(*                                                                         *)
(* One dispatch thread runs ril_event_loop and every callback.  Other      *)
(* threads (the main thread in RIL_register, the AT reader thread, vendor  *)
(* threads) add the listen event and timers and wake the loop through a    *)
(* pipe.  listMutex covers the watch table and the timer list, but the     *)
(* loop copies readFds, reads nfds and peeks at the timer list without it, *)
(* so those reads are steps of their own.                                  *)
(*                                                                         *)
(* The kernel (pipe, sockets, select, the monotonic clock) is modelled     *)
(* from how the code uses it.                                              *)
(***************************************************************************)
EXTENDS Integers, Sequences, FiniteSets, SequencesExt

CONSTANTS
  Threads,        \* threads other than the dispatch thread
  Main,           \* the one of them that calls RIL_register
  Timers,         \* heap blocks for UserCallbackInfo (bounds live timers)
  Delays,         \* relative times callers ask for
  WakeDelay,      \* TIMEVAL_WAKE_TIMEOUT
  MaxTime,        \* bound: no timer is requested from this time on
  MAX_FD_EVENTS,  \* size of the watch table
  WakeFd,         \* read end of the wakeup pipe
  ListenFd,       \* the listening socket
  CmdFds,         \* numbers accept() may return
  PipeCap,        \* bytes the wakeup pipe holds
  MaxBacklog,     \* bound: clients waiting in the listen backlog
  MaxData,        \* bound: unread records of the connected client
  Faults,         \* which system calls may fail: "pipe", "accept", "read", "write", "eintr"
  NULL

FdEvents == {"wakeup", "listen", "commands"}
Slots == 0 .. MAX_FD_EVENTS - 1
Dispatch == "dispatch"
Free == "free"
Forever == -1

ASSUME ThreadsAssumption ==
  /\ Main \in Threads
  /\ Dispatch \notin Threads /\ Free \notin Threads
ASSUME EventsAssumption ==
  /\ MAX_FD_EVENTS \in Nat /\ MAX_FD_EVENTS >= 2
  /\ NULL \notin FdEvents /\ NULL \notin Timers
  /\ FdEvents \cap Timers = {}
ASSUME FdAssumption ==
  /\ WakeFd \in Nat /\ ListenFd \in Nat /\ CmdFds \subseteq Nat
  /\ WakeFd # ListenFd /\ WakeFd \notin CmdFds /\ ListenFd \notin CmdFds
ASSUME TimeAssumption ==
  /\ MaxTime \in Nat /\ Delays \subseteq Nat /\ WakeDelay \in Nat
ASSUME BoundAssumption ==
  /\ PipeCap \in Nat \ {0} /\ MaxBacklog \in Nat \ {0} /\ MaxData \in Nat

VARIABLES
  now,            \* CLOCK_MONOTONIC
  listMutex,      \* its holder, or Free
  watch_table,    \* slot -> event or NULL
  index,          \* event -> slot, -1 when not watched
  evfd,           \* event -> its fd
  readFds, nfds,
  timer_list,     \* the timer list after its head node
  timeout,        \* timer -> absolute time
  pending_list,   \* events and expired timers about to fire
  live,           \* UserCallbackInfo blocks allocated and not yet freed
  dpc,            \* control point of the dispatch thread
  rfds,           \* ril_event_loop's local fd set
  tv,             \* the timeout passed to select: relative, then absolute
  cur,            \* the timer whose callback is running
  lastFired,      \* history: timeout of the latest timer called back
  tpc,            \* control point of each other thread
  targ,           \* the timer and delay a thread passes to ril_timer_add
  tfd,            \* the descriptor a thread read from s_fdCommand
  s_started,
  pipe,           \* bytes in the wakeup pipe, -1 before pipe()
  s_fdCommand,
  openFds,        \* command socket numbers open in this process
  backlog,        \* clients waiting to be accepted
  data, eof       \* what the connected client has sent and not been read

listVars == <<listMutex, watch_table, index, evfd, readFds, nfds>>
timerVars == <<timer_list, timeout, live>>
loopVars == <<pending_list, rfds, tv, cur, lastFired>>
callerVars == <<tpc, targ, tfd>>
sockVars == <<s_fdCommand, openFds, backlog, data, eof>>
vars == <<now, listVars, timerVars, loopVars, dpc, callerVars, s_started,
          pipe, sockVars>>

Init ==
  /\ now = 0
  /\ listMutex = Free
  /\ watch_table = [i \in Slots |-> NULL]
  /\ index = [e \in FdEvents |-> -1]
  /\ evfd = [e \in FdEvents |-> -1]
  /\ readFds = {} /\ nfds = 0
  /\ timer_list = <<>> /\ timeout = [p \in Timers |-> 0] /\ live = {}
  /\ pending_list = <<>>
  /\ dpc = "start" /\ rfds = {} /\ tv = Forever /\ cur = NULL /\ lastFired = 0
  /\ tpc = [t \in Threads |-> "idle"]
  /\ targ = [t \in Threads |-> NULL] /\ tfd = [t \in Threads |-> -1]
  /\ s_started = FALSE /\ pipe = -1
  /\ s_fdCommand = -1 /\ openFds = {} /\ backlog = 0 /\ data = 0 /\ eof = FALSE

-----------------------------------------------------------------------------
(* The operations of ril_event.cpp on the shared lists.                    *)

\* ril_event_add takes the lowest free slot; when there is none it returns
\* without a word.
FreeSlots == {i \in Slots : watch_table[i] = NULL}

\* The watch half of ril_event_add, up to FD_SET.
addWatch(e) ==
  \/ /\ FreeSlots = {}
     /\ UNCHANGED <<watch_table, index, readFds>>
  \/ \E i \in FreeSlots :
       /\ \A j \in FreeSlots : i <= j
       /\ watch_table' = [watch_table EXCEPT ![i] = e]
       /\ index' = [index EXCEPT ![e] = i]
       /\ readFds' = readFds \cup {evfd[e]}

grownNfds(fd) == IF fd >= nfds THEN fd + 1 ELSE nfds

\* ril_event_add on the dispatch thread, the only unlocked reader of readFds
\* and nfds: nobody can see between its assignments.
ril_event_add(e) ==
  /\ listMutex = Free
  /\ addWatch(e)
  /\ nfds' = IF FreeSlots = {} THEN nfds ELSE grownNfds(evfd[e])
  /\ UNCHANGED <<listMutex, evfd>>

\* fds of the events left in the table once slot i is cleared.
restFds(i) == {evfd[watch_table[j]] : j \in {k \in Slots \ {i} : watch_table[k] # NULL}}

\* Mutant: any descriptor left in the table will do, not the highest.
isShrunkNfds_any(n, e, i) ==
  IF evfd[e] + 1 = nfds THEN n - 1 \in restFds(i) \cup {0} ELSE n = nfds

\* removeWatch looks for the highest descriptor left only when the event it
\* removes had the highest; n is what it leaves in nfds.
isShrunkNfds(n, e, i) ==
  IF evfd[e] + 1 = nfds
    THEN n - 1 \in restFds(i) \cup {0} /\ \A m \in restFds(i) : m <= n - 1
    ELSE n = nfds

removeWatch(e, i) ==
  /\ watch_table' = [watch_table EXCEPT ![i] = NULL]
  /\ index' = [index EXCEPT ![e] = -1]
  /\ readFds' = readFds \ {evfd[e]}
  /\ \E n \in {nfds, 1} \cup {m + 1 : m \in restFds(i)} :
       isShrunkNfds(n, e, i) /\ nfds' = n

\* ril_event_del returns without releasing the mutex when the event is not
\* in the table.
ril_event_del(e) ==
  /\ listMutex = Free
  /\ IF index[e] < 0
       THEN /\ listMutex' = Dispatch
            /\ UNCHANGED <<watch_table, index, readFds, nfds>>
       ELSE /\ removeWatch(e, index[e])
            /\ UNCHANGED listMutex
  /\ UNCHANGED evfd

\* Mutant: new timers go to the end of the list.
isInsertionPoint_tail(i, at) == i = Len(timer_list) + 1

\* ril_timer_add puts a timer before the first one that is not strictly
\* earlier.
isInsertionPoint(i, at) ==
  /\ \A j \in 1 .. i - 1 : timeout[timer_list[j]] < at
  /\ i <= Len(timer_list) => timeout[timer_list[i]] >= at

ril_timer_add(p, d) ==
  /\ listMutex = Free
  /\ timeout' = [timeout EXCEPT ![p] = now + d]
  /\ \E i \in 1 .. Len(timer_list) + 1 :
       /\ isInsertionPoint(i, now + d)
       /\ timer_list' = InsertAt(timer_list, i, p)

Expired(p) == now > timeout[p]

\* Bound: a timer is requested only before MaxTime and while the model has a
\* block for it.
Room == now < MaxTime /\ Timers \ live # {}

-----------------------------------------------------------------------------
(* The dispatch thread: eventLoop and ril_event_loop.                      *)

eventLoopStart ==
  /\ dpc = "start"
  /\ s_started' = TRUE
  /\ dpc' = "pipe"
  /\ UNCHANGED <<now, listVars, timerVars, loopVars, callerVars, pipe, sockVars>>

\* pipe() comes after s_started is announced: callers may already run.
eventLoopPipe ==
  /\ dpc = "pipe"
  /\ \/ /\ pipe' = 0
        /\ evfd' = [evfd EXCEPT !["wakeup"] = WakeFd]
        /\ dpc' = "addWakeup"
     \/ /\ "pipe" \in Faults
        /\ dpc' = "dead"
        /\ UNCHANGED <<pipe, evfd>>
  /\ UNCHANGED <<now, listMutex, watch_table, index, readFds, nfds, timerVars,
                 loopVars, callerVars, s_started, sockVars>>

eventLoopAddWakeup ==
  /\ dpc = "addWakeup"
  /\ ril_event_add("wakeup")
  /\ dpc' = "copy"
  /\ UNCHANGED <<now, timerVars, loopVars, callerVars, s_started, pipe, sockVars>>

copyReadFds ==
  /\ dpc = "copy"
  /\ rfds' = readFds
  /\ dpc' = "calc"
  /\ UNCHANGED <<now, listVars, timerVars, pending_list, tv, cur, lastFired,
                 callerVars, s_started, pipe, sockVars>>

calcNextTimeout ==
  /\ dpc = "calc"
  /\ tv' = IF timer_list = <<>> THEN Forever
           ELSE LET first == timeout[Head(timer_list)]
                IN IF first > now THEN first - now ELSE 0
  /\ dpc' = "enter"
  /\ UNCHANGED <<now, listVars, timerVars, pending_list, rfds, cur, lastFired,
                 callerVars, s_started, pipe, sockVars>>

\* select looks at the descriptors below nfds.  A closed one is EBADF, and
\* then ril_event_loop returns.  Once inside, select keeps the files it
\* polls alive even if another thread closes their numbers.
IsOpen(fd) == fd \in CmdFds => fd \in openFds

selectEnter ==
  /\ dpc = "enter"
  /\ rfds' = {fd \in rfds : fd < nfds}
  /\ IF \A fd \in rfds' : IsOpen(fd)
       THEN /\ dpc' = "select"
            /\ tv' = IF tv = Forever THEN Forever ELSE now + tv
       ELSE dpc' = "dead" /\ tv' = Forever
  /\ UNCHANGED <<now, listVars, timerVars, pending_list, cur, lastFired,
                 callerVars, s_started, pipe, sockVars>>

Readable(fd) ==
  \/ fd = WakeFd /\ pipe > 0
  \/ fd = ListenFd /\ backlog > 0
  \/ fd \in CmdFds /\ (data > 0 \/ eof)

selectReturn ==
  /\ dpc = "select"
  /\ rfds' = {fd \in rfds : Readable(fd)}
  /\ rfds' # {} \/ (tv # Forever /\ now >= tv)
  /\ tv' = Forever
  /\ dpc' = "timeouts"
  /\ UNCHANGED <<now, listVars, timerVars, pending_list, cur, lastFired,
                 callerVars, s_started, pipe, sockVars>>

selectEintr ==
  /\ dpc = "select"
  /\ "eintr" \in Faults
  /\ rfds' = {} /\ tv' = Forever
  /\ dpc' = "copy"
  /\ UNCHANGED <<now, listVars, timerVars, pending_list, cur, lastFired,
                 callerVars, s_started, pipe, sockVars>>

\* From the front of the list, up to the first timer that has not expired.
processTimeouts ==
  /\ dpc = "timeouts"
  /\ listMutex = Free
  /\ \E n \in 0 .. Len(timer_list) :
       /\ \A i \in 1 .. n : Expired(timer_list[i])
       /\ n < Len(timer_list) => ~ Expired(timer_list[n + 1])
       /\ pending_list' = pending_list \o SubSeq(timer_list, 1, n)
       /\ timer_list' = SubSeq(timer_list, n + 1, Len(timer_list))
  /\ dpc' = "readies"
  /\ UNCHANGED <<now, listVars, timeout, live, rfds, tv, cur, lastFired,
                 callerVars, s_started, pipe, sockVars>>

ReadySlots == {i \in Slots : watch_table[i] # NULL /\ evfd[watch_table[i]] \in rfds}

\* Mutants: every event stays in the table, no event does.
persist_all(e) == TRUE
persist_none(e) == FALSE

persist(e) == e # "listen"

\* The walk over the table, by rising slot, queues every event whose fd is
\* ready and unhooks the one that is not persistent, the listen event.
processReadReadies ==
  /\ dpc = "readies"
  /\ listMutex = Free
  /\ \E walk \in [1 .. Cardinality(ReadySlots) -> ReadySlots] :
       /\ \A k, m \in DOMAIN walk : k < m => walk[k] < walk[m]
       /\ \A i \in ReadySlots : \E k \in DOMAIN walk : walk[k] = i
       /\ pending_list' = pending_list \o [k \in DOMAIN walk |-> watch_table[walk[k]]]
  /\ LET gone == {i \in ReadySlots : ~ persist(watch_table[i])}
     IN IF gone = {}
          THEN UNCHANGED <<watch_table, index, readFds, nfds>>
          ELSE \E i \in gone : removeWatch(watch_table[i], i)
  /\ rfds' = {}
  /\ dpc' = "fire"
  /\ UNCHANGED <<now, listMutex, evfd, timerVars, tv, cur, lastFired,
                 callerVars, s_started, pipe, sockVars>>

\* firePending unlinks an event before it calls it.
firePending ==
  /\ dpc = "fire"
  /\ IF pending_list = <<>>
       THEN dpc' = "copy" /\ UNCHANGED <<pending_list, cur, lastFired>>
       ELSE LET e == Head(pending_list) IN
            /\ pending_list' = Tail(pending_list)
            /\ IF e \in Timers
                 THEN dpc' = "timer" /\ cur' = e /\ lastFired' = timeout[e]
                 ELSE dpc' = e /\ UNCHANGED <<cur, lastFired>>
  /\ UNCHANGED <<now, listVars, timerVars, rfds, tv, callerVars, s_started,
                 pipe, sockVars>>

-----------------------------------------------------------------------------
(* The callbacks, on the dispatch thread.                                  *)

processWakeupCallback ==
  /\ dpc = "wakeup"
  /\ pipe' = 0
  /\ dpc' = "fire"
  /\ UNCHANGED <<now, listVars, timerVars, loopVars, callerVars, s_started,
                 sockVars>>

\* A timer requested by code that runs on the dispatch thread: no wakeup.
DispatchTimer(d) ==
  /\ Room
  /\ \E p \in Timers \ live : ril_timer_add(p, d) /\ live' = live \cup {p}
  /\ UNCHANGED <<listVars, pipe>>

\* userTimerCallback runs the user's callback, which may request a timer...
userTimerCallback ==
  /\ dpc = "timer"
  /\ \/ UNCHANGED <<listVars, timerVars, pipe>>
     \/ \E d \in Delays : DispatchTimer(d)
  /\ dpc' = "free"
  /\ UNCHANGED <<now, loopVars, callerVars, s_started, sockVars>>

\* ...and then frees the block, whose contents mean nothing from here on.
userTimerFree ==
  /\ dpc = "free"
  /\ live' = live \ {cur}
  /\ timeout' = [timeout EXCEPT ![cur] = 0]
  /\ cur' = NULL
  /\ dpc' = "fire"
  /\ UNCHANGED <<now, listVars, timer_list, pending_list, rfds, tv,
                 lastFired, callerVars, s_started, pipe, sockVars>>

\* Mutant: the callback goes on after accept has failed.
acceptFailed_unchecked ==
  /\ evfd' = [evfd EXCEPT !["commands"] = -1]
  /\ index' = [index EXCEPT !["commands"] = -1]
  /\ dpc' = "addCommands"
  /\ UNCHANGED sockVars

\* accept has failed: the listen event is added again.
acceptFailed == dpc' = "rearm" /\ UNCHANGED <<sockVars, evfd, index>>

\* accept; ril_event_set clears the commands event, whatever it was.
listenCallback ==
  /\ dpc = "listen"
  /\ \/ /\ backlog > 0
        /\ backlog' = backlog - 1
        /\ \E fd \in CmdFds \ openFds :
             /\ s_fdCommand' = fd
             /\ openFds' = openFds \cup {fd}
             /\ evfd' = [evfd EXCEPT !["commands"] = fd]
        /\ index' = [index EXCEPT !["commands"] = -1]
        /\ data' = 0 /\ eof' = FALSE
        /\ dpc' = "addCommands"
     \/ "accept" \in Faults /\ acceptFailed
  /\ UNCHANGED <<now, listMutex, watch_table, readFds, nfds, timerVars,
                 loopVars, callerVars, s_started, pipe>>

listenAddCommands ==
  /\ dpc = "addCommands"
  /\ ril_event_add("commands")
  /\ dpc' = "connected"
  /\ UNCHANGED <<now, timerVars, loopVars, callerVars, s_started, pipe, sockVars>>

\* onNewCommandConnect reports the radio state, an unsolicited response of
\* type WAKE_PARTIAL: it leaves a wake timeout behind.
onNewCommandConnect ==
  /\ dpc = "connected"
  /\ IF Room THEN DispatchTimer(WakeDelay)
     ELSE UNCHANGED <<listVars, timerVars, pipe>>
  /\ dpc' = "fire"
  /\ UNCHANGED <<now, loopVars, callerVars, s_started, sockVars>>

\* One round of the loop of processCommandsCallback: a record goes to
\* processCommandBuffer, whose request handler may ask for a timer; with
\* nothing to read the callback returns; end of stream, reading a number that
\* a failed write has closed, or any other fatal error of the read (a record
\* longer than the buffer is one) closes the connection, whatever is unread.
processCommandsRecord ==
  /\ dpc = "commands"
  /\ s_fdCommand \in openFds
  /\ data > 0
  /\ data' = data - 1
  /\ \/ UNCHANGED <<listVars, timerVars, pipe>>
     \/ \E d \in Delays : DispatchTimer(d)
  /\ UNCHANGED <<now, loopVars, dpc, callerVars, s_started, s_fdCommand,
                 openFds, backlog, eof>>

processCommandsEagain ==
  /\ dpc = "commands"
  /\ s_fdCommand \in openFds
  /\ data = 0 /\ ~ eof
  /\ dpc' = "fire"
  /\ UNCHANGED <<now, listVars, timerVars, loopVars, callerVars, s_started,
                 pipe, sockVars>>

processCommandsClose ==
  /\ dpc = "commands"
  /\ s_fdCommand \notin openFds \/ (data = 0 /\ eof) \/ "read" \in Faults
  /\ openFds' = openFds \ {s_fdCommand}
  /\ s_fdCommand' = -1
  /\ data' = 0 /\ eof' = FALSE
  /\ dpc' = "del"
  /\ UNCHANGED <<now, listVars, timerVars, loopVars, callerVars, s_started,
                 pipe, backlog>>

processCommandsDel ==
  /\ dpc = "del"
  /\ ril_event_del("commands")
  /\ dpc' = "rearm"
  /\ UNCHANGED <<now, timerVars, loopVars, callerVars, s_started, pipe, sockVars>>

\* Mutant: the listen event is not added back.
rearmListen_forgotten ==
  /\ dpc = "rearm"
  /\ dpc' = "fire"
  /\ UNCHANGED <<now, listVars, timerVars, loopVars, callerVars, s_started, pipe,
                 sockVars>>

\* rilEventAddWakeup(&s_listen_event), after a close and after a failed accept.
rearmListen ==
  /\ dpc = "rearm"
  /\ ril_event_add("listen")
  /\ dpc' = "fire"
  /\ UNCHANGED <<now, timerVars, loopVars, callerVars, s_started, pipe, sockVars>>

-----------------------------------------------------------------------------
(* The other threads.                                                      *)

\* internalRequestTimedCallback: allocate, ril_timer_add, triggerEvLoop.
requestTimedCallback(t) ==
  /\ tpc[t] = "idle" /\ s_started
  /\ Room
  /\ \E d \in Delays, p \in Timers \ live :
       /\ live' = live \cup {p}
       /\ targ' = [targ EXCEPT ![t] = <<p, d>>]
  /\ tpc' = [tpc EXCEPT ![t] = "timer_add"]
  /\ UNCHANGED <<now, listVars, timer_list, timeout, loopVars, dpc, tfd, s_started,
                 pipe, sockVars>>

timerAdd(t) ==
  /\ tpc[t] = "timer_add"
  /\ ril_timer_add(targ[t][1], targ[t][2])
  /\ tpc' = [tpc EXCEPT ![t] = "trigger"]
  /\ targ' = [targ EXCEPT ![t] = NULL]
  /\ UNCHANGED <<now, listVars, live, loopVars, dpc, tfd, s_started, pipe, sockVars>>

\* Mutant: no byte is written.
pipeWritten_none == pipe

\* The write blocks while the pipe is full.  Before pipe() has run
\* s_fdWakeupWrite is 0 and the byte goes to standard input.
pipeRoom == pipe < PipeCap
pipeWritten == IF pipe < 0 THEN pipe ELSE pipe + 1

triggerEvLoop(t) ==
  /\ tpc[t] = "trigger"
  /\ pipeRoom
  /\ pipe' = pipeWritten
  /\ tpc' = [tpc EXCEPT ![t] = "idle"]
  /\ UNCHANGED <<now, listVars, timerVars, loopVars, dpc, targ, tfd, s_started,
                 sockVars>>

\* RIL_register, called once: the listen event is set and added.
registerListen ==
  /\ tpc[Main] = "idle" /\ s_started
  /\ evfd["listen"] < 0
  /\ evfd' = [evfd EXCEPT !["listen"] = ListenFd]
  /\ tpc' = [tpc EXCEPT ![Main] = "event_add"]
  /\ UNCHANGED <<now, listMutex, watch_table, index, readFds, nfds, timerVars,
                 loopVars, dpc, targ, tfd, s_started, pipe, sockVars>>

\* ril_event_add off the dispatch thread: the loop may copy readFds and read
\* nfds between the two assignments.
registerFdSet ==
  /\ tpc[Main] = "event_add"
  /\ listMutex = Free
  /\ listMutex' = Main
  /\ addWatch("listen")
  /\ tpc' = [tpc EXCEPT ![Main] = "event_nfds"]
  /\ UNCHANGED <<now, evfd, nfds, timerVars, loopVars, dpc, targ, tfd, s_started,
                 pipe, sockVars>>

\* Mutant: ril_event_add without the wakeup.
registerNfds_quiet ==
  /\ tpc[Main] = "event_nfds"
  /\ nfds' = IF index["listen"] < 0 THEN nfds ELSE grownNfds(ListenFd)
  /\ listMutex' = Free
  /\ tpc' = [tpc EXCEPT ![Main] = "idle"]
  /\ UNCHANGED <<now, watch_table, index, evfd, readFds, timerVars, loopVars,
                 dpc, targ, tfd, s_started, pipe, sockVars>>

registerNfds ==
  /\ tpc[Main] = "event_nfds"
  /\ nfds' = IF index["listen"] < 0 THEN nfds ELSE grownNfds(ListenFd)
  /\ listMutex' = Free
  /\ tpc' = [tpc EXCEPT ![Main] = "trigger"]
  /\ UNCHANGED <<now, watch_table, index, evfd, readFds, timerVars, loopVars,
                 dpc, targ, tfd, s_started, pipe, sockVars>>

\* sendResponseRaw on a thread: it reads s_fdCommand, and later the write
\* fails (the client does not drain its socket: EAGAIN) and blockingWrite
\* closes the number it read.
sendResponseFd(t) ==
  /\ "write" \in Faults
  /\ tpc[t] = "idle" /\ s_fdCommand >= 0
  /\ tfd' = [tfd EXCEPT ![t] = s_fdCommand]
  /\ tpc' = [tpc EXCEPT ![t] = "write"]
  /\ UNCHANGED <<now, listVars, timerVars, loopVars, dpc, targ, s_started, pipe, sockVars>>

blockingWriteFails(t) ==
  /\ tpc[t] = "write"
  /\ openFds' = openFds \ {tfd[t]}
  /\ tfd' = [tfd EXCEPT ![t] = -1]
  /\ tpc' = [tpc EXCEPT ![t] = "idle"]
  /\ UNCHANGED <<now, listVars, timerVars, loopVars, dpc, targ, s_started, pipe,
                 s_fdCommand, backlog, data, eof>>

-----------------------------------------------------------------------------
(* Clients and the clock.                                                  *)

clientConnect ==
  /\ evfd["listen"] >= 0
  /\ backlog < MaxBacklog
  /\ backlog' = backlog + 1
  /\ UNCHANGED <<now, listVars, timerVars, loopVars, dpc, callerVars, s_started,
                 pipe, s_fdCommand, openFds, data, eof>>

clientSend ==
  /\ s_fdCommand >= 0 /\ ~ eof
  /\ data < MaxData
  /\ data' = data + 1
  /\ UNCHANGED <<now, listVars, timerVars, loopVars, dpc, callerVars, s_started,
                 pipe, s_fdCommand, openFds, backlog, eof>>

clientClose ==
  /\ s_fdCommand >= 0 /\ ~ eof
  /\ eof' = TRUE
  /\ UNCHANGED <<now, listVars, timerVars, loopVars, dpc, callerVars, s_started,
                 pipe, s_fdCommand, openFds, backlog, data>>

\* Bound: past MaxTime the clock only runs for the timers still to expire
\* and for a select that is waiting.
Tick ==
  /\ \/ now < MaxTime
     \/ \E i \in 1 .. Len(timer_list) : ~ Expired(timer_list[i])
     \/ dpc = "select" /\ tv > now
  /\ now' = now + 1
  /\ UNCHANGED <<listVars, timerVars, loopVars, dpc, callerVars, s_started,
                 pipe, sockVars>>

-----------------------------------------------------------------------------
eventLoop ==
  \/ eventLoopStart \/ eventLoopPipe \/ eventLoopAddWakeup
  \/ copyReadFds \/ calcNextTimeout \/ selectEnter \/ selectReturn
  \/ processTimeouts \/ processReadReadies \/ firePending
  \/ processWakeupCallback \/ userTimerCallback \/ userTimerFree
  \/ listenCallback \/ listenAddCommands \/ onNewCommandConnect
  \/ processCommandsRecord \/ processCommandsEagain \/ processCommandsClose
  \/ processCommandsDel \/ rearmListen

\* What a thread inside libril still has to do.
callerStep(t) ==
  \/ timerAdd(t) \/ triggerEvLoop(t) \/ blockingWriteFails(t)
  \/ t = Main /\ (registerFdSet \/ registerNfds)

Next ==
  \/ eventLoop \/ selectEintr
  \/ registerListen
  \/ \E t \in Threads : callerStep(t) \/ requestTimedCallback(t) \/ sendResponseFd(t)
  \/ clientConnect \/ clientSend \/ clientClose
  \/ Tick

Spec == Init /\ [][Next]_vars

\* The kernel runs every thread that can run, and time passes; a client does
\* not outrun processCommandsCallback for ever.  Nobody is obliged to call,
\* to connect or to send.
Fairness ==
  /\ WF_vars(eventLoop)
  /\ SF_vars(processCommandsEagain)
  /\ \A t \in Threads : WF_vars(callerStep(t))
  /\ WF_vars(Tick)

FairSpec == Spec /\ Fairness

-----------------------------------------------------------------------------
(* Properties.                                                             *)

Registered == tpc[Main] # "event_add" /\ evfd["listen"] >= 0
Watched(e) == index[e] >= 0
InLoop == dpc \in {"copy", "calc", "enter", "select", "timeouts", "readies"}

DispatchPoints ==
  {"start", "pipe", "addWakeup", "copy", "calc", "enter", "select", "timeouts",
   "readies", "fire", "wakeup", "listen", "commands", "timer", "free",
   "addCommands", "connected", "del", "rearm", "dead"}
CallerPoints ==
  {"idle", "timer_add", "trigger", "event_add", "event_nfds", "write"}

TableType ==
  /\ listMutex \in Threads \cup {Dispatch, Free}
  /\ watch_table \in [Slots -> FdEvents \cup {NULL}]
  /\ index \in [FdEvents -> -1 .. MAX_FD_EVENTS - 1]
  /\ evfd \in [FdEvents -> {-1, WakeFd, ListenFd} \cup CmdFds]
  /\ readFds \subseteq {WakeFd, ListenFd} \cup CmdFds
  /\ nfds \in Nat
TimerType ==
  /\ now \in Nat
  /\ timer_list \in Seq(Timers)
  /\ timeout \in [Timers -> Nat]
  /\ live \subseteq Timers
LoopType ==
  /\ pending_list \in Seq(FdEvents \cup Timers)
  /\ dpc \in DispatchPoints
  /\ rfds \subseteq {WakeFd, ListenFd} \cup CmdFds
  /\ tv \in Nat \cup {Forever}
  /\ cur \in Timers \cup {NULL} /\ dpc \in {"timer", "free"} => cur \in Timers
  /\ lastFired \in Nat
CallerType ==
  /\ tpc \in [Threads -> CallerPoints]
  /\ targ \in [Threads -> (Timers \X Delays) \cup {NULL}]
  /\ \A t \in Threads : tpc[t] = "timer_add" => targ[t] \in Timers \X Delays
  /\ tfd \in [Threads -> CmdFds \cup {-1}]
  /\ s_started \in BOOLEAN
  /\ pipe \in -1 .. PipeCap
SockType ==
  /\ s_fdCommand \in CmdFds \cup {-1}
  /\ openFds \subseteq CmdFds
  /\ backlog \in 0 .. MaxBacklog /\ data \in 0 .. MaxData /\ eof \in BOOLEAN

\* Every variable has its type (file-level state of ril_event.cpp and of the
\* event part of ril.cpp).
TypeOK == TableType /\ TimerType /\ LoopType /\ CallerType /\ SockType

\* The four views ril_event.cpp keeps of what is watched agree: watch_table,
\* each event's index, readFds, and (outside ril_event_add) nfds, which must
\* be above every watched descriptor or select ignores it.
WatchConsistent ==
  /\ \A e \in FdEvents : Watched(e) => watch_table[index[e]] = e
  /\ \A i \in Slots : watch_table[i] # NULL => index[watch_table[i]] = i
  /\ readFds = {evfd[e] : e \in {f \in FdEvents : Watched(f)}}
  /\ listMutex = Free => \A fd \in readFds : fd < nfds

\* Whenever the loop goes to sleep it watches the wakeup pipe and, once
\* RIL_register has added the listen event, exactly one of the listening
\* socket and the command socket: it is never deaf and never serves two
\* clients ("so we can accept only one connection at a time").
NeverDeaf ==
  InLoop =>
    /\ Watched("wakeup")
    /\ Registered => Watched("listen") # Watched("commands")
    /\ Watched("commands") <=> s_fdCommand >= 0

\* The assertions at the top of listenCallback and processCommandsCallback
\* hold, and listenCallback clears the commands event only when no list of
\* the event loop still links it.
CallbackAsserts ==
  /\ dpc = "listen" =>
       /\ s_fdCommand < 0
       /\ ~ Watched("commands")
       /\ \A i \in 1 .. Len(pending_list) : pending_list[i] # "commands"
  /\ dpc = "commands" => evfd["commands"] = s_fdCommand /\ s_fdCommand >= 0

\* ril_event_del's early return, which keeps listMutex locked for ever, is
\* never taken.
MutexNotLeaked == listMutex # Dispatch

\* Timers are called back in the order of their timeouts, whoever requested
\* them and whenever (the sorted insertion of ril_timer_add, the clock read
\* under the mutex, and processTimeouts working from the front).
TimersInOrder == [][lastFired' >= lastFired]_vars

\* A timer that was requested is called back and freed, even when it is
\* requested between the loop's look at the timer list and its select, or
\* before the wakeup pipe exists.
TimerFires == \A p \in Timers : p \in live ~> p \notin live

\* A client in the backlog is accepted if no client is connected, or once the
\* connected one hangs up: the hangup is noticed, the socket closed, the
\* listen event added back.
ClientServed ==
  (backlog > 0 /\ (s_fdCommand < 0 \/ eof)) ~> (s_fdCommand >= 0 /\ ~ eof)
=============================================================================
