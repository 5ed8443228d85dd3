--------------------------- MODULE RilEventProofs ---------------------------
(***************************************************************************)
(* Proofs about RilEvent, for any number of threads, timers, clients and   *)
(* descriptors: the watch table stays consistent, the loop is never deaf,  *)
(* the assertions of the callbacks hold and the list mutex is not leaked.  *)
(*                                                                         *)
(* None of these is inductive on its own.  Whether the listen event may be *)
(* in the table depends on where the dispatch thread is, on what waits in  *)
(* the pending list and on how far RIL_register got; ConnInv says how.     *)
(***************************************************************************)
EXTENDS RilEvent, SequenceTheorems, FiniteSetTheorems, TLAPS

Pending(e) == \E i \in 1 .. Len(pending_list) : pending_list[i] = e

\* Control points at which the dispatch thread is in the middle of opening or
\* closing a connection.
ConnPoints == {"listen", "commands", "addCommands", "connected", "del", "rearm"}
QuietPoints == {"start", "pipe", "addWakeup", "copy", "calc", "enter", "select",
                "timeouts", "dead"}

DescriptorInv ==
  /\ evfd["wakeup"] \in {-1, WakeFd}
  /\ evfd["listen"] \in {-1, ListenFd}
  /\ evfd["commands"] \in {-1} \cup CmdFds
  /\ \A e \in FdEvents : Watched(e) => evfd[e] # -1

\* Only the main thread ever holds the mutex across a step, while it adds the
\* listen event; then nfds covers every other descriptor already.
LockInv ==
  /\ listMutex \in {Free, Main}
  /\ listMutex = Main <=> tpc[Main] = "event_nfds"
  /\ \A t \in Threads \ {Main} : tpc[t] \notin {"event_add", "event_nfds"}
  /\ tpc[Main] \in {"event_add", "event_nfds"} => evfd["listen"] = ListenFd
  /\ listMutex = Main => \A fd \in readFds \ {ListenFd} : fd < nfds

PendingInv ==
  /\ dpc \in QuietPoints => pending_list = <<>>
  /\ dpc = "readies" => \A i \in 1 .. Len(pending_list) : pending_list[i] \in Timers
  /\ \A i, j \in 1 .. Len(pending_list) :
       pending_list[i] \in FdEvents /\ pending_list[i] = pending_list[j] => i = j

WakeupInv ==
  /\ dpc \in {"start", "pipe", "addWakeup"} =>
       ~ Watched("wakeup") /\ ~ Watched("commands")
  /\ dpc \notin {"start", "pipe", "addWakeup", "dead"} => Watched("wakeup")
  /\ dpc = "addWakeup" => evfd["wakeup"] = WakeFd

\* Where the one connection stands.
ConnInv ==
  /\ Watched("listen") =>
       /\ Registered /\ s_fdCommand = -1 /\ ~ Watched("commands")
       /\ ~ Pending("listen") /\ ~ Pending("commands") /\ dpc \notin ConnPoints
  /\ Pending("listen") =>
       /\ Registered /\ s_fdCommand = -1
       /\ ~ Watched("commands") /\ ~ Pending("commands") /\ dpc \notin ConnPoints
  /\ dpc \in ConnPoints =>
       Registered /\ ~ Watched("listen") /\ ~ Pending("listen") /\ ~ Pending("commands")
  /\ dpc \in {"listen", "rearm"} => s_fdCommand = -1 /\ ~ Watched("commands")
  /\ dpc = "addCommands" =>
       /\ ~ Watched("commands")
       /\ s_fdCommand = evfd["commands"] /\ s_fdCommand # -1
  /\ dpc = "del" => s_fdCommand = -1 /\ Watched("commands")
  /\ dpc \in {"commands", "connected"} => Watched("commands")
  /\ Watched("commands") /\ dpc # "del" =>
       Registered /\ s_fdCommand = evfd["commands"] /\ s_fdCommand # -1
  /\ Pending("commands") => Watched("commands")
  /\ s_fdCommand # -1 => Watched("commands") \/ dpc = "addCommands"
  /\ Registered =>
       \/ Watched("listen") \/ Watched("commands") \/ Pending("listen")
       \/ dpc \in {"listen", "rearm", "addCommands"}

IInv ==
  /\ TypeOK /\ WatchConsistent /\ DescriptorInv /\ LockInv
  /\ PendingInv /\ WakeupInv /\ ConnInv

-----------------------------------------------------------------------------
USE ThreadsAssumption, EventsAssumption, FdAssumption, TimeAssumption,
    BoundAssumption
USE DEF Slots, FdEvents, Dispatch, Free, Forever, Watched, Registered, Pending,
        QuietPoints, ConnPoints, DispatchPoints, CallerPoints,
        listVars, timerVars, loopVars, callerVars, sockVars

(* The watch table.                                                        *)

\* With at most one event in it the table (two slots or more) has a free slot.
LEMMA SlotLeft ==
  ASSUME TableType, WatchConsistent, NEW w \in FdEvents,
         \A g \in FdEvents : Watched(g) => g = w
  PROVE  FreeSlots # {}
<1>1. 0 \in Slots /\ 1 \in Slots
  OBVIOUS
<1>2. ASSUME watch_table[0] # NULL, watch_table[1] # NULL PROVE FALSE
  <2>1. watch_table[0] \in FdEvents /\ watch_table[1] \in FdEvents
    BY <1>1, <1>2 DEF TableType
  <2>2. index[watch_table[0]] = 0 /\ index[watch_table[1]] = 1
    BY <1>1, <1>2 DEF WatchConsistent
  <2>3. watch_table[0] = w /\ watch_table[1] = w
    BY <2>1, <2>2
  <2> QED BY <2>2, <2>3
<1> QED BY <1>1, <1>2 DEF FreeSlots

\* ril_event_add, but for nfds: the table, the indices and readFds go together.
LEMMA AddedToTable ==
  ASSUME TableType, WatchConsistent, NEW e \in FdEvents, ~ Watched(e),
         evfd[e] # -1, evfd' = evfd, FreeSlots # {}, addWatch(e)
  PROVE  /\ watch_table' \in [Slots -> FdEvents \cup {NULL}]
         /\ index' \in [FdEvents -> -1 .. MAX_FD_EVENTS - 1]
         /\ \A g \in FdEvents : index'[g] >= 0 <=> (index[g] >= 0 \/ g = e)
         /\ \A g \in FdEvents : index'[g] >= 0 => watch_table'[index'[g]] = g
         /\ \A i \in Slots : watch_table'[i] # NULL => index'[watch_table'[i]] = i
         /\ readFds' = {evfd'[g] : g \in {f \in FdEvents : index'[f] >= 0}}
         /\ readFds' = readFds \cup {evfd[e]}
<1>1. PICK i \in Slots :
        /\ watch_table[i] = NULL
        /\ watch_table' = [watch_table EXCEPT ![i] = e]
        /\ index' = [index EXCEPT ![e] = i]
        /\ readFds' = readFds \cup {evfd[e]}
  BY DEF addWatch, FreeSlots
<1>2. /\ watch_table' \in [Slots -> FdEvents \cup {NULL}]
      /\ index' \in [FdEvents -> -1 .. MAX_FD_EVENTS - 1]
      /\ \A g \in FdEvents : index'[g] >= 0 <=> (index[g] >= 0 \/ g = e)
  BY <1>1 DEF TableType
<1>3. \A g \in FdEvents : index'[g] >= 0 => watch_table'[index'[g]] = g
  BY <1>1 DEF TableType, WatchConsistent
<1>4. \A j \in Slots : watch_table'[j] # NULL => index'[watch_table'[j]] = j
  BY <1>1 DEF TableType, WatchConsistent
<1>5. readFds' = {evfd'[g] : g \in {f \in FdEvents : index'[f] >= 0}}
  BY <1>1, <1>2 DEF TableType, WatchConsistent
<1> QED BY <1>1, <1>2, <1>3, <1>4, <1>5

\* ril_event_add on the dispatch thread.
LEMMA Added ==
  ASSUME TableType, WatchConsistent, NEW e \in FdEvents, ~ Watched(e),
         evfd[e] # -1, FreeSlots # {}, ril_event_add(e)
  PROVE  /\ TableType' /\ WatchConsistent'
         /\ \A g \in FdEvents : index'[g] >= 0 <=> (index[g] >= 0 \/ g = e)
         /\ listMutex' = Free /\ listMutex = Free /\ evfd' = evfd
<1>1. /\ addWatch(e) /\ listMutex' = Free /\ listMutex = Free /\ evfd' = evfd
      /\ nfds' = grownNfds(evfd[e])
  BY DEF ril_event_add
<1>2. /\ watch_table' \in [Slots -> FdEvents \cup {NULL}]
      /\ index' \in [FdEvents -> -1 .. MAX_FD_EVENTS - 1]
      /\ \A g \in FdEvents : index'[g] >= 0 <=> (index[g] >= 0 \/ g = e)
      /\ \A g \in FdEvents : index'[g] >= 0 => watch_table'[index'[g]] = g
      /\ \A i \in Slots : watch_table'[i] # NULL => index'[watch_table'[i]] = i
      /\ readFds' = {evfd'[g] : g \in {f \in FdEvents : index'[f] >= 0}}
      /\ readFds' = readFds \cup {evfd[e]}
  BY <1>1, AddedToTable
<1>3. evfd[e] \in Nat /\ evfd[e] \in {WakeFd, ListenFd} \cup CmdFds /\ nfds \in Nat
  BY DEF TableType
<1>4. nfds' \in Nat /\ nfds' >= nfds /\ nfds' > evfd[e]
  BY <1>1, <1>3 DEF grownNfds
<1>5. TableType'
  BY <1>1, <1>2, <1>3, <1>4 DEF TableType
<1>6. \A fd \in readFds' : fd < nfds'
  <2>1. \A fd \in readFds : fd \in Nat /\ fd < nfds
    BY <1>1 DEF WatchConsistent, TableType
  <2>2. \A fd \in readFds' : fd \in readFds \/ fd = evfd[e]
    BY <1>2
  <2>3. \A fd \in readFds : fd < nfds'
    BY <2>1, <1>3, <1>4
  <2> QED BY <2>2, <2>3, <1>4
<1>7. WatchConsistent'
  BY <1>2, <1>6 DEF WatchConsistent
<1> QED BY <1>1, <1>2, <1>5, <1>7

\* Arithmetic the provers want as a fact of its own.
LEMMA LessSucc == \A a, b \in Nat : a <= b - 1 => a < b
  OBVIOUS

\* removeWatch of a watched event.  The descriptors of two watched events
\* differ, and nfds stays above the ones that are left.
LEMMA Removed ==
  ASSUME TableType, WatchConsistent, DescriptorInv, NEW e \in FdEvents,
         Watched(e), removeWatch(e, index[e]), evfd' = evfd,
         listMutex = Free, listMutex' = Free
  PROVE  /\ TableType' /\ WatchConsistent'
         /\ \A g \in FdEvents : index'[g] >= 0 <=> (index[g] >= 0 /\ g # e)
<1>1. /\ watch_table' = [watch_table EXCEPT ![index[e]] = NULL]
      /\ index' = [index EXCEPT ![e] = -1]
      /\ readFds' = readFds \ {evfd[e]}
      /\ isShrunkNfds(nfds', e, index[e])
      /\ nfds' \in {nfds, 1} \cup {m + 1 : m \in restFds(index[e])}
  BY DEF removeWatch
<1>2. index[e] \in Slots
  BY DEF TableType
<1>3. \A g \in FdEvents : index'[g] >= 0 <=> (index[g] >= 0 /\ g # e)
  BY <1>1 DEF TableType
<1>4. \A m \in restFds(index[e]) : m \in {-1} \cup Nat
  <2>1. \A k \in Slots : watch_table[k] # NULL => evfd[watch_table[k]] \in {-1} \cup Nat
    BY ZenonT(60) DEF TableType
  <2> QED BY <2>1 DEF restFds
<1>5. TableType'
  <2>1. nfds' \in Nat
    <3>1. nfds \in Nat
      BY DEF TableType
    <3>2. CASE nfds' \in {nfds, 1}
      BY <3>1, <3>2
    <3>3. CASE \E m \in restFds(index[e]) : nfds' = m + 1
      BY <3>3, <1>4
    <3> QED BY <1>1, <3>2, <3>3
  <2>2. watch_table' \in [Slots -> FdEvents \cup {NULL}]
    BY <1>1, <1>2 DEF TableType
  <2>3. index' \in [FdEvents -> -1 .. MAX_FD_EVENTS - 1]
    BY <1>1 DEF TableType
  <2>4. readFds' \subseteq {WakeFd, ListenFd} \cup CmdFds
    BY <1>1 DEF TableType
  <2> QED BY <2>1, <2>2, <2>3, <2>4 DEF TableType
<1>6. \A g \in FdEvents : Watched(g) /\ g # e => evfd[g] # evfd[e] /\ evfd[g] \in restFds(index[e])
  <2> TAKE g \in FdEvents
  <2> HAVE Watched(g) /\ g # e
  <2>1. evfd[g] # evfd[e]
    BY DEF DescriptorInv
  <2>2. index[g] \in Slots /\ watch_table[index[g]] = g /\ index[g] # index[e]
    BY DEF TableType, WatchConsistent
  <2>3. evfd[watch_table[index[g]]] \in restFds(index[e])
    BY <2>2 DEF restFds
  <2> QED BY <2>1, <2>2, <2>3
<1>7. readFds' = {evfd'[g] : g \in {f \in FdEvents : index'[f] >= 0}}
  BY <1>1, <1>3, <1>6 DEF WatchConsistent
<1>8. \A fd \in readFds' : fd < nfds'
  <2> TAKE fd \in readFds'
  <2>1. fd \in readFds /\ fd \in restFds(index[e]) /\ fd < nfds /\ fd \in Nat
    BY <1>1, <1>6 DEF WatchConsistent, TableType
  <2>2. CASE evfd[e] + 1 = nfds
    <3>1. fd <= nfds' - 1
      BY <1>1, <2>1, <2>2 DEF isShrunkNfds
    <3>2. nfds' \in Nat
      BY <1>5 DEF TableType
    <3>3. fd \in Nat /\ fd <= nfds' - 1
      BY <2>1, <3>1
    <3> QED BY <3>2, <3>3, LessSucc
  <2>3. CASE evfd[e] + 1 # nfds
    BY <1>1, <2>1, <2>3 DEF isShrunkNfds
  <2> QED BY <2>2, <2>3
<1>9. /\ \A g \in FdEvents : index'[g] >= 0 => watch_table'[index'[g]] = g
      /\ \A i \in Slots : watch_table'[i] # NULL => index'[watch_table'[i]] = i
  BY <1>1, <1>2 DEF TableType, WatchConsistent
<1>10. WatchConsistent'
  BY <1>7, <1>8, <1>9 DEF WatchConsistent
<1> QED BY <1>3, <1>5, <1>10

-----------------------------------------------------------------------------
(* The steps that add an event to the table or take one out.               *)

\* eventLoop adds the wakeup event, the first in the table.
LEMMA eventLoopAddWakeupInv == ASSUME IInv, eventLoopAddWakeup PROVE IInv'
<1> USE DEF IInv, TypeOK
<1>1. ~ Watched("wakeup") /\ evfd["wakeup"] # -1
  BY DEF eventLoopAddWakeup, WakeupInv
<1>2. ~ Watched("commands")
  BY DEF eventLoopAddWakeup, WakeupInv
<1>3. FreeSlots # {}
  BY <1>1, <1>2, SlotLeft
<1>4. /\ TableType' /\ WatchConsistent'
      /\ \A g \in FdEvents : index'[g] >= 0 <=> (index[g] >= 0 \/ g = "wakeup")
      /\ listMutex' = Free /\ listMutex = Free /\ evfd' = evfd
  BY <1>1, <1>3, Added DEF eventLoopAddWakeup
<1>5. TimerType' /\ LoopType' /\ CallerType' /\ SockType'
  BY DEF eventLoopAddWakeup, TimerType, LoopType, CallerType, SockType
<1>6. DescriptorInv'
  BY <1>4, <1>1 DEF DescriptorInv
<1>7. LockInv' /\ PendingInv' /\ WakeupInv'
  BY <1>4 DEF eventLoopAddWakeup, LockInv, PendingInv, WakeupInv
<1>8. ConnInv'
  BY <1>4 DEF eventLoopAddWakeup, ConnInv
<1> QED BY <1>4, <1>5, <1>6, <1>7, <1>8

\* listenCallback adds the commands event: the listen event has left the table.
LEMMA listenAddCommandsInv == ASSUME IInv, listenAddCommands PROVE IInv'
<1> USE DEF IInv, TypeOK
<1>1. ~ Watched("commands") /\ ~ Watched("listen") /\ evfd["commands"] # -1
  BY DEF listenAddCommands, ConnInv
<1>2. FreeSlots # {}
  BY <1>1, SlotLeft
<1>3. /\ TableType' /\ WatchConsistent'
      /\ \A g \in FdEvents : index'[g] >= 0 <=> (index[g] >= 0 \/ g = "commands")
      /\ listMutex' = Free /\ listMutex = Free /\ evfd' = evfd
  BY <1>1, <1>2, Added DEF listenAddCommands
<1>4. TimerType' /\ LoopType' /\ CallerType' /\ SockType'
  BY DEF listenAddCommands, TimerType, LoopType, CallerType, SockType
<1>5. DescriptorInv'
  BY <1>3, <1>1 DEF DescriptorInv
<1>6. LockInv' /\ PendingInv' /\ WakeupInv'
  BY <1>3 DEF listenAddCommands, LockInv, PendingInv, WakeupInv
<1>7. ConnInv'
  BY <1>3 DEF listenAddCommands, ConnInv
<1> QED BY <1>3, <1>4, <1>5, <1>6, <1>7

\* processCommandsCallback adds the listen event back after the commands event
\* has left the table.
LEMMA rearmListenInv == ASSUME IInv, rearmListen PROVE IInv'
<1> USE DEF IInv, TypeOK
<1>1. ~ Watched("commands") /\ ~ Watched("listen") /\ evfd["listen"] # -1
  BY DEF rearmListen, ConnInv
<1>2. FreeSlots # {}
  BY <1>1, SlotLeft
<1>3. /\ TableType' /\ WatchConsistent'
      /\ \A g \in FdEvents : index'[g] >= 0 <=> (index[g] >= 0 \/ g = "listen")
      /\ listMutex' = Free /\ listMutex = Free /\ evfd' = evfd
  BY <1>1, <1>2, Added DEF rearmListen
<1>4. TimerType' /\ LoopType' /\ CallerType' /\ SockType'
  BY DEF rearmListen, TimerType, LoopType, CallerType, SockType
<1>5. DescriptorInv'
  BY <1>3, <1>1 DEF DescriptorInv
<1>6. LockInv' /\ PendingInv' /\ WakeupInv'
  BY <1>3 DEF rearmListen, LockInv, PendingInv, WakeupInv
<1>7. ConnInv'
  BY <1>3 DEF rearmListen, ConnInv
<1> QED BY <1>3, <1>4, <1>5, <1>6, <1>7

\* The main thread's ril_event_add: between its two steps it holds the mutex
\* and nfds may lag behind the listening socket only.
LEMMA registerFdSetInv == ASSUME IInv, registerFdSet PROVE IInv'
<1> USE DEF IInv, TypeOK
<1>1. /\ ~ Watched("listen") /\ ~ Watched("commands") /\ s_fdCommand = -1
      /\ ~ Pending("listen") /\ ~ Pending("commands") /\ dpc \notin ConnPoints
      /\ evfd["listen"] = ListenFd /\ listMutex = Free
  BY DEF registerFdSet, ConnInv, LockInv
<1>2. FreeSlots # {}
  BY <1>1, SlotLeft
<1>3. addWatch("listen") /\ evfd' = evfd /\ nfds' = nfds /\ listMutex' = Main
  BY DEF registerFdSet
<1>4. /\ watch_table' \in [Slots -> FdEvents \cup {NULL}]
      /\ index' \in [FdEvents -> -1 .. MAX_FD_EVENTS - 1]
      /\ \A g \in FdEvents : index'[g] >= 0 <=> (index[g] >= 0 \/ g = "listen")
      /\ \A g \in FdEvents : index'[g] >= 0 => watch_table'[index'[g]] = g
      /\ \A i \in Slots : watch_table'[i] # NULL => index'[watch_table'[i]] = i
      /\ readFds' = {evfd'[g] : g \in {f \in FdEvents : index'[f] >= 0}}
      /\ readFds' = readFds \cup {ListenFd}
  BY <1>1, <1>2, <1>3, AddedToTable
<1>5. TableType' /\ WatchConsistent'
  BY <1>3, <1>4 DEF TableType, WatchConsistent
<1>6. TimerType' /\ LoopType' /\ CallerType' /\ SockType'
  BY DEF registerFdSet, TimerType, LoopType, CallerType, SockType
<1>7. DescriptorInv'
  BY <1>1, <1>3, <1>4 DEF DescriptorInv
<1>8. LockInv'
  BY <1>1, <1>3, <1>4 DEF registerFdSet, LockInv, WatchConsistent, CallerType
<1>9. PendingInv' /\ WakeupInv'
  BY <1>3, <1>4 DEF registerFdSet, PendingInv, WakeupInv
<1>10. ConnInv'
  BY <1>1, <1>3, <1>4 DEF registerFdSet, ConnInv, CallerType
<1> QED BY <1>5, <1>6, <1>7, <1>8, <1>9, <1>10

\* ril_event_del of the commands event finds it watched, so that the early
\* return that keeps listMutex is not taken.
LEMMA processCommandsDelInv == ASSUME IInv, processCommandsDel PROVE IInv'
<1> USE DEF IInv, TypeOK
<1>1. Watched("commands") /\ ~ Watched("listen") /\ s_fdCommand = -1
  BY DEF processCommandsDel, ConnInv
<1>2. /\ removeWatch("commands", index["commands"])
      /\ evfd' = evfd /\ listMutex = Free /\ listMutex' = Free
  BY <1>1 DEF processCommandsDel, ril_event_del, TableType
<1>3. /\ TableType' /\ WatchConsistent'
      /\ \A g \in FdEvents : index'[g] >= 0 <=> (index[g] >= 0 /\ g # "commands")
  BY <1>1, <1>2, Removed
<1>4. TimerType' /\ LoopType' /\ CallerType' /\ SockType'
  BY DEF processCommandsDel, TimerType, LoopType, CallerType, SockType
<1>5. DescriptorInv'
  BY <1>2, <1>3 DEF DescriptorInv
<1>6. LockInv' /\ PendingInv' /\ WakeupInv'
  BY <1>2, <1>3 DEF processCommandsDel, LockInv, PendingInv, WakeupInv
<1>7. ConnInv'
  BY <1>2, <1>3 DEF processCommandsDel, ConnInv
<1> QED BY <1>3, <1>4, <1>5, <1>6, <1>7

-----------------------------------------------------------------------------
(* The steps that move events through the pending list.                    *)

\* processTimeouts moves expired timers, and no descriptor event, to
\* pending_list.
LEMMA processTimeoutsInv == ASSUME IInv, processTimeouts PROVE IInv'
<1> USE DEF IInv, TypeOK
<1>1. pending_list = <<>>
  BY DEF processTimeouts, PendingInv
<1>2. PICK n \in 0 .. Len(timer_list) :
        /\ pending_list' = pending_list \o SubSeq(timer_list, 1, n)
        /\ timer_list' = SubSeq(timer_list, n + 1, Len(timer_list))
  BY DEF processTimeouts
<1>3. SubSeq(timer_list, 1, n) \in Seq(Timers) /\ timer_list' \in Seq(Timers)
  BY <1>2, SubSeqProperties, SMTT(30) DEF TimerType
<1>4. pending_list' = SubSeq(timer_list, 1, n)
  BY <1>1, <1>2, <1>3, ConcatEmptySeq
<1>5. \A i \in 1 .. Len(pending_list') : pending_list'[i] \in Timers
  BY <1>3, <1>4, ElementOfSeq
<1>6. pending_list' \in Seq(FdEvents \cup Timers)
  BY <1>3, <1>4, SeqMonotonic
<1>7. TypeOK'
  BY <1>3, <1>6 DEF processTimeouts, TableType, TimerType, LoopType, CallerType, SockType
<1>8. WatchConsistent' /\ DescriptorInv' /\ LockInv' /\ WakeupInv'
  BY DEF processTimeouts, WatchConsistent, DescriptorInv, LockInv, WakeupInv
<1>9. PendingInv'
  BY <1>5 DEF processTimeouts, PendingInv
<1>10. ConnInv'
  BY <1>1, <1>5 DEF processTimeouts, ConnInv
<1> QED BY <1>7, <1>8, <1>9, <1>10

\* firePending takes one event off pending_list and enters its callback.
LEMMA firePendingInv == ASSUME IInv, firePending PROVE IInv'
<1> USE DEF IInv, TypeOK
<1>1. CASE pending_list = <<>>
  BY <1>1, SMTT(30) DEF firePending, TableType, TimerType, LoopType, CallerType, SockType,
     WatchConsistent, DescriptorInv, LockInv, PendingInv, WakeupInv, ConnInv
<1>2. CASE pending_list # <<>>
  <2> DEFINE e == Head(pending_list)
  <2>1. /\ e = pending_list[1] /\ e \in FdEvents \cup Timers
        /\ pending_list' = Tail(pending_list)
        /\ pending_list' \in Seq(FdEvents \cup Timers)
        /\ Len(pending_list') = Len(pending_list) - 1
        /\ \A i \in 1 .. Len(pending_list') : pending_list'[i] = pending_list[i + 1]
        /\ Len(pending_list) \in Nat \ {0}
    BY <1>2, HeadTailProperties, LenProperties, SMTT(30) DEF firePending, LoopType
  <2>2. IF e \in Timers THEN dpc' = "timer" /\ cur' = e /\ lastFired' = timeout[e]
        ELSE dpc' = e /\ cur' = cur /\ lastFired' = lastFired
    BY <1>2 DEF firePending
  <2>3. dpc = "fire"
    BY DEF firePending
  <2> HIDE DEF e
  <2>4. TypeOK'
    <3>1. LoopType'
      <4>1. CASE e \in Timers
        BY <4>1, <2>1, <2>2 DEF firePending, LoopType, TimerType
      <4>2. CASE e \notin Timers
        BY <4>2, <2>1, <2>2, <2>3 DEF firePending, LoopType
      <4> QED BY <4>1, <4>2
    <3> QED BY <3>1 DEF firePending, TableType, TimerType, CallerType, SockType
  <2>5. WatchConsistent' /\ DescriptorInv' /\ LockInv'
    BY DEF firePending, WatchConsistent, DescriptorInv, LockInv
  <2>6. dpc' \in {"timer", "wakeup", "listen", "commands"}
    BY <2>1, <2>2
  <2>7. WakeupInv'
    BY <2>3, <2>6 DEF firePending, WakeupInv
  <2>8. PendingInv'
    BY <2>1, <2>3, <2>6 DEF PendingInv
  <2>9. /\ dpc' = "listen" => Pending("listen") /\ ~ Pending("listen")'
        /\ dpc' = "commands" => Pending("commands") /\ ~ Pending("commands")'
        /\ Pending("listen")' => Pending("listen")
        /\ Pending("commands")' => Pending("commands")
        /\ dpc' # "listen" /\ Pending("listen") => Pending("listen")'
    BY <2>1, <2>2 DEF PendingInv
  <2>10. ConnInv'
    BY <2>3, <2>6, <2>9 DEF firePending, ConnInv
  <2> QED BY <2>4, <2>5, <2>7, <2>8, <2>10
<1> QED BY <1>1, <1>2

\* processReadReadies puts each ready event on pending_list once, and takes
\* the ones that are not persistent out of the table.
LEMMA processReadReadiesInv == ASSUME IInv, processReadReadies PROVE IInv'
<1> USE DEF IInv, TypeOK
<1>1. /\ dpc = "readies" /\ dpc' = "fire" /\ listMutex = Free /\ listMutex' = Free
      /\ evfd' = evfd /\ s_fdCommand' = s_fdCommand /\ tpc' = tpc
  BY DEF processReadReadies
<1>2. /\ ReadySlots \subseteq Slots
      /\ \A i \in ReadySlots : watch_table[i] \in FdEvents /\ Watched(watch_table[i])
                                /\ index[watch_table[i]] = i
  BY DEF ReadySlots, TableType, WatchConsistent
<1>3. Cardinality(ReadySlots) \in Nat
  <2>1. IsFiniteSet(Slots)
    BY FS_Interval, 0 \in Int, MAX_FD_EVENTS - 1 \in Int
  <2>2. IsFiniteSet(ReadySlots)
    BY <1>2, <2>1, FS_Subset
  <2> QED BY <2>2, FS_CardinalityType
<1>4. PICK walk \in [1 .. Cardinality(ReadySlots) -> ReadySlots] :
        /\ \A k, m \in DOMAIN walk : k < m => walk[k] < walk[m]
        /\ \A i \in ReadySlots : \E k \in DOMAIN walk : walk[k] = i
        /\ pending_list' = pending_list \o [k \in DOMAIN walk |-> watch_table[walk[k]]]
  BY DEF processReadReadies
<1> DEFINE n == Cardinality(ReadySlots)
           fired == [k \in 1 .. n |-> watch_table[walk[k]]]
<1>5. fired \in Seq(FdEvents \cup Timers) /\ Len(fired) = n
  <2>1. \A k \in 1 .. n : walk[k] \in ReadySlots /\ watch_table[walk[k]] \in FdEvents
    BY <1>2, <1>4
  <2>2. n \in Nat
    BY <1>3
  <2> HIDE DEF n
  <2> QED BY <2>1, <2>2
<1>6. \A k, m \in 1 .. n : fired[k] = fired[m] => k = m
  <2> TAKE k, m \in 1 .. n
  <2> HAVE fired[k] = fired[m]
  <2>1. walk[k] \in ReadySlots /\ walk[m] \in ReadySlots /\ DOMAIN walk = 1 .. n
    BY <1>4
  <2>2. walk[k] = walk[m] /\ walk[k] \in Int
    <3>1. fired[k] = watch_table[walk[k]] /\ fired[m] = watch_table[walk[m]]
      OBVIOUS
    <3>2. watch_table[walk[k]] = watch_table[walk[m]]
      BY <3>1
    <3> HIDE DEF fired
    <3>3. index[watch_table[walk[k]]] = walk[k] /\ index[watch_table[walk[m]]] = walk[m]
      BY <1>2, <2>1
    <3>4. walk[k] \in Slots
      BY <1>2, <2>1
    <3> QED BY <3>2, <3>3, <3>4
  <2>3. ~ (walk[k] < walk[m]) /\ ~ (walk[m] < walk[k])
    BY <2>2
  <2>4. ~ (k < m) /\ ~ (m < k)
    BY <1>4, <2>1, <2>3
  <2> QED BY <2>4, <1>3
<1> HIDE DEF n, fired
<1>7. /\ pending_list' \in Seq(FdEvents \cup Timers)
      /\ Len(pending_list') = Len(pending_list) + n
      /\ \A k \in 1 .. Len(pending_list) + n :
           pending_list'[k] = IF k <= Len(pending_list) THEN pending_list[k]
                              ELSE fired[k - Len(pending_list)]
  <2>1. pending_list' = pending_list \o fired
    BY <1>4 DEF fired, n
  <2> DEFINE S == FdEvents \cup Timers
  <2>2. pending_list \in Seq(S) /\ fired \in Seq(S)
    BY <1>5 DEF LoopType
  <2> HIDE DEF S
  <2>3. /\ pending_list \o fired \in Seq(S)
        /\ Len(pending_list \o fired) = Len(pending_list) + Len(fired)
        /\ \A k \in 1 .. Len(pending_list) + Len(fired) :
             (pending_list \o fired)[k] = IF k <= Len(pending_list) THEN pending_list[k]
                                          ELSE fired[k - Len(pending_list)]
    BY <2>2, ConcatProperties, Zenon
  <2>4. Len(fired) = n
    BY <1>5
  <2> QED BY <2>1, <2>3, <2>4, Zenon DEF S
<1>8. \A k \in 1 .. Len(pending_list) : pending_list[k] \in Timers
  BY <1>1 DEF PendingInv
<1>9. \A k \in 1 .. n : \E i \in ReadySlots : fired[k] = watch_table[i]
  BY <1>4 DEF fired, n
<1>10. n \in Nat /\ Len(pending_list) \in Nat
  BY <1>3 DEF n, LoopType
<1>11. \A e \in FdEvents :
         Pending(e)' <=> \E i \in ReadySlots : watch_table[i] = e
  <2> TAKE e \in FdEvents
  <2>1. ASSUME Pending(e)' PROVE \E i \in ReadySlots : watch_table[i] = e
    <3>1. PICK k \in 1 .. Len(pending_list) + n : pending_list'[k] = e
      BY <2>1, <1>7
    <3>2. k > Len(pending_list) /\ fired[k - Len(pending_list)] = e
      BY <3>1, <1>7, <1>8, <1>10
    <3> QED BY <3>2, <1>9, <1>10
  <2>2. ASSUME NEW i \in ReadySlots, watch_table[i] = e PROVE Pending(e)'
    <3>1. PICK k \in 1 .. n : fired[k] = e
      BY <2>2, <1>4 DEF fired, n
    <3>2. k + Len(pending_list) \in 1 .. Len(pending_list')
      BY <1>7, <1>10
    <3>3. pending_list'[k + Len(pending_list)] = e
      BY <3>1, <3>2, <1>7, <1>10
    <3> QED BY <3>2, <3>3
  <2> QED BY <2>1, <2>2
<1>12. PendingInv'
  <2>1. ASSUME NEW i \in 1 .. Len(pending_list'), NEW j \in 1 .. Len(pending_list'),
               pending_list'[i] \in FdEvents, pending_list'[i] = pending_list'[j]
        PROVE  i = j
    <3>1. i > Len(pending_list) /\ j > Len(pending_list)
      BY <2>1, <1>7, <1>8, <1>10
    <3>2. fired[i - Len(pending_list)] = fired[j - Len(pending_list)]
      BY <2>1, <3>1, <1>7, <1>10
    <3>3. i - Len(pending_list) \in 1 .. n /\ j - Len(pending_list) \in 1 .. n
      BY <3>1, <1>7, <1>10
    <3>4. i - Len(pending_list) = j - Len(pending_list)
      BY <3>2, <3>3, <1>6
    <3> QED BY <3>4, <1>7, <1>10
  <2> QED BY <2>1, <1>1 DEF PendingInv
\* The listen event leaves the table exactly when it is queued.
<1>13. /\ TableType' /\ WatchConsistent'
       /\ \A g \in FdEvents :
            index'[g] >= 0 <=> (index[g] >= 0 /\ ~ (g = "listen" /\ Pending("listen")'))
  <2> DEFINE gone == {i \in ReadySlots : ~ persist(watch_table[i])}
  <2>1. CASE gone = {}
    <3>1. UNCHANGED listVars
      BY <2>1 DEF processReadReadies
    <3>2. ~ Pending("listen")'
      BY <2>1, <1>11 DEF persist
    <3> QED BY <3>1, <3>2 DEF TableType, WatchConsistent
  <2>2. CASE gone # {}
    <3>1. PICK i \in gone : removeWatch(watch_table[i], i)
      BY <2>2 DEF processReadReadies
    <3>2. watch_table[i] = "listen" /\ i = index["listen"] /\ Watched("listen")
      BY <1>2 DEF persist
    <3>3. /\ TableType' /\ WatchConsistent'
          /\ \A g \in FdEvents : index'[g] >= 0 <=> (index[g] >= 0 /\ g # "listen")
      BY <3>1, <3>2, <1>1, Removed
    <3>4. Pending("listen")'
      BY <3>2, <1>11
    <3> QED BY <3>3, <3>4
  <2> QED BY <2>1, <2>2
<1>14. TimerType' /\ LoopType' /\ CallerType' /\ SockType'
  BY <1>7 DEF processReadReadies, TimerType, LoopType, CallerType, SockType
<1>15. DescriptorInv' /\ WakeupInv'
  BY <1>1, <1>13 DEF DescriptorInv, WakeupInv
<1>16. LockInv'
  BY <1>1 DEF LockInv
<1>17. /\ Pending("listen")' => Watched("listen")
       /\ Pending("commands")' => Watched("commands")
  BY <1>2, <1>11
<1>18. ~ Pending("listen") /\ ~ Pending("commands")
  BY <1>8
<1>19. ConnInv'
  <2>1. index'["commands"] >= 0 <=> index["commands"] >= 0
    BY <1>13
  <2>2. index'["listen"] >= 0 <=> (index["listen"] >= 0 /\ ~ Pending("listen")')
    BY <1>13
  <2> QED BY <1>1, <2>1, <2>2, <1>17, <1>18 DEF ConnInv
<1> QED BY <1>12, <1>13, <1>14, <1>15, <1>16, <1>19

-----------------------------------------------------------------------------
(* The steps that add a timer.                                             *)

\* InsertAt of a sequence of S is one again.
LEMMA InsertAtType ==
  ASSUME NEW S, NEW s \in Seq(S), NEW i \in 1 .. Len(s) + 1, NEW x \in S
  PROVE  InsertAt(s, i, x) \in Seq(S)
<1>1. Len(s) \in Nat /\ \A k \in 1 .. Len(s) : s[k] \in S
  BY LenProperties
<1>2. SubSeq(s, 1, i - 1) \in Seq(S)
  BY <1>1, SubSeqProperties
<1>3. SubSeq(s, i, Len(s)) \in Seq(S)
  BY <1>1, SubSeqProperties
<1> QED BY <1>2, <1>3 DEF InsertAt

\* ril_timer_add keeps the types of the timer list.
LEMMA TimerAdded ==
  ASSUME TimerType, NEW p \in Timers, NEW d \in Nat, ril_timer_add(p, d),
         now' = now, live' \subseteq Timers
  PROVE  TimerType'
<1>1. PICK i \in 1 .. Len(timer_list) + 1 : timer_list' = InsertAt(timer_list, i, p)
  BY DEF ril_timer_add
<1>2. timer_list' \in Seq(Timers)
  BY <1>1, InsertAtType DEF TimerType
<1>3. timeout' \in [Timers -> Nat]
  BY DEF ril_timer_add, TimerType
<1> QED BY <1>2, <1>3 DEF TimerType

\* So does a timer request made on the dispatch thread.
LEMMA DispatchTimerAdded ==
  ASSUME TimerType, NEW d \in Nat, DispatchTimer(d), now' = now
  PROVE  TimerType' /\ UNCHANGED <<listVars, pipe>>
<1>1. PICK p \in Timers \ live : ril_timer_add(p, d) /\ live' = live \cup {p}
  BY DEF DispatchTimer
<1>2. live' \subseteq Timers
  BY <1>1 DEF TimerType
<1>3. TimerType'
  BY <1>1, <1>2, TimerAdded
<1> QED BY <1>3 DEF DispatchTimer

\* userTimerCallback may request another timer.
LEMMA userTimerCallbackInv == ASSUME IInv, userTimerCallback PROVE IInv'
<1> USE DEF IInv, TypeOK
<1>1. TimerType' /\ UNCHANGED <<listVars, pipe>>
  <2>1. CASE UNCHANGED <<listVars, timerVars, pipe>>
    BY <2>1 DEF userTimerCallback, TimerType
  <2>2. CASE \E d \in Delays : DispatchTimer(d)
    BY <2>2, DispatchTimerAdded DEF userTimerCallback
  <2> QED BY <2>1, <2>2 DEF userTimerCallback
<1>2. /\ dpc = "timer" /\ dpc' = "free"
      /\ UNCHANGED <<now, loopVars, callerVars, s_started, sockVars>>
  BY DEF userTimerCallback
<1>3. TypeOK'
  BY <1>1, <1>2 DEF TableType, LoopType, CallerType, SockType
<1>4. WatchConsistent' /\ DescriptorInv' /\ LockInv'
  BY <1>1, <1>2 DEF WatchConsistent, DescriptorInv, LockInv
<1>5. PendingInv' /\ WakeupInv' /\ ConnInv'
  BY <1>1, <1>2 DEF PendingInv, WakeupInv, ConnInv
<1> QED BY <1>3, <1>4, <1>5

\* onNewCommandConnect requests the wake timer of the radio state report.
LEMMA onNewCommandConnectInv == ASSUME IInv, onNewCommandConnect PROVE IInv'
<1> USE DEF IInv, TypeOK
<1>1. TimerType' /\ UNCHANGED <<listVars, pipe>>
  <2>1. CASE Room
    BY <2>1, DispatchTimerAdded DEF onNewCommandConnect
  <2>2. CASE ~ Room
    BY <2>2 DEF onNewCommandConnect, TimerType
  <2> QED BY <2>1, <2>2
<1>2. /\ dpc = "connected" /\ dpc' = "fire"
      /\ UNCHANGED <<now, loopVars, callerVars, s_started, sockVars>>
  BY DEF onNewCommandConnect
<1>3. TypeOK'
  BY <1>1, <1>2 DEF TableType, LoopType, CallerType, SockType
<1>4. WatchConsistent' /\ DescriptorInv' /\ LockInv'
  BY <1>1, <1>2 DEF WatchConsistent, DescriptorInv, LockInv
<1>5. PendingInv' /\ WakeupInv' /\ ConnInv'
  BY <1>1, <1>2 DEF PendingInv, WakeupInv, ConnInv
<1> QED BY <1>3, <1>4, <1>5

\* A request read from the socket may request a timer.
LEMMA processCommandsRecordInv == ASSUME IInv, processCommandsRecord PROVE IInv'
<1> USE DEF IInv, TypeOK
<1>1. TimerType' /\ UNCHANGED <<listVars, pipe>>
  <2>1. CASE UNCHANGED <<listVars, timerVars, pipe>>
    BY <2>1 DEF processCommandsRecord, TimerType
  <2>2. CASE \E d \in Delays : DispatchTimer(d)
    BY <2>2, DispatchTimerAdded DEF processCommandsRecord
  <2> QED BY <2>1, <2>2 DEF processCommandsRecord
<1>2. /\ data > 0 /\ data' = data - 1
      /\ UNCHANGED <<now, loopVars, dpc, callerVars, s_started, s_fdCommand,
                     openFds, backlog, eof>>
  BY DEF processCommandsRecord
<1>3. TypeOK'
  BY <1>1, <1>2 DEF TableType, LoopType, CallerType, SockType
<1>4. WatchConsistent' /\ DescriptorInv' /\ LockInv'
  BY <1>1, <1>2 DEF WatchConsistent, DescriptorInv, LockInv
<1>5. PendingInv' /\ WakeupInv' /\ ConnInv'
  BY <1>1, <1>2 DEF PendingInv, WakeupInv, ConnInv
<1> QED BY <1>3, <1>4, <1>5

\* ril_timer_add on a thread other than the dispatch thread.
LEMMA timerAddInv == ASSUME IInv, NEW t \in Threads, timerAdd(t) PROVE IInv'
<1> USE DEF IInv, TypeOK
<1>1. targ[t] \in Timers \X Delays
  BY DEF timerAdd, CallerType
<1>2. /\ tpc[t] = "timer_add"
      /\ tpc' = [tpc EXCEPT ![t] = "trigger"] /\ targ' = [targ EXCEPT ![t] = NULL]
      /\ UNCHANGED <<now, listVars, live, loopVars, dpc, tfd, s_started, pipe, sockVars>>
  BY DEF timerAdd
<1>3. TimerType'
  <2>1. targ[t][1] \in Timers /\ targ[t][2] \in Nat
    BY <1>1
  <2>2. live' \subseteq Timers
    BY <1>2 DEF TimerType
  <2> QED BY <1>2, <2>1, <2>2, TimerAdded DEF timerAdd
<1>4. CallerType'
  BY <1>2 DEF CallerType
<1>5. TableType' /\ LoopType' /\ SockType'
  BY <1>2 DEF TableType, LoopType, SockType
<1>6. WatchConsistent' /\ DescriptorInv' /\ LockInv'
  BY <1>2 DEF WatchConsistent, DescriptorInv, LockInv, CallerType
<1>7. PendingInv' /\ WakeupInv' /\ ConnInv'
  BY <1>2 DEF PendingInv, WakeupInv, ConnInv, CallerType
<1> QED BY <1>3, <1>4, <1>5, <1>6, <1>7

-----------------------------------------------------------------------------
(* The other steps.                                                        *)

\* The steps of select change the loop's control point and locals only.
LEMMA selectInv ==
  ASSUME IInv, selectEnter \/ selectReturn \/ selectEintr PROVE IInv'
<1> USE DEF IInv, TypeOK
<1>1. /\ dpc \in {"enter", "select"} /\ dpc' \in {"select", "dead", "timeouts", "copy"}
      /\ UNCHANGED <<now, listVars, timerVars, pending_list, cur, lastFired,
                     callerVars, s_started, pipe, sockVars>>
  BY DEF selectEnter, selectReturn, selectEintr
<1>2. rfds' \subseteq {WakeFd, ListenFd} \cup CmdFds
  BY DEF selectEnter, selectReturn, selectEintr, LoopType
<1>3. tv' \in Nat \cup {Forever}
  BY DEF selectEnter, selectReturn, selectEintr, LoopType, TimerType
<1>4. TypeOK'
  BY <1>1, <1>2, <1>3 DEF TableType, TimerType, LoopType, CallerType, SockType
<1>5. WatchConsistent' /\ DescriptorInv' /\ LockInv'
  BY <1>1 DEF WatchConsistent, DescriptorInv, LockInv
<1>6. PendingInv' /\ WakeupInv' /\ ConnInv'
  BY <1>1 DEF PendingInv, WakeupInv, ConnInv
<1> QED BY <1>4, <1>5, <1>6

\* free of the UserCallbackInfo block.
LEMMA userTimerFreeInv == ASSUME IInv, userTimerFree PROVE IInv'
<1> USE DEF IInv, TypeOK
<1>1. TypeOK'
  BY DEF userTimerFree, TableType, TimerType, LoopType, CallerType, SockType
<1>2. WatchConsistent' /\ DescriptorInv' /\ LockInv'
  BY DEF userTimerFree, WatchConsistent, DescriptorInv, LockInv
<1>3. PendingInv' /\ WakeupInv' /\ ConnInv'
  BY DEF userTimerFree, PendingInv, WakeupInv, ConnInv
<1> QED BY <1>1, <1>2, <1>3

\* accept and its failure.
LEMMA listenCallbackInv == ASSUME IInv, listenCallback PROVE IInv'
<1> USE DEF IInv, TypeOK
<1>1. TableType' /\ TimerType' /\ LoopType' /\ CallerType'
  BY SMTT(30) DEF listenCallback, acceptFailed, TableType, TimerType, LoopType, CallerType
<1>2. SockType'
  <2>1. s_fdCommand' \in CmdFds \cup {-1} /\ openFds' \subseteq CmdFds
    BY DEF listenCallback, acceptFailed, SockType
  <2>2. backlog' \in 0 .. MaxBacklog /\ data' \in 0 .. MaxData
    BY DEF listenCallback, acceptFailed, SockType
  <2>3. eof' \in BOOLEAN
    BY Zenon DEF listenCallback, acceptFailed, SockType
  <2> QED BY <2>1, <2>2, <2>3 DEF SockType
<1>3. WatchConsistent' /\ DescriptorInv' /\ LockInv'
  BY DEF listenCallback, acceptFailed, WatchConsistent, DescriptorInv, LockInv, ConnInv, TableType
<1>4. PendingInv' /\ WakeupInv' /\ ConnInv'
  BY DEF listenCallback, acceptFailed, PendingInv, WakeupInv, ConnInv, TableType
<1> QED BY <1>1, <1>2, <1>3, <1>4

\* The end of the client's stream: close and s_fdCommand = -1.
LEMMA processCommandsCloseInv == ASSUME IInv, processCommandsClose PROVE IInv'
<1> USE DEF IInv, TypeOK
<1>1. TableType' /\ TimerType' /\ LoopType' /\ CallerType'
  BY DEF processCommandsClose, TableType, TimerType, LoopType, CallerType
<1>2. SockType'
  <2>1. /\ s_fdCommand' = -1 /\ openFds' \subseteq CmdFds
        /\ backlog' = backlog /\ data' = 0
    BY DEF processCommandsClose, SockType
  <2>2. eof' \in BOOLEAN
    BY Zenon DEF processCommandsClose
  <2> QED BY <2>1, <2>2 DEF SockType
<1>3. WatchConsistent' /\ DescriptorInv' /\ LockInv'
  BY DEF processCommandsClose, WatchConsistent, DescriptorInv, LockInv
<1>4. PendingInv' /\ WakeupInv' /\ ConnInv'
  BY DEF processCommandsClose, PendingInv, WakeupInv, ConnInv
<1> QED BY <1>1, <1>2, <1>3, <1>4

\* The other steps of the other threads.
LEMMA callerInv ==
  ASSUME IInv, NEW t \in Threads,
         \/ requestTimedCallback(t) \/ triggerEvLoop(t)
         \/ sendResponseFd(t) \/ blockingWriteFails(t)
  PROVE  IInv'
<1> USE DEF IInv, TypeOK
<1>1. /\ tpc[t] \in {"idle", "trigger", "write"}
      /\ \E c \in {"idle", "timer_add", "write"} : tpc' = [tpc EXCEPT ![t] = c]
      /\ UNCHANGED <<now, listVars, timer_list, timeout, loopVars, dpc, s_started,
                     s_fdCommand, backlog, data, eof>>
  BY DEF requestTimedCallback, triggerEvLoop, sendResponseFd, blockingWriteFails
<1>2. TimerType' /\ SockType'
  BY DEF requestTimedCallback, triggerEvLoop, sendResponseFd, blockingWriteFails,
         TimerType, SockType
<1>3. CallerType'
  <2>1. CASE requestTimedCallback(t)
    BY <2>1 DEF requestTimedCallback, CallerType
  <2>2. CASE triggerEvLoop(t)
    BY <2>2 DEF triggerEvLoop, pipeRoom, pipeWritten, CallerType
  <2>3. CASE sendResponseFd(t)
    BY <2>3 DEF sendResponseFd, CallerType, SockType
  <2>4. CASE blockingWriteFails(t)
    BY <2>4 DEF blockingWriteFails, CallerType
  <2> QED BY <2>1, <2>2, <2>3, <2>4
<1>4. TableType' /\ LoopType'
  BY <1>1 DEF TableType, LoopType
<1>5. WatchConsistent' /\ DescriptorInv' /\ LockInv'
  BY <1>1 DEF WatchConsistent, DescriptorInv, LockInv, CallerType
<1>6. PendingInv' /\ WakeupInv' /\ ConnInv'
  BY <1>1 DEF PendingInv, WakeupInv, ConnInv, CallerType
<1> QED BY <1>2, <1>3, <1>4, <1>5, <1>6

\* Clients and the clock.
LEMMA environmentInv ==
  ASSUME IInv, clientConnect \/ clientSend \/ clientClose \/ Tick PROVE IInv'
<1> USE DEF IInv, TypeOK
<1>1. UNCHANGED <<listVars, timerVars, loopVars, dpc, callerVars, s_started,
                  pipe, s_fdCommand, openFds>>
  BY DEF clientConnect, clientSend, clientClose, Tick
<1>2. TableType' /\ LoopType' /\ CallerType'
  BY <1>1 DEF TableType, LoopType, CallerType
<1>3. TimerType'
  <2>1. now' \in {now, now + 1}
    BY DEF clientConnect, clientSend, clientClose, Tick
  <2> QED BY <1>1, <2>1 DEF TimerType
<1>4. SockType'
  <2>1. eof' \in BOOLEAN
    BY Zenon DEF clientConnect, clientSend, clientClose, Tick, sockVars, SockType
  <2>2. backlog' \in 0 .. MaxBacklog /\ data' \in 0 .. MaxData
    BY DEF clientConnect, clientSend, clientClose, Tick, SockType
  <2> QED BY <1>1, <2>1, <2>2 DEF SockType
<1>5. WatchConsistent' /\ DescriptorInv' /\ LockInv'
  BY <1>1 DEF WatchConsistent, DescriptorInv, LockInv
<1>6. PendingInv' /\ WakeupInv' /\ ConnInv'
  BY <1>1 DEF PendingInv, WakeupInv, ConnInv
<1> QED BY <1>2, <1>3, <1>4, <1>5, <1>6

\* The second step of the main thread's ril_event_add: nfds catches up.
LEMMA registerNfdsInv == ASSUME IInv, registerNfds PROVE IInv'
<1> USE DEF IInv, TypeOK
<1>1. nfds' \in Nat /\ nfds' >= nfds /\ (Watched("listen") => nfds' > ListenFd)
  BY DEF registerNfds, grownNfds, TableType
<1>2. TypeOK'
  BY <1>1, SMTT(30) DEF registerNfds, TableType, TimerType, LoopType, CallerType, SockType
<1>3. \A fd \in readFds : fd < nfds'
  <2>1. \A fd \in readFds : fd \in Nat /\ (fd < nfds \/ fd = ListenFd)
    BY DEF registerNfds, LockInv, TableType
  <2>2. ListenFd \in readFds => Watched("listen")
    BY DEF WatchConsistent, DescriptorInv
  <2> QED BY <1>1, <2>1, <2>2 DEF TableType
<1>4. WatchConsistent' /\ DescriptorInv' /\ LockInv'
  BY <1>3 DEF registerNfds, WatchConsistent, DescriptorInv, LockInv, CallerType
<1>5. PendingInv' /\ WakeupInv' /\ ConnInv'
  BY DEF registerNfds, PendingInv, WakeupInv, ConnInv, CallerType
<1> QED BY <1>2, <1>4, <1>5

\* The invariant holds at the start.
LEMMA InitInv == ASSUME Init PROVE IInv
<1>1. TableType /\ TimerType /\ LoopType
  BY DEF Init, TableType, TimerType, LoopType
<1>2. CallerType /\ SockType
  <2>1. s_started \in BOOLEAN /\ eof \in BOOLEAN
    BY Zenon DEF Init
  <2>2. pipe \in -1 .. PipeCap /\ backlog \in 0 .. MaxBacklog /\ data \in 0 .. MaxData
    BY DEF Init
  <2>3. tpc \in [Threads -> CallerPoints] /\ \A t \in Threads : tpc[t] = "idle"
    BY DEF Init
  <2> QED BY <2>1, <2>2, <2>3 DEF Init, CallerType, SockType
<1>3. WatchConsistent /\ DescriptorInv /\ LockInv
  BY DEF Init, WatchConsistent, DescriptorInv, LockInv
<1>4. PendingInv /\ WakeupInv /\ ConnInv
  BY DEF Init, PendingInv, WakeupInv, ConnInv
<1> QED BY <1>1, <1>2, <1>3, <1>4 DEF IInv, TypeOK

\* Every step keeps it: one case for each action.
LEMMA NextInv == ASSUME IInv, [Next]_vars PROVE IInv'
<1> USE DEF IInv, TypeOK
<1>1. CASE eventLoopStart
  BY <1>1 DEF eventLoopStart, TableType, TimerType, LoopType, CallerType, SockType,
     WatchConsistent, DescriptorInv, LockInv, PendingInv, WakeupInv, ConnInv
<1>2. CASE eventLoopPipe
  BY <1>2 DEF eventLoopPipe, TableType, TimerType, LoopType, CallerType, SockType,
     WatchConsistent, DescriptorInv, LockInv, PendingInv, WakeupInv, ConnInv
<1>3. CASE copyReadFds
  BY <1>3 DEF copyReadFds, TableType, TimerType, LoopType, CallerType, SockType,
     WatchConsistent, DescriptorInv, LockInv, PendingInv, WakeupInv, ConnInv
<1>4. CASE calcNextTimeout
  BY <1>4, SMTT(30) DEF calcNextTimeout, TableType, TimerType, LoopType, CallerType, SockType,
     WatchConsistent, DescriptorInv, LockInv, PendingInv, WakeupInv, ConnInv
<1>5. CASE processWakeupCallback
  BY <1>5, SMTT(30) DEF processWakeupCallback, TableType, TimerType, LoopType, CallerType,
     SockType, WatchConsistent, DescriptorInv, LockInv, PendingInv, WakeupInv, ConnInv
<1>6. CASE processCommandsEagain
  BY <1>6, SMTT(30) DEF processCommandsEagain, TableType, TimerType, LoopType, CallerType,
     SockType, WatchConsistent, DescriptorInv, LockInv, PendingInv, WakeupInv, ConnInv
<1>7. CASE registerListen
  BY <1>7, SMTT(30) DEF registerListen, TableType, TimerType, LoopType, CallerType, SockType,
     WatchConsistent, DescriptorInv, LockInv, PendingInv, WakeupInv, ConnInv
<1>8. CASE UNCHANGED vars
  BY <1>8, SMTT(30) DEF vars, TableType, TimerType, LoopType, CallerType, SockType,
     WatchConsistent, DescriptorInv, LockInv, PendingInv, WakeupInv, ConnInv
<1>9. CASE eventLoop
  BY <1>1, <1>2, <1>3, <1>4, <1>5, <1>6, <1>9, eventLoopAddWakeupInv, selectInv,
     processTimeoutsInv, processReadReadiesInv, firePendingInv, userTimerCallbackInv,
     userTimerFreeInv, listenCallbackInv, listenAddCommandsInv, onNewCommandConnectInv,
     processCommandsRecordInv, processCommandsCloseInv, processCommandsDelInv,
     rearmListenInv DEF eventLoop
<1>10. ASSUME NEW t \in Threads,
              callerStep(t) \/ requestTimedCallback(t) \/ sendResponseFd(t)
       PROVE  IInv'
  BY <1>10, timerAddInv, callerInv, registerFdSetInv, registerNfdsInv DEF callerStep
<1> QED BY <1>7, <1>8, <1>9, <1>10, selectInv, environmentInv DEF Next

-----------------------------------------------------------------------------
(* The theorems.                                                           *)

\* The inductive invariant holds throughout.
LEMMA Invariance == Spec => []IInv
<1>1. Init => IInv
  BY InitInv
<1>2. IInv /\ [Next]_vars => IInv'
  BY NextInv
<1> QED BY <1>1, <1>2, PTL DEF Spec

\* The state of the event loop keeps its types.
THEOREM Typing == Spec => []TypeOK
<1>1. IInv => TypeOK
  BY DEF IInv
<1> QED BY <1>1, Invariance, PTL

\* watch_table, the events' indices, readFds and nfds agree, whichever thread
\* is adding an event.
THEOREM WatchTableConsistent == Spec => []WatchConsistent
<1>1. IInv => WatchConsistent
  BY DEF IInv
<1> QED BY <1>1, Invariance, PTL

\* The loop never goes to sleep without watching the wakeup pipe and exactly
\* one of the listening socket and the command socket.
THEOREM LoopNeverDeaf == Spec => []NeverDeaf
<1>1. IInv => NeverDeaf
  <2> SUFFICES ASSUME IInv, InLoop PROVE NeverDeaf
    BY DEF NeverDeaf
  <2>1. Watched("wakeup")
    BY DEF IInv, InLoop, WakeupInv
  <2>2. ~ Pending("listen") /\ ~ Pending("commands")
    BY DEF IInv, InLoop, PendingInv, TypeOK, LoopType
  <2>3. Registered => Watched("listen") # Watched("commands")
    BY <2>2 DEF IInv, InLoop, ConnInv
  <2>4. Watched("commands") <=> s_fdCommand >= 0
    BY DEF IInv, InLoop, ConnInv, TypeOK, SockType
  <2> QED BY <2>1, <2>3, <2>4 DEF NeverDeaf
<1> QED BY <1>1, Invariance, PTL

\* The assertions of listenCallback and processCommandsCallback hold, and the
\* commands event is cleared only when no list links it.
THEOREM CallbackAssertsHold == Spec => []CallbackAsserts
<1>1. IInv => CallbackAsserts
  BY DEF IInv, CallbackAsserts, ConnInv, TypeOK, SockType
<1> QED BY <1>1, Invariance, PTL

\* ril_event_del never returns with listMutex held.
THEOREM MutexReleased == Spec => []MutexNotLeaked
<1>1. IInv => MutexNotLeaked
  BY DEF IInv, MutexNotLeaked, LockInv
<1> QED BY <1>1, Invariance, PTL

=============================================================================
