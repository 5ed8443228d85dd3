------------------------- MODULE RilRequestsProofs -------------------------
(***************************************************************************)
(* Proofs about RilRequests, for any number of vendor threads, clients,    *)
(* requests and descriptors.                                               *)
(*                                                                         *)
(* The invariants are proved in layers, each from the ones before it: the  *)
(* types; who holds s_writeMutex; what a header without its payload means  *)
(* for the connection it was written to; who owns a RequestInfo; and then  *)
(* that what has been written to a client will not be written again.       *)
(***************************************************************************)
EXTENDS RilRequests, SequenceTheorems, FiniteSetTheorems, TLAPS

SendPoints == {"send", "check", "lock", "hdr", "payload", "writeError"}
WorkerPoints ==
  SendPoints \cup {"idle", "dequeue", "complete", "free", "keepFree", "keep"}
DispatchPoints ==
  SendPoints \cup {"listen", "nitz", "nitzFree", "nitzNull", "select", "stopped",
                   "read", "reset", "cancel", "dequeue", "complete", "free"}

\* The messages, without the bounds of the model.
Msgs == {"resp", "radio", "nitz"} \X Nat
Entries == {"hdr", "data", "junk"} \X Msgs

ThreadType ==
  /\ pc \in [Threads -> WorkerPoints \cup DispatchPoints]
  /\ pc[Dispatch] \in DispatchPoints
  /\ \A x \in Workers : pc[x] \in WorkerPoints
  /\ msg \in [Threads -> Msgs]
  /\ fd \in [Threads -> Fds \cup {-1}] /\ s_fdCommand \in Fds \cup {-1}
  /\ s_writeMutex \in Threads \cup {Free}

ConnType ==
  /\ nconn \in 0 .. MaxConn
  /\ file \in [Fds -> 0 .. MaxConn]
  /\ stream \in [Conns -> Seq(Entries)]

RequestType ==
  /\ nreq \in Nat /\ s_lastNITZTimeData \in Nat /\ nnitz \in Nat
  /\ info \in [Infos -> [id : Nat, cancelled : BOOLEAN]]
  /\ allocated \subseteq Infos /\ s_pendingRequests \subseteq Infos /\ tasks \subseteq Infos
  /\ tok \in [Threads -> Infos \cup {NULL}]
  /\ \A x \in Threads : pc[x] = "complete" => tok[x] \in Infos

Types == ThreadType /\ ConnType /\ RequestType

-----------------------------------------------------------------------------
USE DEF netVars, reqVars, nitzVars, outVars

\* The threads are the vendor's and the dispatch thread.
LEMMA ThreadFacts ==
  /\ Dispatch \in Threads /\ Workers \subseteq Threads /\ Free \notin Threads
  /\ \A x \in Threads : x \in Workers \/ x = Dispatch
  /\ Dispatch \notin Workers
BY ThreadAssumption DEF Threads

\* Control points and messages: goto and beginSend.
LEMMA GotoType ==
  ASSUME ThreadType, NEW x \in Threads, NEW l,
         x = Dispatch => l \in DispatchPoints, x # Dispatch => l \in WorkerPoints,
         goto(x, l)
  PROVE  /\ pc' \in [Threads -> WorkerPoints \cup DispatchPoints]
         /\ pc'[Dispatch] \in DispatchPoints
         /\ \A y \in Workers : pc'[y] \in WorkerPoints
         /\ pc'[x] = l /\ \A y \in Threads \ {x} : pc'[y] = pc[y]
<1>1. l \in WorkerPoints \cup DispatchPoints
  OBVIOUS
<1>2. /\ pc' = [pc EXCEPT ![x] = l] /\ pc \in [Threads -> WorkerPoints \cup DispatchPoints]
      /\ pc[Dispatch] \in DispatchPoints
      /\ \A y \in Workers : pc[y] \in WorkerPoints
  BY DEF goto, ThreadType
<1>3. pc'[x] = l /\ \A y \in Threads \ {x} : pc'[y] = pc[y]
  BY <1>2
<1> QED BY <1>1, <1>2, <1>3, ThreadFacts

\* Where sendResponseRaw returns to, and the message that is left.
LEMMA ReturnPoint ==
  ASSUME NEW x \in Threads, NEW ok
  PROVE  /\ returnLabel(x, ok) \in {"free", "nitz", "nitzFree", "idle", "keepFree"}
         /\ x = Dispatch => returnLabel(x, ok) \in DispatchPoints
         /\ x # Dispatch => returnLabel(x, ok) \in WorkerPoints
BY DEF returnLabel, DispatchPoints, WorkerPoints

LEMMA EndSendType ==
  ASSUME ThreadType, NEW x \in Threads, NEW ok, endSend(x, ok),
         s_fdCommand' \in Fds \cup {-1}, s_writeMutex' \in Threads \cup {Free}
  PROVE  ThreadType'
<1>1. goto(x, returnLabel(x, ok))
  BY DEF endSend
<1>2. /\ pc' \in [Threads -> WorkerPoints \cup DispatchPoints]
      /\ pc'[Dispatch] \in DispatchPoints
      /\ \A y \in Workers : pc'[y] \in WorkerPoints
  BY <1>1, ReturnPoint, GotoType
<1>3. radioStateChanged \in Msgs
  BY DEF radioStateChanged, Msgs
<1>4. msg' \in [Threads -> Msgs] /\ fd' \in [Threads -> Fds \cup {-1}]
  BY <1>3 DEF endSend, ThreadType
<1> QED BY <1>2, <1>4 DEF ThreadType

LEMMA GotoThreadType ==
  ASSUME ThreadType, NEW x \in Threads, NEW l,
         x = Dispatch => l \in DispatchPoints, x # Dispatch => l \in WorkerPoints,
         goto(x, l),
         msg' \in [Threads -> Msgs], fd' \in [Threads -> Fds \cup {-1}],
         s_fdCommand' \in Fds \cup {-1}, s_writeMutex' \in Threads \cup {Free}
  PROVE  ThreadType'
BY GotoType DEF ThreadType

LEMMA BeginSendType ==
  ASSUME ThreadType, NEW x \in Threads, NEW m \in Msgs, beginSend(x, m),
         fd' = fd, s_fdCommand' \in Fds \cup {-1}, s_writeMutex' = s_writeMutex
  PROVE  ThreadType' /\ msg'[x] = m /\ pc'[x] = "send"
         /\ \A y \in Threads \ {x} : msg'[y] = msg[y] /\ pc'[y] = pc[y]
<1>1. "send" \in DispatchPoints /\ "send" \in WorkerPoints
  BY DEF DispatchPoints, WorkerPoints, SendPoints
<1>2. goto(x, "send") /\ msg' = [msg EXCEPT ![x] = m]
  BY DEF beginSend
<1>3. msg' \in [Threads -> Msgs]
  BY <1>2 DEF ThreadType
<1>4. ThreadType'
  BY <1>1, <1>2, <1>3, GotoThreadType DEF ThreadType
<1> QED BY <1>2, <1>4 DEF goto, ThreadType

LEMMA SendThreadType ==
  ASSUME ThreadType, NEW x \in Threads, sendResponseRaw(x)
  PROVE  ThreadType'
<1> USE DEF DispatchPoints, WorkerPoints, SendPoints
<1>1. CASE sendReadFd(x)
  <2>1. goto(x, "check") /\ fd' = [fd EXCEPT ![x] = s_fdCommand]
        /\ msg' = msg /\ s_fdCommand' = s_fdCommand /\ s_writeMutex' = s_writeMutex
    BY <1>1 DEF sendReadFd
  <2> QED BY <2>1, GotoThreadType DEF ThreadType
<1>2. CASE sendRefused(x)
  BY <1>2, EndSendType DEF sendRefused, ThreadType
<1>3. CASE sendAccepted(x)
  BY <1>3, GotoThreadType DEF sendAccepted, ThreadType
<1>4. CASE sendLock(x)
  BY <1>4, GotoThreadType DEF sendLock, ThreadType
<1>5. CASE writeHeader(x)
  BY <1>5, GotoThreadType DEF writeHeader, ThreadType
<1>6. CASE writePayload(x)
  BY <1>6, EndSendType DEF writePayload, ThreadType, doneUnlocked
<1>7. CASE writeKilled(x)
  BY <1>7 DEF writeKilled, ThreadType
<1>8. CASE writeError(x)
  BY <1>8, GotoThreadType DEF writeError, ThreadType
<1>9. CASE writeClose(x)
  BY <1>9, EndSendType DEF writeClose, ThreadType, errorUnlocked
<1> QED BY <1>1, <1>2, <1>3, <1>4, <1>5, <1>6, <1>7, <1>8, <1>9 DEF sendResponseRaw

LEMMA EndCompletePoint ==
  ASSUME ThreadType, NEW x \in Threads, endComplete(x),
         UNCHANGED <<msg, fd, s_fdCommand, s_writeMutex>>
  PROVE  ThreadType' /\ pc'[x] \in {"dequeue", "read", "idle"}
         /\ \A y \in Threads \ {x} : pc'[y] = pc[y]
<1> DEFINE l == IF x = Dispatch THEN IF again THEN "dequeue" ELSE "read" ELSE "idle"
<1>1. goto(x, l)
  BY DEF endComplete
<1>2. x = Dispatch => l \in DispatchPoints
  BY DEF DispatchPoints
<1>3. x # Dispatch => l \in WorkerPoints
  BY DEF WorkerPoints
<1>4. l \in {"dequeue", "read", "idle"}
  OBVIOUS
<1> HIDE DEF l
<1> QED BY <1>1, <1>2, <1>3, <1>4, GotoType, GotoThreadType DEF ThreadType

LEMMA CompleteThreadType ==
  ASSUME ThreadType, RequestType, NEW x \in Threads, RIL_onRequestComplete(x)
  PROVE  ThreadType'
<1> USE DEF DispatchPoints, WorkerPoints, SendPoints
<1>1. CASE dequeueFound(x)
  BY <1>1, GotoThreadType DEF dequeueFound, ThreadType
<1>2. CASE dequeueInvalid(x)
  BY <1>2, EndCompletePoint DEF dequeueInvalid
<1>3. CASE completeReport(x)
  <2>1. tok[x] \in Infos /\ info[tok[x]].id \in Nat
    BY <1>3 DEF completeReport, RequestType
  <2>2. <<"resp", info[tok[x]].id>> \in Msgs
    BY <2>1 DEF Msgs
  <2>3. s_fdCommand' \in Fds \cup {-1}
    BY <1>3 DEF completeReport, ThreadType
  <2> QED BY <1>3, <2>2, <2>3, BeginSendType DEF completeReport
<1>4. CASE completeCancelled(x)
  BY <1>4, GotoThreadType DEF completeCancelled, ThreadType
<1>5. CASE completeFree(x)
  BY <1>5, EndCompletePoint DEF completeFree
<1> QED BY <1>1, <1>2, <1>3, <1>4, <1>5 DEF RIL_onRequestComplete

LEMMA DispatchThreadType ==
  ASSUME ThreadType, RequestType, DispatchStep
  PROVE  ThreadType'
<1> USE ThreadFacts DEF DispatchPoints, WorkerPoints, SendPoints
<1>1. CASE listenCallback
  <2>1. radioStateChanged \in Msgs
    BY DEF radioStateChanged, Msgs
  <2>2. s_fdCommand' \in Fds \cup {-1}
    BY <1>1 DEF listenCallback
  <2> QED BY <1>1, <2>1, <2>2, BeginSendType DEF listenCallback
<1>2. CASE lastNitzSend
  <2>1. <<"nitz", s_lastNITZTimeData>> \in Msgs /\ s_fdCommand' \in Fds \cup {-1}
    BY <1>2 DEF Msgs, RequestType, lastNitzSend, ThreadType
  <2> QED BY <1>2, <2>1, BeginSendType DEF lastNitzSend
<1>3. CASE lastNitzNone
  BY <1>3, GotoThreadType DEF lastNitzNone, ThreadType
<1>4. CASE lastNitzFree
  BY <1>4, GotoThreadType DEF lastNitzFree, freeNitz, ThreadType
<1>5. CASE lastNitzNull
  BY <1>5, GotoThreadType DEF lastNitzNull, ThreadType
<1>6. CASE selectCommands \/ selectFails
  BY <1>6, GotoThreadType DEF selectCommands, selectFails, ThreadType
<1>7. CASE requestRefused \/ requestStuck \/ requestQueued
  BY <1>7 DEF requestRefused, requestStuck, requestQueued, ThreadType
<1>8. CASE requestInline
  BY <1>8, GotoThreadType DEF requestInline, ThreadType
<1>9. CASE readEagain
  BY <1>9, GotoThreadType DEF readEagain, ThreadType
<1>10. CASE closeCommand
  BY <1>10, GotoThreadType DEF closeCommand, ThreadType
<1>11. CASE resetCommand
  BY <1>11, GotoThreadType DEF resetCommand, ThreadType
<1>12. CASE onCommandsSocketClosed
  BY <1>12, GotoThreadType DEF onCommandsSocketClosed, ThreadType
<1> QED BY <1>1, <1>2, <1>3, <1>4, <1>5, <1>6, <1>7, <1>8, <1>9, <1>10, <1>11, <1>12
        DEF DispatchStep

LEMMA WorkerThreadType ==
  ASSUME ThreadType, RequestType, NEW x \in Workers, WorkerStep(x)
  PROVE  ThreadType'
<1> USE ThreadFacts DEF DispatchPoints, WorkerPoints, SendPoints
<1>1. CASE workerComplete(x)
  BY <1>1, GotoThreadType DEF workerComplete, ThreadType
<1>2. CASE onUnsolicitedNitz(x)
  <2>1. <<"nitz", nnitz + 1>> \in Msgs /\ s_fdCommand' \in Fds \cup {-1}
    BY <1>2 DEF Msgs, RequestType, onUnsolicitedNitz, ThreadType
  <2> QED BY <1>2, <2>1, BeginSendType DEF onUnsolicitedNitz
<1>3. CASE keepNitzFree(x)
  BY <1>3, GotoThreadType DEF keepNitzFree, freeNitz, ThreadType
<1>4. CASE keepNitz(x)
  <2>1. radioStateChanged \in Msgs
    BY DEF radioStateChanged, Msgs
  <2>2. msg' \in [Threads -> Msgs]
    BY <1>4, <2>1 DEF keepNitz, ThreadType
  <2> QED BY <1>4, <2>2, GotoThreadType DEF keepNitz, ThreadType
<1> QED BY <1>1, <1>2, <1>3, <1>4 DEF WorkerStep

\* A write that succeeds adds one entry to the stream of an open connection.
LEMMA Written ==
  ASSUME ThreadType, ConnType, NEW x \in Threads, NEW part \in {"hdr", "data", "junk"},
         writeDone(x, part)
  PROVE  \E c \in Conns :
           /\ c = connOf(fd[x]) /\ fd[x] \in Fds /\ file[fd[x]] = c
           /\ <<part, msg[x]>> \in Entries
           /\ stream' \in [Conns -> Seq(Entries)]
           /\ stream'[c] = Append(stream[c], <<part, msg[x]>>)
           /\ \A d \in Conns \ {c} : stream'[d] = stream[d]
<1> DEFINE c == connOf(fd[x])
<1>1. c # 0 /\ stream' = [stream EXCEPT ![c] = Append(stream[c], <<part, msg[x]>>)]
  BY DEF writeDone
<1>2. fd[x] \in Fds /\ file[fd[x]] = c /\ c \in 0 .. MaxConn
  BY <1>1 DEF connOf, ConnType
<1>3. c \in Conns
  BY <1>1, <1>2, BoundsAssumption DEF Conns
<1>4. <<part, msg[x]>> \in Entries
  BY DEF ThreadType, Entries
<1> HIDE DEF c
<1>5. stream \in [Conns -> Seq(Entries)] /\ Append(stream[c], <<part, msg[x]>>) \in Seq(Entries)
  BY <1>3, <1>4, AppendProperties DEF ConnType
<1>6. /\ stream' \in [Conns -> Seq(Entries)]
      /\ stream'[c] = Append(stream[c], <<part, msg[x]>>)
      /\ \A d \in Conns \ {c} : stream'[d] = stream[d]
  BY <1>1, <1>3, <1>5
<1> QED BY <1>2, <1>3, <1>4, <1>6 DEF c

LEMMA PayloadParts ==
  ASSUME NEW x \in Threads, NEW part \in payloads(x)
  PROVE  part \in {"data", "junk"}
BY DEF payloads

LEMMA ConnTypeNext ==
  ASSUME ThreadType, ConnType, [Next]_vars
  PROVE  ConnType'
<1> USE DEF ConnType
<1>1. ASSUME NEW x \in Threads, writeHeader(x) PROVE ConnType'
  BY <1>1, Written DEF writeHeader
<1>2. ASSUME NEW x \in Threads, writePayload(x) PROVE ConnType'
  BY <1>2, Written, PayloadParts DEF writePayload
<1>3. ASSUME NEW x \in Threads, writeClose(x) PROVE ConnType'
  BY <1>3, BoundsAssumption DEF writeClose
<1>4. ASSUME NEW x \in Threads,
             \/ sendReadFd(x) \/ sendRefused(x) \/ sendAccepted(x) \/ sendLock(x)
             \/ writeKilled(x) \/ writeError(x) \/ RIL_onRequestComplete(x)
      PROVE  UNCHANGED <<nconn, file, stream>>
  BY <1>4 DEF sendReadFd, sendRefused, sendAccepted, sendLock, writeKilled, writeError,
     RIL_onRequestComplete, dequeueFound, dequeueInvalid, completeReport,
     completeCancelled, completeFree
<1>5. CASE listenCallback
  <2>1. PICK f \in Fds : file' = [file EXCEPT ![f] = nconn + 1]
    BY <1>5 DEF listenCallback
  <2>2. nconn' = nconn + 1 /\ nconn < MaxConn /\ stream' = stream
    BY <1>5 DEF listenCallback
  <2> QED BY <2>1, <2>2, BoundsAssumption
<1>6. CASE closeCommand
  <2>1. /\ file' = [file EXCEPT ![s_fdCommand] = 0] /\ 0 \in 0 .. MaxConn
        /\ nconn' = nconn /\ stream' = stream
    BY <1>6, BoundsAssumption DEF closeCommand
  <2> QED BY <2>1
<1>7. CASE \/ lastNitzSend \/ lastNitzNone \/ lastNitzFree \/ lastNitzNull
           \/ selectCommands \/ selectFails
           \/ requestRefused \/ requestStuck \/ requestInline \/ requestQueued
           \/ readEagain \/ resetCommand \/ onCommandsSocketClosed
  BY <1>7 DEF lastNitzSend, lastNitzNone, lastNitzFree, lastNitzNull, freeNitz,
     selectCommands, selectFails, requestRefused, requestStuck, requestInline,
     requestQueued, readEagain, resetCommand, onCommandsSocketClosed
<1>8. ASSUME NEW x \in Workers, WorkerStep(x) PROVE UNCHANGED <<nconn, file, stream>>
  BY <1>8 DEF WorkerStep, workerComplete, onUnsolicitedNitz, keepNitzFree, freeNitz,
     keepNitz
<1>9. ASSUME NEW c \in Conns, clientSend(c) \/ clientEnd(c)
      PROVE  UNCHANGED <<nconn, file, stream>>
  BY <1>9 DEF clientSend, clientEnd
<1>10. CASE UNCHANGED vars
  BY <1>10 DEF vars
<1> QED BY <1>1, <1>2, <1>3, <1>4, <1>5, <1>6, <1>7, <1>8, <1>9, <1>10
        DEF Next, ThreadStep, DispatchNext, WorkerNext, ClientNext, sendResponseRaw,
            DispatchStep

LEMMA PushType ==
  ASSUME RequestType, NEW p \in Infos, pushRequest(p)
  PROVE  /\ info' \in [Infos -> [id : Nat, cancelled : BOOLEAN]]
         /\ allocated' \subseteq Infos /\ s_pendingRequests' \subseteq Infos
         /\ info'[p].id = nreq + 1 /\ info'[p].cancelled = FALSE
         /\ \A q \in Infos \ {p} : info'[q] = info[q]
<1> DEFINE new == [id |-> nreq + 1, cancelled |-> FALSE]
<1>1. info' = [info EXCEPT ![p] = new]
  BY DEF pushRequest
<1>2. new \in [id : Nat, cancelled : BOOLEAN] /\ new.id = nreq + 1 /\ new.cancelled = FALSE
  BY DEF RequestType
<1> HIDE DEF new
<1> QED BY <1>1, <1>2 DEF pushRequest, RequestType

LEMMA RequestTypeNext ==
  ASSUME ThreadType, RequestType, [Next]_vars
  PROVE  RequestType'
<1> USE DEF RequestType
<1>1. ASSUME NEW x \in Threads, sendResponseRaw(x) PROVE RequestType'
  <2>1. /\ UNCHANGED <<nreq, s_lastNITZTimeData, nnitz, info, allocated,
                       s_pendingRequests, tasks, tok>>
        /\ \A y \in Threads : pc'[y] = "complete" => pc[y] = "complete"
    BY <1>1 DEF sendResponseRaw, sendReadFd, sendRefused, sendAccepted, sendLock,
       writeHeader, writePayload, writeKilled, writeError, writeClose, goto, endSend,
       returnLabel, ThreadType
  <2> QED BY <2>1
<1>2. ASSUME NEW x \in Threads, RIL_onRequestComplete(x) PROVE RequestType'
  BY <1>2 DEF RIL_onRequestComplete, dequeueFound, dequeueInvalid, completeReport,
     completeCancelled, completeFree, endComplete, goto, beginSend, unlinked, ThreadType
<1>3. CASE \/ listenCallback \/ lastNitzSend \/ lastNitzNone \/ lastNitzFree
           \/ lastNitzNull \/ selectCommands \/ selectFails \/ readEagain \/ closeCommand
           \/ resetCommand
  <2>1. /\ UNCHANGED <<nreq, nnitz, info, allocated, s_pendingRequests, tasks, tok>>
        /\ s_lastNITZTimeData' \in {0, s_lastNITZTimeData}
        /\ \A y \in Threads : pc'[y] = "complete" => pc[y] = "complete"
    BY <1>3 DEF listenCallback, lastNitzSend, lastNitzNone, lastNitzFree, lastNitzNull,
       freeNitz, selectCommands, selectFails, readEagain, closeCommand, resetCommand,
       goto, beginSend, ThreadType
  <2> QED BY <2>1
<1>4. CASE requestRefused
  BY <1>4 DEF requestRefused, readRecord
<1>5. CASE requestStuck \/ requestInline \/ requestQueued
  <2>1. PICK p \in Infos :
          /\ pushRequest(p)
          /\ tok' \in {tok, [tok EXCEPT ![Dispatch] = p]}
          /\ tasks' \in {tasks, tasks \cup {p}}
    BY <1>5 DEF requestStuck, requestInline, requestQueued
  <2>2. /\ nreq' = nreq + 1 /\ s_lastNITZTimeData' = s_lastNITZTimeData /\ nnitz' = nnitz
        /\ \A y \in Threads : pc'[y] = "complete" => pc[y] = "complete" /\ y # Dispatch
    BY <1>5, ThreadFacts DEF requestStuck, requestInline, requestQueued, readRecord, goto,
       ThreadType
  <2>3. \A y \in Threads : pc'[y] = "complete" => tok'[y] \in Infos
    BY <2>1, <2>2
  <2>4. tok' \in [Threads -> Infos \cup {NULL}] /\ tasks' \subseteq Infos /\ nreq' \in Nat
    BY <2>1, <2>2
  <2>5. /\ info' \in [Infos -> [id : Nat, cancelled : BOOLEAN]]
        /\ allocated' \subseteq Infos /\ s_pendingRequests' \subseteq Infos
    BY <2>1, PushType
  <2> QED BY <2>2, <2>3, <2>4, <2>5
<1>6. CASE onCommandsSocketClosed
  <2>1. info' \in [Infos -> [id : Nat, cancelled : BOOLEAN]]
    BY <1>6 DEF onCommandsSocketClosed
  <2>2. /\ \A y \in Threads : pc'[y] = "complete" => pc[y] = "complete"
        /\ UNCHANGED <<nreq, s_lastNITZTimeData, nnitz, allocated, s_pendingRequests,
                       tasks, tok>>
    BY <1>6 DEF onCommandsSocketClosed, goto, ThreadType
  <2> QED BY <2>1, <2>2
<1>7. ASSUME NEW x \in Workers, WorkerStep(x) PROVE RequestType'
  <2>1. CASE workerComplete(x)
    BY <2>1, ThreadFacts DEF workerComplete, goto, ThreadType
  <2>2. CASE onUnsolicitedNitz(x)
    BY <2>2, ThreadFacts DEF onUnsolicitedNitz, goto, beginSend, ThreadType
  <2>3. CASE keepNitzFree(x)
    BY <2>3, ThreadFacts DEF keepNitzFree, freeNitz, goto, ThreadType
  <2>4. CASE keepNitz(x)
    <3>1. msg[x][2] \in Nat
      BY ThreadFacts DEF ThreadType, Msgs
    <3> QED BY <2>4, <3>1, ThreadFacts DEF keepNitz, goto, ThreadType
  <2> QED BY <1>7, <2>1, <2>2, <2>3, <2>4 DEF WorkerStep
<1>8. ASSUME NEW c \in Conns, clientSend(c) \/ clientEnd(c) PROVE RequestType'
  BY <1>8 DEF clientSend, clientEnd
<1>9. CASE UNCHANGED vars
  BY <1>9 DEF vars
<1> QED BY <1>1, <1>2, <1>3, <1>4, <1>5, <1>6, <1>7, <1>8, <1>9
        DEF Next, ThreadStep, DispatchNext, WorkerNext, ClientNext, DispatchStep

LEMMA TypesNext == ASSUME Types, [Next]_vars PROVE Types'
<1> USE DEF Types
<1>1. ASSUME NEW c \in Conns, clientSend(c) \/ clientEnd(c) PROVE ThreadType'
  BY <1>1 DEF clientSend, clientEnd, ThreadType
<1>2. CASE UNCHANGED vars
  BY <1>2, ConnTypeNext, RequestTypeNext DEF vars, ThreadType
<1>3. ThreadType'
  BY <1>1, <1>2, SendThreadType, CompleteThreadType, DispatchThreadType, WorkerThreadType
     DEF Next, ThreadStep, DispatchNext, WorkerNext, ClientNext
<1> QED BY <1>3, ConnTypeNext, RequestTypeNext

LEMMA InitTypes == ASSUME Init PROVE Types
<1>1. ThreadType
  <2>1. pc \in [Threads -> {"listen", "idle"}] /\ pc[Dispatch] = "listen"
        /\ \A x \in Workers : pc[x] = "idle"
    BY ThreadFacts DEF Init
  <2>2. radioStateChanged \in Msgs
    BY DEF radioStateChanged, Msgs
  <2> QED BY <2>1, <2>2 DEF Init, ThreadType, DispatchPoints, WorkerPoints
<1>2. ConnType
  BY BoundsAssumption, EmptySeq DEF Init, ConnType
<1>3. RequestType
  <2>1. \A x \in Threads : pc[x] # "complete"
    BY DEF Init
  <2> QED BY <2>1 DEF Init, RequestType
<1> QED BY <1>1, <1>2, <1>3 DEF Types

\* The state of the command socket keeps its types.
LEMMA Typing == Spec => []Types
<1>1. Init => Types
  BY InitTypes
<1>2. Types /\ [Next]_vars => Types'
  BY TypesNext
<1> QED BY <1>1, <1>2, PTL DEF Spec

-----------------------------------------------------------------------------
(* s_writeMutex.                                                           *)

LockPoints == {"hdr", "payload", "writeError"}

\* Only sendResponseRaw writes, locks and moves threads in or out of its
\* critical section; nothing else disturbs a thread in there.
LEMMA OutsideLock ==
  ASSUME Types,
         \/ \E x \in Threads : RIL_onRequestComplete(x)
         \/ DispatchStep
         \/ \E x \in Workers : WorkerStep(x)
         \/ \E c \in Conns : clientSend(c) \/ clientEnd(c)
         \/ UNCHANGED vars
  PROVE  /\ UNCHANGED <<stream, s_writeMutex, fd>>
         /\ \A y \in Threads : pc'[y] \in LockPoints <=> pc[y] \in LockPoints
         /\ \A y \in Threads : pc[y] \in LockPoints => pc'[y] = pc[y] /\ msg'[y] = msg[y]
<1> USE DEF Types, LockPoints
<1>1. ASSUME NEW x \in Threads, RIL_onRequestComplete(x)
      PROVE  /\ UNCHANGED <<stream, s_writeMutex, fd>>
             /\ \A y \in Threads : pc'[y] \in LockPoints <=> pc[y] \in LockPoints
             /\ \A y \in Threads :
                  pc[y] \in LockPoints => pc'[y] = pc[y] /\ msg'[y] = msg[y]
  BY <1>1 DEF RIL_onRequestComplete, dequeueFound, dequeueInvalid, completeReport,
     completeCancelled, completeFree, endComplete, goto, beginSend, ThreadType
<1>2. ASSUME DispatchStep
      PROVE  /\ UNCHANGED <<stream, s_writeMutex, fd>>
             /\ \A y \in Threads : pc'[y] \in LockPoints <=> pc[y] \in LockPoints
             /\ \A y \in Threads :
                  pc[y] \in LockPoints => pc'[y] = pc[y] /\ msg'[y] = msg[y]
  <2>1. CASE listenCallback \/ lastNitzSend \/ lastNitzNone \/ lastNitzFree \/ lastNitzNull
    BY <2>1 DEF listenCallback, lastNitzSend, lastNitzNone, lastNitzFree, lastNitzNull,
       freeNitz, goto, beginSend, ThreadType
  <2>2. CASE \/ selectCommands \/ selectFails \/ readEagain \/ closeCommand \/ resetCommand
             \/ onCommandsSocketClosed
    BY <2>2 DEF selectCommands, selectFails, readEagain, closeCommand, resetCommand,
       onCommandsSocketClosed, goto, ThreadType
  <2>3. CASE requestRefused \/ requestStuck \/ requestInline \/ requestQueued
    BY <2>3 DEF requestRefused, requestStuck, requestInline, requestQueued, readRecord,
       goto, ThreadType
  <2> QED BY <1>2, <2>1, <2>2, <2>3 DEF DispatchStep
<1>3. ASSUME NEW x \in Workers, WorkerStep(x)
      PROVE  /\ UNCHANGED <<stream, s_writeMutex, fd>>
             /\ \A y \in Threads : pc'[y] \in LockPoints <=> pc[y] \in LockPoints
             /\ \A y \in Threads :
                  pc[y] \in LockPoints => pc'[y] = pc[y] /\ msg'[y] = msg[y]
  BY <1>3, ThreadFacts DEF WorkerStep, workerComplete, onUnsolicitedNitz, keepNitzFree,
     freeNitz, keepNitz, goto, beginSend, ThreadType
<1>4. ASSUME NEW c \in Conns, clientSend(c) \/ clientEnd(c)
      PROVE  UNCHANGED <<stream, s_writeMutex, fd, pc, msg>>
  BY <1>4 DEF clientSend, clientEnd
<1>5. CASE UNCHANGED vars
  BY <1>5 DEF vars
<1> QED BY <1>1, <1>2, <1>3, <1>4, <1>5

LEMMA MutexNext ==
  ASSUME Types, WriteMutexNotLeaked, [Next]_vars
  PROVE  WriteMutexNotLeaked'
<1> USE DEF Types
<1>1. ASSUME NEW x \in Threads, sendResponseRaw(x) PROVE WriteMutexNotLeaked'
  <2>1. CASE sendReadFd(x) \/ sendRefused(x) \/ sendAccepted(x)
    BY <2>1 DEF sendReadFd, sendRefused, sendAccepted, endSend, goto, returnLabel,
       ThreadType, WriteMutexNotLeaked
  <2>2. CASE sendLock(x)
    BY <2>2, ThreadFacts DEF sendLock, canLock, goto, ThreadType, WriteMutexNotLeaked
  <2>3. CASE writeHeader(x) \/ writeKilled(x) \/ writeError(x)
    BY <2>3 DEF writeHeader, writeKilled, writeError, goto, ThreadType,
       WriteMutexNotLeaked
  <2>4. CASE writePayload(x) \/ writeClose(x)
    <3>1. s_writeMutex' = Free /\ s_writeMutex = x
      BY <2>4 DEF writePayload, writeClose, doneUnlocked, errorUnlocked,
         WriteMutexNotLeaked
    <3>2. \A y \in Threads : pc'[y] \notin {"hdr", "payload", "writeError"}
      BY <2>4, <3>1 DEF writePayload, writeClose, endSend, goto, returnLabel, ThreadType,
         WriteMutexNotLeaked
    <3> QED BY <3>1, <3>2, ThreadFacts DEF WriteMutexNotLeaked
  <2> QED BY <1>1, <2>1, <2>2, <2>3, <2>4 DEF sendResponseRaw
<1>2. CASE \/ \E x \in Threads : RIL_onRequestComplete(x)
           \/ DispatchStep
           \/ \E x \in Workers : WorkerStep(x)
           \/ \E c \in Conns : clientSend(c) \/ clientEnd(c)
           \/ UNCHANGED vars
  BY <1>2, OutsideLock DEF WriteMutexNotLeaked, LockPoints
<1> QED BY <1>1, <1>2 DEF Next, ThreadStep, DispatchNext, WorkerNext, ClientNext

\* s_writeMutex is held exactly while one thread is between the lock and an
\* unlock of sendResponseRaw, whatever fails on the way.
THEOREM WriteMutexHeld == Spec => []WriteMutexNotLeaked
<1>1. Init => WriteMutexNotLeaked
  BY ThreadFacts DEF Init, WriteMutexNotLeaked
<1>2. Types /\ WriteMutexNotLeaked /\ [Next]_vars => WriteMutexNotLeaked'
  BY MutexNext
<1> QED BY <1>1, <1>2, Typing, PTL DEF Spec

-----------------------------------------------------------------------------
(* The frames.                                                             *)

lastEntry(c) == stream[c][Len(stream[c])]

\* A connection has one descriptor at most; the ones to come have no entries.
FileInv ==
  /\ \A f, g \in Fds : file[f] # 0 /\ file[f] = file[g] => f = g
  /\ \A f \in Fds : file[f] <= nconn
  /\ \A c \in Conns : c > nconn => stream[c] = <<>>

\* A header that is the last entry of a connection one can still write to was
\* written by the thread that has the mutex, and a thread about to write a
\* payload finds its own header, or nothing.
HeaderInv ==
  /\ \A f \in Fds :
       file[f] # 0 /\ stream[file[f]] # <<>> /\ lastEntry(file[f])[1] = "hdr" =>
         \E x \in Threads : pc[x] \in {"payload", "writeError"} /\ fd[x] = f
  /\ \A x \in Threads : \A c \in Conns :
       pc[x] = "payload" /\ connOf(fd[x]) = c /\ stream[c] # <<>> =>
         lastEntry(c) = <<"hdr", msg[x]>>

FrameInv == FileInv /\ HeaderInv /\ FramesNotMixed

\* An entry that may follow the last one keeps the frames apart.
LEMMA FrameAppended ==
  ASSUME ConnType, FramesNotMixed, NEW c \in Conns, NEW e \in Entries,
         stream' \in [Conns -> Seq(Entries)], stream'[c] = Append(stream[c], e),
         \A d \in Conns \ {c} : stream'[d] = stream[d],
         stream[c] # <<>> =>
           /\ lastEntry(c)[1] = "hdr" => e[1] # "hdr"
           /\ e[1] # "hdr" => lastEntry(c) = <<"hdr", e[2]>>
  PROVE  /\ FramesNotMixed'
         /\ stream'[c] # <<>> /\ stream'[c][Len(stream'[c])] = e
<1>1. stream[c] \in Seq(Entries) /\ Len(stream[c]) \in Nat
  BY LenProperties DEF ConnType
<1>2. /\ Len(stream'[c]) = Len(stream[c]) + 1 /\ stream'[c] # <<>>
      /\ \A i \in 1 .. Len(stream[c]) : stream'[c][i] = stream[c][i]
      /\ stream'[c][Len(stream[c]) + 1] = e
  BY <1>1, AppendProperties
<1>3. ASSUME NEW i \in 1 .. Len(stream[c])
      PROVE  /\ stream'[c][i][1] = "hdr" => stream'[c][i + 1][1] # "hdr"
             /\ stream'[c][i + 1][1] # "hdr" =>
                  stream'[c][i] = <<"hdr", stream'[c][i + 1][2]>>
  <2>1. CASE i = Len(stream[c])
    <3>1. stream[c] # <<>> /\ stream'[c][i] = lastEntry(c) /\ stream'[c][i + 1] = e
      BY <1>1, <1>2, <2>1 DEF lastEntry
    <3> QED BY <3>1
  <2>2. CASE i # Len(stream[c])
    <3>1. i \in 1 .. Len(stream[c]) - 1 /\ i + 1 \in 1 .. Len(stream[c])
      BY <1>1, <2>2
    <3>2. stream'[c][i] = stream[c][i] /\ stream'[c][i + 1] = stream[c][i + 1]
      BY <1>2, <3>1
    <3> QED BY <3>1, <3>2 DEF FramesNotMixed
  <2> QED BY <2>1, <2>2
<1>4. FramesNotMixed'
  <2>1. ASSUME NEW d \in Conns, NEW i \in 1 .. Len(stream'[d]) - 1
        PROVE  /\ stream'[d][i][1] = "hdr" => stream'[d][i + 1][1] # "hdr"
               /\ stream'[d][i + 1][1] # "hdr" =>
                    stream'[d][i] = <<"hdr", stream'[d][i + 1][2]>>
    <3>1. CASE d = c
      <4>1. i \in 1 .. Len(stream'[c]) - 1 BY <3>1
      <4>2. i \in 1 .. Len(stream[c]) BY <1>1, <1>2, <4>1
      <4> QED BY <1>3, <3>1, <4>2, Zenon
    <3>2. CASE d # c
      BY <3>2 DEF FramesNotMixed
    <3> QED BY <3>1, <3>2
  <2> QED BY <2>1 DEF FramesNotMixed
<1> QED BY <1>1, <1>2, <1>4

\* Steps that write nothing, change no descriptor and keep the threads that
\* are about to write a payload or to close a descriptor.
LEMMA FrameUntouched ==
  ASSUME Types, FrameInv, UNCHANGED <<stream, file, nconn>>,
         \A y \in Threads : pc'[y] = "payload" =>
           pc[y] = "payload" /\ msg'[y] = msg[y] /\ fd'[y] = fd[y],
         \A y \in Threads : pc[y] \in {"payload", "writeError"} =>
           pc'[y] \in {"payload", "writeError"} /\ fd'[y] = fd[y]
  PROVE  FrameInv'
<1>1. FramesNotMixed'
  BY DEF FrameInv, FramesNotMixed
<1>2. FileInv'
  BY DEF FrameInv, FileInv
<1>3. ASSUME NEW f \in Fds, (file[f] # 0)', (stream[file[f]] # <<>>)',
             (lastEntry(file[f])[1] = "hdr")'
      PROVE  \E x \in Threads : pc'[x] \in {"payload", "writeError"} /\ fd'[x] = f
  <2>1. file[f] # 0 /\ stream[file[f]] # <<>> /\ lastEntry(file[f])[1] = "hdr"
    BY <1>3 DEF lastEntry
  <2>2. PICK x \in Threads : pc[x] \in {"payload", "writeError"} /\ fd[x] = f
    BY <2>1 DEF FrameInv, HeaderInv
  <2> QED BY <2>2
<1>4. ASSUME NEW x \in Threads, NEW c \in Conns, pc'[x] = "payload", (connOf(fd[x]) = c)',
             stream'[c] # <<>>
      PROVE  (lastEntry(c) = <<"hdr", msg[x]>>)'
  <2>1. pc[x] = "payload" /\ connOf(fd[x]) = c /\ stream[c] # <<>> /\ msg'[x] = msg[x]
    BY <1>4 DEF connOf
  <2>2. lastEntry(c) = <<"hdr", msg[x]>>
    BY <2>1 DEF FrameInv, HeaderInv
  <2> QED BY <2>1, <2>2 DEF lastEntry
<1>5. HeaderInv'
  BY <1>3, <1>4 DEF HeaderInv
<1> QED BY <1>1, <1>2, <1>5 DEF FrameInv

LEMMA HeaderWritten ==
  ASSUME Types, WriteMutexNotLeaked, FrameInv, NEW x \in Threads, writeHeader(x)
  PROVE  FrameInv'
<1> USE DEF Types
<1>1. PICK c \in Conns :
         /\ c = connOf(fd[x]) /\ fd[x] \in Fds /\ file[fd[x]] = c
         /\ <<"hdr", msg[x]>> \in Entries
         /\ stream' \in [Conns -> Seq(Entries)]
         /\ stream'[c] = Append(stream[c], <<"hdr", msg[x]>>)
         /\ \A d \in Conns \ {c} : stream'[d] = stream[d]
  BY Written DEF writeHeader
<1>2. /\ pc[x] = "hdr" /\ UNCHANGED <<file, nconn, msg, fd>>
      /\ pc'[x] = "payload" /\ \A y \in Threads \ {x} : pc'[y] = pc[y]
  BY DEF writeHeader, goto, ThreadType
<1>3. \A y \in Threads \ {x} : pc[y] \notin {"hdr", "payload", "writeError"}
  BY <1>2 DEF WriteMutexNotLeaked
<1>4. stream[c] # <<>> => lastEntry(c)[1] # "hdr"
  <2>1. file[fd[x]] # 0
    BY <1>1, BoundsAssumption DEF Conns
  <2> QED BY <1>1, <1>2, <1>3, <2>1 DEF FrameInv, HeaderInv
<1> DEFINE e == <<"hdr", msg[x]>>
<1>5. FramesNotMixed' /\ stream'[c] # <<>> /\ lastEntry(c)' = e
  <2>1. e \in Entries /\ e[1] = "hdr" /\ stream'[c] = Append(stream[c], e)
    BY <1>1
  <2> HIDE DEF e
  <2>2. FramesNotMixed' /\ stream'[c] # <<>> /\ stream'[c][Len(stream'[c])] = e
    BY <1>1, <1>4, <2>1, FrameAppended DEF FrameInv
  <2> QED BY <2>2 DEF lastEntry
<1>6. FileInv'
  <2>1. c <= nconn
    BY <1>1 DEF FrameInv, FileInv
  <2>2. \A d \in Conns : d > nconn => d # c
    BY <2>1 DEF ConnType, Conns
  <2> QED BY <1>1, <1>2, <2>2 DEF FrameInv, FileInv
<1>7. HeaderInv'
  <2>1. ASSUME NEW f \in Fds, (file[f] # 0)', (stream[file[f]] # <<>>)',
               (lastEntry(file[f])[1] = "hdr")'
        PROVE  \E y \in Threads : pc'[y] \in {"payload", "writeError"} /\ fd'[y] = f
    <3>1. CASE f = fd[x]
      BY <1>2, <3>1
    <3>2. CASE f # fd[x]
      <4>1. file[f] \in Conns /\ file[f] # c
        BY <1>1, <1>2, <2>1, <3>2, BoundsAssumption DEF FrameInv, FileInv, ConnType, Conns
      <4>2. stream'[file[f]] = stream[file[f]]
        BY <1>1, <4>1
      <4>3. stream[file[f]] # <<>> /\ lastEntry(file[f])[1] = "hdr"
        BY <1>2, <2>1, <4>2 DEF lastEntry
      <4>4. PICK y \in Threads : pc[y] \in {"payload", "writeError"} /\ fd[y] = f
        BY <1>2, <2>1, <4>3 DEF FrameInv, HeaderInv
      <4> QED BY <1>2, <1>3, <4>4
    <3> QED BY <3>1, <3>2
  <2>2. ASSUME NEW y \in Threads, NEW d \in Conns, pc'[y] = "payload",
               (connOf(fd[y]) = d)', stream'[d] # <<>>
        PROVE  (lastEntry(d) = <<"hdr", msg[y]>>)'
    <3>1. y = x
      BY <1>2, <1>3, <2>2
    <3>2. d = c
      BY <1>1, <1>2, <2>2, <3>1 DEF connOf
    <3> QED BY <1>2, <1>5, <3>1, <3>2
  <2> QED BY <2>1, <2>2 DEF HeaderInv
<1> QED BY <1>5, <1>6, <1>7 DEF FrameInv

LEMMA PayloadWritten ==
  ASSUME Types, WriteMutexNotLeaked, FrameInv, NEW x \in Threads, writePayload(x)
  PROVE  FrameInv'
<1> USE DEF Types
<1>1. PICK part \in {"data", "junk"} : writeDone(x, part)
  BY PayloadParts DEF writePayload
<1> DEFINE e == <<part, msg[x]>>
<1>2. PICK c \in Conns :
         /\ c = connOf(fd[x]) /\ fd[x] \in Fds /\ file[fd[x]] = c
         /\ e \in Entries
         /\ stream' \in [Conns -> Seq(Entries)]
         /\ stream'[c] = Append(stream[c], e)
         /\ \A d \in Conns \ {c} : stream'[d] = stream[d]
  BY <1>1, Written, ZenonT(60)
<1>3. /\ pc[x] = "payload" /\ UNCHANGED <<file, nconn>>
      /\ pc'[x] \notin {"hdr", "payload", "writeError"}
      /\ \A y \in Threads \ {x} : pc'[y] = pc[y]
  BY DEF writePayload, endSend, goto, returnLabel, ThreadType
<1>4. \A y \in Threads \ {x} : pc[y] \notin {"hdr", "payload", "writeError"}
  BY <1>3 DEF WriteMutexNotLeaked
<1>5. stream[c] # <<>> => lastEntry(c) = <<"hdr", msg[x]>>
  BY <1>2, <1>3 DEF FrameInv, HeaderInv
<1>6. FramesNotMixed' /\ stream'[c] # <<>> /\ lastEntry(c)' = e
  <2>1. e[1] # "hdr" /\ e[2] = msg[x]
    OBVIOUS
  <2> HIDE DEF e
  <2>2. stream[c] # <<>> => lastEntry(c) = <<"hdr", e[2]>>
    BY <1>5, <2>1
  <2>3. FramesNotMixed' /\ stream'[c] # <<>> /\ stream'[c][Len(stream'[c])] = e
    BY <1>2, <2>1, <2>2, FrameAppended DEF FrameInv
  <2> QED BY <2>3 DEF lastEntry
<1>7. FileInv'
  <2>1. c <= nconn
    BY <1>2 DEF FrameInv, FileInv
  <2>2. \A d \in Conns : d > nconn => d # c
    BY <2>1 DEF ConnType, Conns
  <2> QED BY <1>2, <1>3, <2>2 DEF FrameInv, FileInv
<1>8. HeaderInv'
  <2>1. ASSUME NEW f \in Fds, (file[f] # 0)', (stream[file[f]] # <<>>)',
               (lastEntry(file[f])[1] = "hdr")'
        PROVE  FALSE
    <3>1. file[f] # c
      <4>1. e[1] # "hdr"
        OBVIOUS
      <4> QED BY <1>3, <1>6, <2>1, <4>1
    <3>2. file[f] \in Conns
      BY <1>3, <2>1, BoundsAssumption DEF ConnType, Conns
    <3>3. stream'[file[f]] = stream[file[f]]
      BY <1>2, <3>1, <3>2
    <3>4. stream[file[f]] # <<>> /\ lastEntry(file[f])[1] = "hdr"
      BY <1>3, <2>1, <3>3 DEF lastEntry
    <3>5. PICK y \in Threads : pc[y] \in {"payload", "writeError"} /\ fd[y] = f
      BY <1>3, <2>1, <3>4 DEF FrameInv, HeaderInv
    <3> QED BY <1>2, <1>4, <3>1, <3>5
  <2>2. \A y \in Threads : pc'[y] # "payload"
    BY <1>3, <1>4
  <2> QED BY <2>1, <2>2 DEF HeaderInv
<1> QED BY <1>6, <1>7, <1>8 DEF FrameInv

LEMMA DescriptorClosed ==
  ASSUME Types, WriteMutexNotLeaked, FrameInv, NEW x \in Threads, writeClose(x)
  PROVE  FrameInv'
<1> USE DEF Types
<1>1. /\ pc[x] = "writeError" /\ UNCHANGED <<stream, nconn>>
      /\ pc'[x] \notin {"hdr", "payload", "writeError"}
      /\ \A y \in Threads \ {x} : pc'[y] = pc[y]
      /\ \A f \in Fds : file'[f] = IF f = fd[x] THEN 0 ELSE file[f]
  BY DEF writeClose, endSend, goto, returnLabel, ThreadType
<1>2. \A y \in Threads \ {x} : pc[y] \notin {"hdr", "payload", "writeError"}
  BY <1>1 DEF WriteMutexNotLeaked
<1>3. FramesNotMixed'
  BY <1>1 DEF FrameInv, FramesNotMixed
<1>4. FileInv'
  BY <1>1 DEF FrameInv, FileInv, ConnType
<1>5. HeaderInv'
  <2>1. ASSUME NEW f \in Fds, (file[f] # 0)', (stream[file[f]] # <<>>)',
               (lastEntry(file[f])[1] = "hdr")'
        PROVE  FALSE
    <3>1. f # fd[x] /\ file'[f] = file[f]
      BY <1>1, <2>1
    <3>2. file[f] # 0 /\ stream[file[f]] # <<>> /\ lastEntry(file[f])[1] = "hdr"
      BY <1>1, <2>1, <3>1 DEF lastEntry
    <3>3. PICK y \in Threads : pc[y] \in {"payload", "writeError"} /\ fd[y] = f
      BY <3>2 DEF FrameInv, HeaderInv
    <3> QED BY <1>2, <3>1, <3>3
  <2>2. \A y \in Threads : pc'[y] # "payload"
    BY <1>1, <1>2
  <2> QED BY <2>1, <2>2 DEF HeaderInv
<1> QED BY <1>3, <1>4, <1>5 DEF FrameInv

\* Descriptors opened or closed by the dispatch thread while others write.
LEMMA CommandOpenedOrClosed ==
  ASSUME Types, FrameInv, listenCallback \/ closeCommand
  PROVE  FrameInv'
<1> USE DEF Types
<1>1. /\ UNCHANGED <<stream, fd>>
      /\ \A y \in Threads : pc[y] \in LockPoints <=> pc'[y] \in LockPoints
      /\ \A y \in Threads : pc[y] \in LockPoints => pc'[y] = pc[y] /\ msg'[y] = msg[y]
  BY OutsideLock DEF DispatchStep
<1>2. FramesNotMixed'
  BY <1>1 DEF FrameInv, FramesNotMixed
\* The descriptor that changes, and what it then refers to.
<1>3. PICK g, new : /\ \A f \in Fds : file'[f] = IF f = g THEN new ELSE file[f]
                    /\ \/ new = 0 /\ nconn' = nconn
                       \/ new = nconn + 1 /\ nconn' = nconn + 1 /\ new \in Conns
  <2>1. CASE listenCallback
    <3>1. PICK f \in Fds : file' = [file EXCEPT ![f] = nconn + 1]
      BY <2>1 DEF listenCallback
    <3>2. nconn' = nconn + 1 /\ nconn + 1 \in Conns
      BY <2>1, BoundsAssumption DEF listenCallback, ConnType, Conns
    <3>3. \A h \in Fds : file'[h] = IF h = f THEN nconn + 1 ELSE file[h]
      BY <3>1 DEF ConnType
    <3> QED BY <3>2, <3>3
  <2>2. CASE closeCommand
    <3>1. file' = [file EXCEPT ![s_fdCommand] = 0] /\ nconn' = nconn
      BY <2>2 DEF closeCommand
    <3>2. \A h \in Fds : file'[h] = IF h = s_fdCommand THEN 0 ELSE file[h]
      BY <3>1 DEF ConnType
    <3> QED BY <3>1, <3>2
  <2> QED BY <2>1, <2>2
<1>4. new # 0 => stream[new] = <<>> /\ \A f \in Fds : file[f] # new
  BY <1>3 DEF FrameInv, FileInv, ConnType, Conns
<1>5. FileInv'
  <2>1. \A f \in Fds : file'[f] <= nconn'
    BY <1>3 DEF FrameInv, FileInv, ConnType
  <2>2. \A c \in Conns : c > nconn' => stream'[c] = <<>>
    BY <1>1, <1>3 DEF FrameInv, FileInv, ConnType, Conns
  <2>3. \A f, h \in Fds : file'[f] # 0 /\ file'[f] = file'[h] => f = h
    BY <1>3, <1>4 DEF FrameInv, FileInv
  <2> QED BY <2>1, <2>2, <2>3 DEF FileInv
<1>6. HeaderInv'
  <2>1. ASSUME NEW f \in Fds, (file[f] # 0)', (stream[file[f]] # <<>>)',
               (lastEntry(file[f])[1] = "hdr")'
        PROVE  \E y \in Threads : pc'[y] \in {"payload", "writeError"} /\ fd'[y] = f
    <3>1. file'[f] = file[f]
      BY <1>1, <1>3, <1>4, <2>1
    <3>2. file[f] # 0 /\ stream[file[f]] # <<>> /\ lastEntry(file[f])[1] = "hdr"
      BY <1>1, <2>1, <3>1 DEF lastEntry
    <3>3. PICK y \in Threads : pc[y] \in {"payload", "writeError"} /\ fd[y] = f
      BY <3>2 DEF FrameInv, HeaderInv
    <3> QED BY <1>1, <3>3 DEF LockPoints
  <2>2. ASSUME NEW y \in Threads, NEW c \in Conns, pc'[y] = "payload",
               (connOf(fd[y]) = c)', stream'[c] # <<>>
        PROVE  (lastEntry(c) = <<"hdr", msg[y]>>)'
    <3>1. pc[y] = "payload" /\ msg'[y] = msg[y]
      BY <1>1, <2>2 DEF LockPoints
    <3>2. c # 0 /\ fd[y] \in Fds /\ file'[fd[y]] = c
      BY <1>1, <2>2, BoundsAssumption DEF connOf, Conns
    <3>3. file'[fd[y]] = file[fd[y]]
      BY <1>1, <1>3, <1>4, <2>2, <3>2
    <3>4. connOf(fd[y]) = c /\ stream[c] # <<>>
      BY <1>1, <2>2, <3>2, <3>3 DEF connOf
    <3>5. lastEntry(c) = <<"hdr", msg[y]>>
      BY <3>1, <3>4 DEF FrameInv, HeaderInv
    <3> QED BY <1>1, <3>1, <3>5 DEF lastEntry
  <2> QED BY <2>1, <2>2 DEF HeaderInv
<1> QED BY <1>2, <1>5, <1>6 DEF FrameInv

LEMMA FrameNext ==
  ASSUME Types, WriteMutexNotLeaked, FrameInv, [Next]_vars
  PROVE  FrameInv'
<1> USE DEF Types
<1>1. ASSUME NEW x \in Threads, sendResponseRaw(x) PROVE FrameInv'
  <2>1. CASE sendReadFd(x)
    <3>1. /\ UNCHANGED <<stream, file, nconn, msg>> /\ pc[x] = "send" /\ pc'[x] = "check"
          /\ \A y \in Threads \ {x} : pc'[y] = pc[y] /\ fd'[y] = fd[y]
      BY <2>1 DEF sendReadFd, goto, ThreadType
    <3> QED BY <3>1, FrameUntouched
  <2>2. CASE sendRefused(x)
    <3>1. /\ UNCHANGED <<stream, file, nconn>> /\ pc[x] = "check"
          /\ pc'[x] \notin {"payload", "writeError"}
          /\ \A y \in Threads \ {x} : pc'[y] = pc[y] /\ fd'[y] = fd[y] /\ msg'[y] = msg[y]
      BY <2>2 DEF sendRefused, endSend, goto, returnLabel, ThreadType
    <3> QED BY <3>1, FrameUntouched
  <2>3. CASE sendAccepted(x) \/ sendLock(x)
    <3>1. /\ UNCHANGED <<stream, file, nconn, msg, fd>> /\ pc[x] \in {"check", "lock"}
          /\ pc'[x] \in {"lock", "hdr"} /\ \A y \in Threads \ {x} : pc'[y] = pc[y]
      BY <2>3 DEF sendAccepted, sendLock, goto, ThreadType
    <3> QED BY <3>1, FrameUntouched
  <2>4. CASE writeKilled(x) \/ writeError(x)
    <3>1. /\ UNCHANGED <<stream, file, nconn, msg, fd>>
          /\ pc'[x] \in {pc[x], "writeError"} /\ \A y \in Threads \ {x} : pc'[y] = pc[y]
      BY <2>4 DEF writeKilled, writeError, goto, ThreadType
    <3> QED BY <3>1, FrameUntouched
  <2> QED BY <1>1, <2>1, <2>2, <2>3, <2>4, HeaderWritten, PayloadWritten, DescriptorClosed
          DEF sendResponseRaw
<1>2. ASSUME \/ \E x \in Threads : RIL_onRequestComplete(x)
             \/ DispatchStep
             \/ \E x \in Workers : WorkerStep(x)
             \/ \E c \in Conns : clientSend(c) \/ clientEnd(c)
             \/ UNCHANGED vars,
             UNCHANGED <<file, nconn>>
      PROVE  FrameInv'
  <2>1. /\ UNCHANGED <<stream, fd>>
        /\ \A y \in Threads : pc[y] \in LockPoints <=> pc'[y] \in LockPoints
        /\ \A y \in Threads : pc[y] \in LockPoints => pc'[y] = pc[y] /\ msg'[y] = msg[y]
    BY <1>2, OutsideLock
  <2> QED BY <1>2, <2>1, FrameUntouched DEF LockPoints
<1>3. ASSUME NEW x \in Threads, RIL_onRequestComplete(x) PROVE UNCHANGED <<file, nconn>>
  BY <1>3 DEF RIL_onRequestComplete, dequeueFound, dequeueInvalid, completeReport,
     completeCancelled, completeFree
<1>4. CASE \/ lastNitzSend \/ lastNitzNone \/ lastNitzFree \/ lastNitzNull
           \/ selectCommands \/ selectFails
           \/ requestRefused \/ requestStuck \/ requestInline \/ requestQueued
           \/ readEagain \/ resetCommand \/ onCommandsSocketClosed
  <2>1. DispatchStep
    BY <1>4 DEF DispatchStep
  <2>2. UNCHANGED <<file, nconn>>
    BY <1>4 DEF lastNitzSend, lastNitzNone, lastNitzFree, lastNitzNull, freeNitz,
       selectCommands, selectFails, requestRefused, requestStuck, requestInline,
       requestQueued, readEagain, resetCommand, onCommandsSocketClosed
  <2> QED BY <1>2, <2>1, <2>2
<1>5. ASSUME NEW x \in Workers, WorkerStep(x) PROVE UNCHANGED <<file, nconn>>
  BY <1>5 DEF WorkerStep, workerComplete, onUnsolicitedNitz, keepNitzFree, freeNitz,
     keepNitz
<1>6. ASSUME NEW c \in Conns, clientSend(c) \/ clientEnd(c) PROVE UNCHANGED <<file, nconn>>
  BY <1>6 DEF clientSend, clientEnd
<1>7. UNCHANGED vars => UNCHANGED <<file, nconn>>
  BY DEF vars
<1>8. DispatchStep => FrameInv'
  BY <1>4, CommandOpenedOrClosed DEF DispatchStep
<1> QED BY <1>1, <1>2, <1>3, <1>5, <1>6, <1>7, <1>8
        DEF Next, ThreadStep, DispatchNext, WorkerNext, ClientNext

LEMMA InitFrames == ASSUME Init PROVE FrameInv
<1>1. \A c \in Conns : stream[c] = <<>> /\ Len(stream[c]) = 0
  BY EmptySeq DEF Init
<1>2. \A f \in Fds : file[f] = 0
  BY DEF Init
<1>3. \A x \in Threads : pc[x] # "payload"
  BY DEF Init
<1>4. FileInv
  BY <1>1, <1>2 DEF Init, FileInv
<1>5. HeaderInv
  BY <1>2, <1>3 DEF HeaderInv
<1>6. FramesNotMixed
  BY <1>1 DEF FramesNotMixed
<1> QED BY <1>4, <1>5, <1>6 DEF FrameInv

\* The frames of two responses never mix on a connection, whatever threads
\* send them, whatever fails, and however descriptors are closed and reused
\* under a sender (sendResponseRaw, blockingWrite, s_writeMutex).
THEOREM FramesApart == Spec => []FramesNotMixed
<1>1. Init => FrameInv
  BY InitFrames
<1>2. Types /\ WriteMutexNotLeaked /\ FrameInv /\ [Next]_vars => FrameInv'
  BY FrameNext
<1>3. FrameInv => FramesNotMixed
  BY DEF FrameInv
<1> QED BY <1>1, <1>2, <1>3, Typing, WriteMutexHeld, PTL DEF Spec

-----------------------------------------------------------------------------
(* The RequestInfos.                                                       *)

\* x is sending the answer to a request; x has a live RequestInfo in hand.
Replies(x) == Sending(x) /\ msg[x][1] = "resp"
Holds(x) == Completing(x) \/ (pc[x] = "dequeue" /\ tok[x] \in allocated)

\* What the vendor RIL still has is on the list, what is on the list is
\* allocated, and no two live RequestInfos are for the same request.
ListInv ==
  /\ tasks \subseteq s_pendingRequests /\ s_pendingRequests \subseteq allocated
  /\ \A p \in allocated : info[p].id <= nreq
  /\ \A p, q \in allocated : info[p].id = info[q].id => p = q

\* A thread about to dequeue has its request on the list, except the dispatch
\* thread when the vendor RIL completes a second time; one that has dequeued
\* has the RequestInfo to itself.
HolderInv ==
  /\ \A x \in Threads : pc[x] = "dequeue" =>
       \/ tok[x] \in s_pendingRequests /\ tok[x] \notin tasks
       \/ x = Dispatch /\ tok[x] \notin allocated
  /\ \A x \in Threads : Completing(x) =>
       tok[x] \in allocated /\ tok[x] \notin s_pendingRequests
  /\ \A x \in Threads : Replies(x) => msg[x] = <<"resp", info[tok[x]].id>>
  /\ \A x, y \in Threads : Holds(x) /\ Holds(y) /\ tok[x] = tok[y] => x = y

OwnInv == ListInv /\ HolderInv

\* What a step of sendResponseRaw leaves alone, and where it takes its thread.
LEMMA SendStep ==
  ASSUME Types, NEW x \in Threads, sendResponseRaw(x)
  PROVE  /\ UNCHANGED <<nreq, s_pendingRequests, allocated, info, dropped, tasks, tok,
                        nnitz, s_lastNITZTimeData>>
         /\ Sending(x)
         /\ \A y \in Threads \ {x} : pc'[y] = pc[y] /\ msg'[y] = msg[y]
         /\ \/ pc'[x] \in SendPoints /\ msg'[x] = msg[x]
            \/ \E ok \in BOOLEAN :
                 /\ pc'[x] = returnLabel(x, ok)
                 /\ msg'[x] = IF pc'[x] = "keepFree" THEN msg[x] ELSE radioStateChanged
<1> USE DEF Types
<1>1. CASE sendReadFd(x) \/ sendAccepted(x) \/ sendLock(x)
  BY <1>1 DEF sendReadFd, sendAccepted, sendLock, goto, ThreadType, Sending, SendPoints
<1>2. CASE writeHeader(x) \/ writeKilled(x) \/ writeError(x)
  BY <1>2 DEF writeHeader, writeKilled, writeError, goto, ThreadType, Sending, SendPoints
<1>3. ASSUME NEW ok \in BOOLEAN, endSend(x, ok)
      PROVE  /\ \A y \in Threads \ {x} : pc'[y] = pc[y] /\ msg'[y] = msg[y]
             /\ pc'[x] = returnLabel(x, ok)
             /\ msg'[x] = IF pc'[x] = "keepFree" THEN msg[x] ELSE radioStateChanged
  <2> DEFINE l == returnLabel(x, ok)
  <2>1. pc' = [pc EXCEPT ![x] = l]
        /\ msg' = [msg EXCEPT ![x] = IF l = "keepFree" THEN @ ELSE radioStateChanged]
    BY <1>3 DEF endSend, goto
  <2> HIDE DEF l
  <2>2. /\ pc'[x] = l /\ msg'[x] = IF l = "keepFree" THEN msg[x] ELSE radioStateChanged
        /\ \A y \in Threads \ {x} : pc'[y] = pc[y] /\ msg'[y] = msg[y]
    BY <2>1 DEF ThreadType
  <2> QED BY <2>2 DEF l
<1>4. CASE sendRefused(x)
  BY <1>3, <1>4 DEF sendRefused, Sending
<1>5. CASE writePayload(x)
  BY <1>3, <1>5 DEF writePayload, Sending
<1>6. CASE writeClose(x)
  BY <1>3, <1>6 DEF writeClose, Sending
<1> QED BY <1>1, <1>2, <1>4, <1>5, <1>6 DEF sendResponseRaw

\* A thread that leaves sendResponseRaw with an answer goes on to the free.
LEMMA SendKeepsOwner ==
  ASSUME Types, NEW x \in Threads, sendResponseRaw(x), NEW y \in Threads
  PROVE  /\ Completing(y)' <=> Completing(y)
         /\ Replies(y)' => Replies(y) /\ msg'[y] = msg[y]
         /\ pc'[y] = "dequeue" <=> pc[y] = "dequeue"
         /\ pc'[y] = "complete" <=> pc[y] = "complete"
<1>1. CASE y = x
  <2>1. CASE pc'[x] \in SendPoints /\ msg'[x] = msg[x]
    BY <1>1, <2>1, SendStep DEF Completing, Replies, Sending, SendPoints
  <2>2. CASE \E ok \in BOOLEAN :
                 /\ pc'[x] = returnLabel(x, ok)
                 /\ msg'[x] = IF pc'[x] = "keepFree" THEN msg[x] ELSE radioStateChanged
    <3>1. pc'[x] \in {"free", "nitz", "nitzFree", "idle", "keepFree"}
          /\ (pc'[x] = "free" <=> msg[x][1] = "resp")
      BY <2>2, ReturnPoint DEF returnLabel
    <3> QED BY <1>1, <3>1, SendStep DEF Completing, Replies, Sending
  <2> QED BY <2>1, <2>2, SendStep
<1>2. CASE y # x
  <2>1. pc'[y] = pc[y] /\ msg'[y] = msg[y]
    BY <1>2, SendStep
  <2> QED BY <2>1 DEF Completing, Replies, Sending
<1> QED BY <1>1, <1>2

\* Steps that change no RequestInfo, no list and no token.
LEMMA OwnUntouched ==
  ASSUME OwnInv,
         UNCHANGED <<nreq, s_pendingRequests, allocated, info, tasks, tok>>,
         \A y \in Threads : Completing(y)' => Completing(y),
         \A y \in Threads : pc'[y] = "dequeue" => pc[y] = "dequeue",
         \A y \in Threads : Replies(y)' => msg'[y] = <<"resp", info[tok[y]].id>>
  PROVE  OwnInv'
<1>1. ListInv'
  BY DEF OwnInv, ListInv
<1>2. \A x \in Threads : Holds(x)' => Holds(x)
  BY DEF Holds
<1>3. HolderInv'
  BY <1>2 DEF OwnInv, HolderInv
<1> QED BY <1>1, <1>3 DEF OwnInv

\* The steps of the dispatch thread, of the vendor's threads and of the clients
\* that have nothing to do with a request.
AwayFromRequests ==
  \/ listenCallback \/ lastNitzSend \/ lastNitzNone \/ lastNitzFree \/ lastNitzNull
  \/ selectCommands \/ selectFails \/ readEagain \/ closeCommand \/ resetCommand
  \/ \E x \in Workers : onUnsolicitedNitz(x) \/ keepNitzFree(x) \/ keepNitz(x)
  \/ \E c \in Conns : clientSend(c) \/ clientEnd(c)
  \/ UNCHANGED vars

LEMMA AwayStep ==
  ASSUME Types, AwayFromRequests
  PROVE  /\ UNCHANGED <<nreq, s_pendingRequests, allocated, info, dropped, tasks, tok,
                        stream>>
         /\ \A y \in Threads :
              /\ Completing(y)' <=> Completing(y)
              /\ Replies(y)' => Replies(y) /\ msg'[y] = msg[y]
              /\ pc'[y] = "dequeue" <=> pc[y] = "dequeue"
              /\ pc'[y] = "complete" <=> pc[y] = "complete"
<1> USE ThreadFacts DEF Types, Completing, Replies, Sending
<1>1. CASE listenCallback \/ lastNitzSend
  <2>1. PICK m \in Msgs : beginSend(Dispatch, m) /\ m[1] # "resp"
    <3>1. radioStateChanged \in Msgs /\ radioStateChanged[1] = "radio"
      BY DEF radioStateChanged, Msgs
    <3>2. <<"nitz", s_lastNITZTimeData>> \in Msgs
      BY DEF Msgs, RequestType
    <3> QED BY <1>1, <3>1, <3>2 DEF listenCallback, lastNitzSend
  <2>2. /\ UNCHANGED <<nreq, s_pendingRequests, allocated, info, dropped, tasks, tok, stream>>
        /\ pc[Dispatch] \in {"listen", "nitz"}
    BY <1>1 DEF listenCallback, lastNitzSend
  <2>3. /\ pc'[Dispatch] = "send" /\ msg'[Dispatch] = m
        /\ \A y \in Threads \ {Dispatch} : pc'[y] = pc[y] /\ msg'[y] = msg[y]
    BY <2>1 DEF beginSend, goto, ThreadType
  <2> QED BY <2>1, <2>2, <2>3
<1>2. CASE lastNitzNone \/ lastNitzFree \/ lastNitzNull
  BY <1>2 DEF lastNitzNone, lastNitzFree, lastNitzNull, freeNitz, goto, ThreadType
<1>3. CASE selectCommands \/ selectFails \/ readEagain \/ closeCommand \/ resetCommand
  BY <1>3 DEF selectCommands, selectFails, readEagain, closeCommand, resetCommand, goto,
     ThreadType
<1>4. ASSUME NEW x \in Workers, onUnsolicitedNitz(x) \/ keepNitz(x)
      PROVE  /\ UNCHANGED <<nreq, s_pendingRequests, allocated, info, dropped, tasks, tok,
                            stream>>
             /\ \A y \in Threads :
                  /\ Completing(y)' <=> Completing(y)
                  /\ Replies(y)' => Replies(y) /\ msg'[y] = msg[y]
                  /\ pc'[y] = "dequeue" <=> pc[y] = "dequeue"
                  /\ pc'[y] = "complete" <=> pc[y] = "complete"
  <2>1. /\ UNCHANGED <<nreq, s_pendingRequests, allocated, info, dropped, tasks, tok, stream>>
        /\ pc[x] \in {"idle", "keep"}
    BY <1>4 DEF onUnsolicitedNitz, keepNitz
  <2>2. PICK m : msg' = [msg EXCEPT ![x] = m] /\ m[1] # "resp"
    <3>1. CASE onUnsolicitedNitz(x)
      <4> DEFINE m == <<"nitz", nnitz + 1>>
      <4>1. m[1] # "resp" /\ msg' = [msg EXCEPT ![x] = m]
        BY <3>1 DEF onUnsolicitedNitz, beginSend
      <4> HIDE DEF m
      <4> QED BY <4>1
    <3>2. CASE keepNitz(x)
      <4>1. radioStateChanged[1] # "resp" /\ msg' = [msg EXCEPT ![x] = radioStateChanged]
        BY <3>2 DEF keepNitz, radioStateChanged
      <4> QED BY <4>1
    <3> QED BY <1>4, <3>1, <3>2
  <2>3. PICK l \in {"send", "idle"} : pc' = [pc EXCEPT ![x] = l]
    BY <1>4 DEF onUnsolicitedNitz, beginSend, keepNitz, goto
  <2>4. /\ pc'[x] \in {"send", "idle"} /\ msg'[x][1] # "resp"
        /\ \A y \in Threads \ {x} : pc'[y] = pc[y] /\ msg'[y] = msg[y]
    BY <2>2, <2>3 DEF ThreadType
  <2> QED BY <2>1, <2>4
<1>5. ASSUME NEW x \in Workers, keepNitzFree(x)
      PROVE  /\ UNCHANGED <<nreq, s_pendingRequests, allocated, info, dropped, tasks, tok,
                            stream, msg>>
             /\ pc[x] = "keepFree" /\ pc'[x] = "keep"
             /\ \A y \in Threads \ {x} : pc'[y] = pc[y]
  BY <1>5 DEF keepNitzFree, freeNitz, goto, ThreadType
<1>6. CASE \E c \in Conns : clientSend(c) \/ clientEnd(c)
  BY <1>6 DEF clientSend, clientEnd
<1>7. CASE UNCHANGED vars
  BY <1>7 DEF vars
<1> QED BY <1>1, <1>2, <1>3, <1>4, <1>5, <1>6, <1>7 DEF AwayFromRequests

\* The list, the vendor's tokens and the RequestInfos only change in these
\* steps, of which the dispatch thread alone takes the last four.
LEMMA StepsOfOwners ==
  ASSUME [Next]_vars
  PROVE  \/ \E x \in Threads : sendResponseRaw(x)
         \/ \E x \in Threads : \/ dequeueFound(x) \/ dequeueInvalid(x)
                               \/ completeReport(x) \/ completeCancelled(x)
                               \/ completeFree(x)
         \/ \E x \in Workers : workerComplete(x)
         \/ requestRefused
         \/ requestStuck \/ requestInline \/ requestQueued
         \/ onCommandsSocketClosed
         \/ AwayFromRequests
BY DEF Next, ThreadStep, DispatchNext, WorkerNext, ClientNext, RIL_onRequestComplete,
   DispatchStep, WorkerStep, AwayFromRequests

LEMMA EndCompleteMoves ==
  ASSUME Types, NEW x \in Threads, endComplete(x)
  PROVE  /\ \A y \in Threads \ {x} : pc'[y] = pc[y] /\ tok'[y] = tok[y]
         /\ pc'[x] \in {"dequeue", "read", "idle"}
         /\ pc'[x] = "dequeue" => x = Dispatch /\ tok'[x] = tok[x]
BY DEF endComplete, goto, Types, ThreadType, RequestType

\* checkAndDequeueRequestInfo.
LEMMA OwnDequeued ==
  ASSUME Types, OwnInv, NEW x \in Threads, dequeueFound(x) \/ dequeueInvalid(x)
  PROVE  OwnInv'
<1> USE DEF Types
<1>1. CASE dequeueFound(x)
  <2>1. /\ UNCHANGED <<nreq, allocated, info, tasks, tok, msg>>
        /\ pc[x] = "dequeue" /\ pc'[x] = "complete" /\ tok[x] \in s_pendingRequests
        /\ s_pendingRequests' = s_pendingRequests \ {tok[x]}
        /\ \A y \in Threads \ {x} : pc'[y] = pc[y]
    BY <1>1 DEF dequeueFound, unlinked, goto, ThreadType
  <2>2. tok[x] \notin tasks /\ Holds(x) /\ tok[x] \in allocated
    BY <2>1 DEF OwnInv, HolderInv, ListInv, Holds
  <2>3. /\ \A y \in Threads \ {x} : /\ Holds(y)' <=> Holds(y)
                                    /\ Completing(y)' <=> Completing(y)
                                    /\ Replies(y)' <=> Replies(y)
        /\ ~Replies(x)'
    BY <2>1 DEF Holds, Completing, Replies, Sending
  <2>4. ListInv'
    BY <2>1, <2>2 DEF OwnInv, ListInv
  <2>5. \A y \in Threads : pc'[y] = "dequeue" =>
          \/ tok'[y] \in s_pendingRequests' /\ tok'[y] \notin tasks'
          \/ y = Dispatch /\ tok'[y] \notin allocated'
    <3>1. ASSUME NEW y \in Threads, pc'[y] = "dequeue"
          PROVE  \/ tok[y] \in s_pendingRequests' /\ tok[y] \notin tasks
                 \/ y = Dispatch /\ tok[y] \notin allocated
      <4>1. y # x /\ pc[y] = "dequeue"
        BY <2>1, <3>1
      <4>2. tok[y] \in allocated => tok[y] # tok[x]
        BY <2>2, <4>1 DEF OwnInv, HolderInv, Holds
      <4> QED BY <2>1, <2>2, <4>1, <4>2 DEF OwnInv, HolderInv
    <3> QED BY <2>1, <3>1
  <2>6. \A y \in Threads : Completing(y)' =>
          tok'[y] \in allocated' /\ tok'[y] \notin s_pendingRequests'
    BY <2>1, <2>2, <2>3 DEF OwnInv, HolderInv
  <2>7. \A y \in Threads : Replies(y)' => msg'[y] = <<"resp", info'[tok'[y]].id>>
    BY <2>1, <2>3 DEF OwnInv, HolderInv
  <2>8. \A y, z \in Threads : Holds(y)' /\ Holds(z)' /\ tok'[y] = tok'[z] => y = z
    BY <2>1, <2>2, <2>3 DEF OwnInv, HolderInv
  <2> QED BY <2>4, <2>5, <2>6, <2>7, <2>8 DEF OwnInv, HolderInv
<1>2. CASE dequeueInvalid(x)
  <2>1. /\ UNCHANGED <<nreq, s_pendingRequests, allocated, info, tasks, msg>>
        /\ pc[x] = "dequeue" /\ tok[x] \notin s_pendingRequests /\ endComplete(x)
    BY <1>2 DEF dequeueInvalid
  <2>2. x = Dispatch /\ tok[x] \notin allocated
    BY <2>1 DEF OwnInv, HolderInv
  <2>3. /\ \A y \in Threads \ {x} : pc'[y] = pc[y] /\ tok'[y] = tok[y]
        /\ pc'[x] \in {"dequeue", "read", "idle"}
        /\ pc'[x] = "dequeue" => tok'[x] = tok[x]
    BY <2>1, EndCompleteMoves
  <2>4. /\ \A y \in Threads \ {x} : /\ Holds(y)' <=> Holds(y)
                                    /\ Completing(y)' <=> Completing(y)
                                    /\ Replies(y)' <=> Replies(y)
        /\ ~Replies(x)' /\ ~Completing(x)' /\ ~Holds(x)'
    BY <2>1, <2>2, <2>3 DEF Holds, Completing, Replies, Sending
  <2>5. ListInv'
    BY <2>1 DEF OwnInv, ListInv
  <2>6. HolderInv'
    BY <2>1, <2>2, <2>3, <2>4 DEF OwnInv, HolderInv
  <2> QED BY <2>5, <2>6 DEF OwnInv
<1> QED BY <1>1, <1>2

\* The rest of RIL_onRequestComplete: the answer, and the free.
LEMMA OwnCompleted ==
  ASSUME Types, OwnInv, NEW x \in Threads,
         completeReport(x) \/ completeCancelled(x) \/ completeFree(x)
  PROVE  OwnInv'
<1> USE DEF Types
<1>1. CASE completeReport(x)
  <2>1. /\ UNCHANGED <<nreq, s_pendingRequests, allocated, info, tasks, tok>>
        /\ pc[x] = "complete" /\ pc'[x] = "send"
        /\ msg'[x] = <<"resp", info[tok[x]].id>>
        /\ \A y \in Threads \ {x} : pc'[y] = pc[y] /\ msg'[y] = msg[y]
    BY <1>1 DEF completeReport, beginSend, goto, ThreadType
  <2>2. /\ \A y \in Threads : Completing(y)' => Completing(y)
        /\ \A y \in Threads \ {x} : Replies(y)' => Replies(y)
    BY <2>1 DEF Completing, Replies, Sending
  <2>3. \A y \in Threads : Replies(y)' => msg'[y] = <<"resp", info[tok[y]].id>>
    BY <2>1, <2>2 DEF OwnInv, HolderInv
  <2> QED BY <2>1, <2>2, <2>3, OwnUntouched
<1>2. CASE completeCancelled(x)
  <2>1. /\ UNCHANGED <<nreq, s_pendingRequests, allocated, info, tasks, tok, msg>>
        /\ pc[x] = "complete" /\ pc'[x] = "free"
        /\ \A y \in Threads \ {x} : pc'[y] = pc[y]
    BY <1>2 DEF completeCancelled, goto, ThreadType
  <2>2. /\ \A y \in Threads : Completing(y)' => Completing(y)
        /\ \A y \in Threads : Replies(y)' => Replies(y)
    BY <2>1 DEF Completing, Replies, Sending
  <2>3. \A y \in Threads : Replies(y)' => msg'[y] = <<"resp", info[tok[y]].id>>
    BY <2>1, <2>2 DEF OwnInv, HolderInv
  <2> QED BY <2>1, <2>2, <2>3, OwnUntouched
<1>3. CASE completeFree(x)
  <2>1. /\ UNCHANGED <<nreq, s_pendingRequests, info, tasks, msg>>
        /\ allocated' = allocated \ {tok[x]} /\ pc[x] = "free" /\ endComplete(x)
    BY <1>3 DEF completeFree
  <2>2. /\ \A y \in Threads \ {x} : pc'[y] = pc[y] /\ tok'[y] = tok[y]
        /\ pc'[x] \in {"dequeue", "read", "idle"}
        /\ pc'[x] = "dequeue" => x = Dispatch /\ tok'[x] = tok[x]
    BY <2>1, EndCompleteMoves
  <2>3. Holds(x) /\ tok[x] \in allocated /\ tok[x] \notin s_pendingRequests
    BY <2>1 DEF OwnInv, HolderInv, Holds, Completing
  <2>4. /\ \A y \in Threads \ {x} : /\ Holds(y)' => Holds(y) /\ tok[y] # tok[x]
                                    /\ Completing(y)' => Completing(y) /\ tok[y] # tok[x]
                                    /\ Replies(y)' => Replies(y)
        /\ ~Replies(x)' /\ ~Completing(x)' /\ ~Holds(x)'
    <3>1. \A y \in Threads \ {x} : /\ Holds(y)' => Holds(y)
                                   /\ Completing(y)' => Completing(y)
                                   /\ Replies(y)' => Replies(y)
      BY <2>1, <2>2 DEF Holds, Completing, Replies, Sending
    <3>2. \A y \in Threads \ {x} : Holds(y) => tok[y] # tok[x]
      BY <2>3 DEF OwnInv, HolderInv
    <3>3. \A y \in Threads : Completing(y) => Holds(y)
      BY DEF Holds
    <3>4. ~Replies(x)' /\ ~Completing(x)' /\ ~Holds(x)'
      BY <2>1, <2>2 DEF Holds, Completing, Replies, Sending
    <3> QED BY <3>1, <3>2, <3>3, <3>4
  <2>5. ListInv'
    BY <2>1, <2>3 DEF OwnInv, ListInv
  <2>6. \A y \in Threads : pc'[y] = "dequeue" =>
          \/ tok'[y] \in s_pendingRequests' /\ tok'[y] \notin tasks'
          \/ y = Dispatch /\ tok'[y] \notin allocated'
    BY <2>1, <2>2 DEF OwnInv, HolderInv
  <2>7. \A y \in Threads : Completing(y)' =>
          tok'[y] \in allocated' /\ tok'[y] \notin s_pendingRequests'
    BY <2>1, <2>2, <2>4 DEF OwnInv, HolderInv
  <2>8. \A y \in Threads : Replies(y)' => msg'[y] = <<"resp", info'[tok'[y]].id>>
    BY <2>1, <2>2, <2>4 DEF OwnInv, HolderInv
  <2>9. \A y, z \in Threads : Holds(y)' /\ Holds(z)' /\ tok'[y] = tok'[z] => y = z
    BY <2>2, <2>4 DEF OwnInv, HolderInv
  <2> QED BY <2>5, <2>6, <2>7, <2>8, <2>9 DEF OwnInv, HolderInv
<1> QED BY <1>1, <1>2, <1>3

\* A request read and put on the list: what changes, and what does not.
LEMMA PushStep ==
  ASSUME Types, requestStuck \/ requestInline \/ requestQueued
  PROVE  /\ pc[Dispatch] = "read" /\ nreq' = nreq + 1
         /\ UNCHANGED <<stream, msg, dropped, nnitz, s_lastNITZTimeData>>
         /\ \A y \in Threads \ {Dispatch} : pc'[y] = pc[y] /\ tok'[y] = tok[y]
         /\ \E p \in Infos :
              /\ p \notin allocated
              /\ allocated' = allocated \cup {p}
              /\ s_pendingRequests' = s_pendingRequests \cup {p}
              /\ info'[p].id = nreq + 1 /\ info'[p].cancelled = FALSE
              /\ \A q \in Infos \ {p} : info'[q] = info[q]
              /\ \/ /\ pc'[Dispatch] = "read" /\ tok'[Dispatch] = tok[Dispatch]
                    /\ tasks' \in {tasks, tasks \cup {p}}
                 \/ /\ pc'[Dispatch] = "dequeue" /\ tok'[Dispatch] = p
                    /\ tasks' = tasks
<1> USE DEF Types
<1>1. /\ pc[Dispatch] = "read" /\ nreq' = nreq + 1
      /\ UNCHANGED <<stream, msg, dropped, nnitz, s_lastNITZTimeData>>
  BY DEF requestStuck, requestInline, requestQueued, readRecord
<1>2. PICK p \in Infos :
        /\ pushRequest(p)
        /\ \/ pc' = pc /\ tok' = tok /\ tasks' \in {tasks, tasks \cup {p}}
           \/ /\ pc' = [pc EXCEPT ![Dispatch] = "dequeue"]
              /\ tok' = [tok EXCEPT ![Dispatch] = p] /\ tasks' = tasks
  BY DEF requestStuck, requestInline, requestQueued, goto
<1>3. /\ \A y \in Threads \ {Dispatch} : pc'[y] = pc[y] /\ tok'[y] = tok[y]
      /\ \/ /\ pc'[Dispatch] = "read" /\ tok'[Dispatch] = tok[Dispatch]
            /\ tasks' \in {tasks, tasks \cup {p}}
         \/ /\ pc'[Dispatch] = "dequeue" /\ tok'[Dispatch] = p
            /\ tasks' = tasks
  BY <1>1, <1>2, ThreadFacts DEF ThreadType, RequestType
<1>4. /\ info'[p].id = nreq + 1 /\ info'[p].cancelled = FALSE
      /\ \A q \in Infos \ {p} : info'[q] = info[q]
  BY <1>2, PushType
<1>5. /\ p \notin allocated /\ allocated' = allocated \cup {p}
      /\ s_pendingRequests' = s_pendingRequests \cup {p}
  BY <1>2 DEF pushRequest
<1> QED BY <1>1, <1>3, <1>4, <1>5

LEMMA OwnPushed ==
  ASSUME Types, OwnInv, requestStuck \/ requestInline \/ requestQueued
  PROVE  OwnInv'
<1> USE DEF Types
<1>1. PICK p \in Infos :
        /\ p \notin allocated
        /\ allocated' = allocated \cup {p}
        /\ s_pendingRequests' = s_pendingRequests \cup {p}
        /\ info'[p].id = nreq + 1
        /\ \A q \in Infos \ {p} : info'[q] = info[q]
        /\ \/ /\ pc'[Dispatch] = "read" /\ tok'[Dispatch] = tok[Dispatch]
              /\ tasks' \in {tasks, tasks \cup {p}}
           \/ /\ pc'[Dispatch] = "dequeue" /\ tok'[Dispatch] = p
              /\ tasks' = tasks
  BY PushStep
<1>2. /\ pc[Dispatch] = "read" /\ nreq' = nreq + 1 /\ msg' = msg
      /\ \A y \in Threads \ {Dispatch} : pc'[y] = pc[y] /\ tok'[y] = tok[y]
  BY PushStep
<1>3. /\ \A q \in allocated : q \in Infos /\ q # p /\ info'[q] = info[q]
      /\ \A q \in allocated : info[q].id \in Nat /\ info[q].id # nreq + 1
      /\ nreq \in Nat
  <2>1. \A q \in allocated : q \in Infos /\ q # p /\ info[q].id \in Nat /\ info[q].id <= nreq
    BY <1>1 DEF OwnInv, ListInv, RequestType
  <2>2. nreq \in Nat
    BY DEF RequestType
  <2> QED BY <1>1, <2>1, <2>2
<1>4. p \notin s_pendingRequests /\ p \notin tasks
  BY <1>1 DEF OwnInv, ListInv
<1>5. ListInv'
  <2>1. tasks' \subseteq s_pendingRequests' /\ s_pendingRequests' \subseteq allocated'
    BY <1>1 DEF OwnInv, ListInv
  <2>2. \A q \in allocated' : info'[q].id <= nreq'
    BY <1>1, <1>2, <1>3 DEF OwnInv, ListInv
  <2>3. \A q, r \in allocated' : info'[q].id = info'[r].id => q = r
    BY <1>1, <1>3 DEF OwnInv, ListInv
  <2> QED BY <2>1, <2>2, <2>3 DEF ListInv
<1>6. /\ \A y \in Threads \ {Dispatch} :
           /\ Completing(y)' <=> Completing(y)
           /\ Replies(y)' <=> Replies(y)
           /\ Holds(y)' => Holds(y) /\ tok[y] \in allocated
      /\ ~Completing(Dispatch)' /\ ~Replies(Dispatch)'
      /\ Holds(Dispatch)' => tok'[Dispatch] = p
  <2>1. \A y \in Threads \ {Dispatch} : /\ Completing(y)' <=> Completing(y)
                                        /\ Replies(y)' <=> Replies(y)
    BY <1>2 DEF Completing, Replies, Sending
  <2>2. ~Completing(Dispatch)' /\ ~Replies(Dispatch)'
    BY <1>1 DEF Completing, Replies, Sending
  <2>3. Holds(Dispatch)' => tok'[Dispatch] = p
    BY <1>1, <2>2 DEF Holds
  <2>4. \A y \in Threads \ {Dispatch} : pc[y] = "dequeue" => tok[y] \in allocated
    BY DEF OwnInv, HolderInv, ListInv
  <2>5. \A y \in Threads \ {Dispatch} : Completing(y) => tok[y] \in allocated
    BY DEF OwnInv, HolderInv
  <2>6. \A y \in Threads \ {Dispatch} : Holds(y)' => Holds(y) /\ tok[y] \in allocated
    BY <1>2, <2>1, <2>4, <2>5 DEF Holds
  <2> QED BY <2>1, <2>2, <2>3, <2>6
<1>7. \A y \in Threads : pc'[y] = "dequeue" =>
          \/ tok'[y] \in s_pendingRequests' /\ tok'[y] \notin tasks'
          \/ y = Dispatch /\ tok'[y] \notin allocated'
  <2>1. ASSUME NEW y \in Threads \ {Dispatch}, pc'[y] = "dequeue"
        PROVE  tok'[y] \in s_pendingRequests' /\ tok'[y] \notin tasks'
    <3>1. tok[y] \in s_pendingRequests /\ tok[y] \notin tasks
      BY <1>2, <2>1 DEF OwnInv, HolderInv
    <3> QED BY <1>1, <1>2, <1>4, <3>1
  <2>2. pc'[Dispatch] = "dequeue" =>
          tok'[Dispatch] \in s_pendingRequests' /\ tok'[Dispatch] \notin tasks'
    BY <1>1, <1>4
  <2> QED BY <2>1, <2>2
<1>8. \A y \in Threads : Completing(y)' =>
          tok'[y] \in allocated' /\ tok'[y] \notin s_pendingRequests'
  BY <1>1, <1>2, <1>6 DEF OwnInv, HolderInv
<1>9. \A y \in Threads : Replies(y)' => msg'[y] = <<"resp", info'[tok'[y]].id>>
  <2>1. ASSUME NEW y \in Threads, Replies(y)'
        PROVE  msg'[y] = <<"resp", info'[tok'[y]].id>>
    <3>1. y # Dispatch /\ Replies(y)
      BY <1>6, <2>1
    <3>2. Completing(y)
      BY <3>1 DEF Completing, Replies
    <3>3. tok[y] \in allocated /\ msg[y] = <<"resp", info[tok[y]].id>>
      BY <3>1, <3>2 DEF OwnInv, HolderInv
    <3> QED BY <1>2, <1>3, <3>1, <3>3
  <2> QED BY <2>1
<1>10. \A y, z \in Threads : Holds(y)' /\ Holds(z)' /\ tok'[y] = tok'[z] => y = z
  <2>1. \A y \in Threads \ {Dispatch} : Holds(y)' => tok'[y] # p
    BY <1>1, <1>2, <1>6
  <2> QED BY <1>2, <1>6, <2>1 DEF OwnInv, HolderInv
<1> QED BY <1>5, <1>7, <1>8, <1>9, <1>10 DEF OwnInv, HolderInv

\* onCommandsSocketClosed changes no identity and no owner.
LEMMA CloseStep ==
  ASSUME Types, onCommandsSocketClosed
  PROVE  /\ UNCHANGED <<nreq, s_pendingRequests, allocated, tasks, tok, msg, stream,
                        nnitz, s_lastNITZTimeData>>
         /\ \A p \in Infos : info'[p].id = info[p].id
         /\ \A p \in s_pendingRequests : info'[p].cancelled
         /\ \A p \in Infos \ s_pendingRequests : info'[p] = info[p]
         /\ dropped' = dropped \cup {info[p].id : p \in s_pendingRequests}
         /\ pc[Dispatch] = "cancel" /\ pc'[Dispatch] = "listen"
         /\ \A y \in Threads \ {Dispatch} : pc'[y] = pc[y]
<1>1. info' = [p \in Infos |->
                IF p \in s_pendingRequests THEN [info[p] EXCEPT !.cancelled = TRUE]
                                           ELSE info[p]]
  BY DEF onCommandsSocketClosed
<1>2. info \in [Infos -> [id : Nat, cancelled : BOOLEAN]] /\ s_pendingRequests \subseteq Infos
  BY DEF Types, RequestType
<1>3. /\ \A p \in Infos : info'[p].id = info[p].id
      /\ \A p \in s_pendingRequests : info'[p].cancelled
      /\ \A p \in Infos \ s_pendingRequests : info'[p] = info[p]
  BY <1>1, <1>2
<1> QED BY <1>3, ThreadFacts DEF onCommandsSocketClosed, goto, Types, ThreadType

LEMMA OwnNext == ASSUME Types, OwnInv, [Next]_vars PROVE OwnInv'
<1> USE DEF Types
<1>1. ASSUME NEW x \in Threads, sendResponseRaw(x) PROVE OwnInv'
  <2>1. UNCHANGED <<nreq, s_pendingRequests, allocated, info, tasks, tok>>
    BY <1>1, SendStep
  <2>2. \A y \in Threads : /\ Completing(y)' => Completing(y)
                           /\ pc'[y] = "dequeue" => pc[y] = "dequeue"
                           /\ Replies(y)' => Replies(y) /\ msg'[y] = msg[y]
    BY <1>1, SendKeepsOwner
  <2>3. \A y \in Threads : Replies(y)' => msg'[y] = <<"resp", info[tok[y]].id>>
    BY <2>2 DEF OwnInv, HolderInv
  <2> QED BY <2>1, <2>2, <2>3, OwnUntouched
<1>2. ASSUME AwayFromRequests PROVE OwnInv'
  <2>1. UNCHANGED <<nreq, s_pendingRequests, allocated, info, tasks, tok>>
    BY <1>2, AwayStep
  <2>2. \A y \in Threads : /\ Completing(y)' => Completing(y)
                           /\ pc'[y] = "dequeue" => pc[y] = "dequeue"
                           /\ Replies(y)' => Replies(y) /\ msg'[y] = msg[y]
    BY <1>2, AwayStep
  <2>3. \A y \in Threads : Replies(y)' => msg'[y] = <<"resp", info[tok[y]].id>>
    BY <2>2 DEF OwnInv, HolderInv
  <2> QED BY <2>1, <2>2, <2>3, OwnUntouched
<1>3. ASSUME NEW x \in Workers, workerComplete(x) PROVE OwnInv'
  <2>1. PICK p \in tasks : tasks' = tasks \ {p} /\ tok' = [tok EXCEPT ![x] = p]
    BY <1>3 DEF workerComplete
  <2>2. /\ UNCHANGED <<nreq, s_pendingRequests, allocated, info, msg>>
        /\ pc[x] = "idle" /\ pc'[x] = "dequeue" /\ tok'[x] = p
        /\ \A y \in Threads \ {x} : pc'[y] = pc[y] /\ tok'[y] = tok[y]
    BY <1>3, <2>1, ThreadFacts DEF workerComplete, goto, ThreadType, RequestType
  <2>3. p \in s_pendingRequests /\ p \in allocated
    BY DEF OwnInv, ListInv
  <2>4. /\ \A y \in Threads \ {x} : /\ Holds(y)' <=> Holds(y)
                                    /\ Completing(y)' <=> Completing(y)
                                    /\ Replies(y)' <=> Replies(y)
        /\ ~Replies(x)' /\ ~Completing(x)'
    BY <2>2 DEF Holds, Completing, Replies, Sending
  <2>5. \A y \in Threads : Holds(y) => tok[y] # p
    BY <2>3 DEF OwnInv, HolderInv, Holds
  <2>6. ListInv'
    BY <2>1, <2>2 DEF OwnInv, ListInv
  <2>7. HolderInv'
    <3>1. \A y \in Threads : pc'[y] = "dequeue" =>
            \/ tok'[y] \in s_pendingRequests' /\ tok'[y] \notin tasks'
            \/ y = Dispatch /\ tok'[y] \notin allocated'
      BY <2>1, <2>2, <2>3 DEF OwnInv, HolderInv
    <3>2. \A y \in Threads : Completing(y)' =>
            tok'[y] \in allocated' /\ tok'[y] \notin s_pendingRequests'
      BY <2>2, <2>4 DEF OwnInv, HolderInv
    <3>3. \A y \in Threads : Replies(y)' => msg'[y] = <<"resp", info'[tok'[y]].id>>
      BY <2>2, <2>4 DEF OwnInv, HolderInv
    <3>4. \A y, z \in Threads : Holds(y)' /\ Holds(z)' /\ tok'[y] = tok'[z] => y = z
      BY <2>2, <2>4, <2>5 DEF OwnInv, HolderInv
    <3> QED BY <3>1, <3>2, <3>3, <3>4 DEF HolderInv
  <2> QED BY <2>6, <2>7 DEF OwnInv
<1>4. ASSUME requestRefused PROVE OwnInv'
  <2>1. /\ UNCHANGED <<s_pendingRequests, allocated, info, tasks, tok, pc, msg>>
        /\ nreq' = nreq + 1
    BY <1>4 DEF requestRefused, readRecord
  <2>2. \A p \in allocated : info[p].id \in Nat /\ info[p].id <= nreq /\ nreq \in Nat
    BY DEF OwnInv, ListInv, RequestType
  <2>3. \A p \in allocated : info[p].id <= nreq'
    BY <2>1, <2>2
  <2>4. ListInv'
    BY <2>1, <2>3 DEF OwnInv, ListInv
  <2>5. HolderInv'
    BY <2>1 DEF OwnInv, HolderInv, Holds, Completing, Replies, Sending
  <2> QED BY <2>4, <2>5 DEF OwnInv
<1>5. ASSUME onCommandsSocketClosed PROVE OwnInv'
  <2>1. /\ UNCHANGED <<nreq, s_pendingRequests, allocated, tasks, tok, msg>>
        /\ \A p \in allocated : info'[p].id = info[p].id
        /\ pc[Dispatch] = "cancel" /\ pc'[Dispatch] = "listen"
        /\ \A y \in Threads \ {Dispatch} : pc'[y] = pc[y]
    BY <1>5, CloseStep DEF RequestType
  <2>2. \A y \in Threads : /\ Holds(y)' <=> Holds(y)
                           /\ Completing(y)' <=> Completing(y)
                           /\ Replies(y)' <=> Replies(y)
                           /\ pc'[y] = "dequeue" <=> pc[y] = "dequeue"
    BY <2>1 DEF Holds, Completing, Replies, Sending
  <2>3. ListInv'
    BY <2>1 DEF OwnInv, ListInv
  <2>4. \A y \in Threads : Replies(y)' => msg'[y] = <<"resp", info'[tok'[y]].id>>
    <3>1. \A y \in Threads : Replies(y) =>
            tok[y] \in allocated /\ msg[y] = <<"resp", info[tok[y]].id>>
      BY DEF OwnInv, HolderInv, Replies, Completing
    <3> QED BY <2>1, <2>2, <3>1
  <2>5. HolderInv'
    BY <2>1, <2>2, <2>4 DEF OwnInv, HolderInv
  <2> QED BY <2>3, <2>5 DEF OwnInv
<1> QED BY <1>1, <1>2, <1>3, <1>4, <1>5, OwnDequeued, OwnCompleted, OwnPushed, StepsOfOwners

LEMMA InitOwn == ASSUME Init PROVE OwnInv
<1>1. \A x \in Threads : ~Completing(x) /\ ~Replies(x) /\ ~Holds(x) /\ pc[x] # "dequeue"
  BY DEF Init, Completing, Replies, Holds, Sending
<1> QED BY <1>1 DEF Init, OwnInv, ListInv, HolderInv

LEMMA Owning == Spec => []OwnInv
<1>1. Init => OwnInv
  BY InitOwn
<1>2. Types /\ OwnInv /\ [Next]_vars => OwnInv'
  BY OwnNext
<1> QED BY <1>1, <1>2, Typing, PTL DEF Spec

\* A thread that completes a request has its RequestInfo to itself until the
\* free, even when the vendor RIL completes a request twice and addresses are
\* used again (checkAndDequeueRequestInfo, free(pRI)).
THEOREM OwnerAlone == Spec => []CompletionOwns
<1>1. OwnInv => CompletionOwns
  <2> SUFFICES ASSUME OwnInv PROVE CompletionOwns
    OBVIOUS
  <2>1. \A x \in Threads : Completing(x) => Holds(x) /\ (Sending(x) => Replies(x))
    BY DEF Completing, Holds, Replies, Sending
  <2> QED BY <2>1 DEF OwnInv, ListInv, HolderInv, CompletionOwns
<1> QED BY <1>1, Owning, PTL

-----------------------------------------------------------------------------
(* Cancelled requests.                                                     *)

\* The requests for which something has been written.
Reported ==
  {r \in Nat : \E c \in Conns : \E i \in 1 .. Len(stream[c]) :
                 stream[c][i][2] = <<"resp", r>>}

\* Nothing of a request that is still on the list, or that was dropped, has
\* been written, and a dropped request is known to be cancelled by every
\* thread that will look.
ReplyInv ==
  /\ \A r \in Reported : r <= nreq /\ r \notin dropped
  /\ \A r \in Reported : \A p \in s_pendingRequests : info[p].id # r
  /\ dropped \subseteq 0 .. nreq
  /\ \A p \in s_pendingRequests : info[p].id \in dropped => info[p].cancelled
  /\ \A x \in Threads : pc[x] = "complete" /\ info[tok[x]].id \in dropped =>
       info[tok[x]].cancelled
  /\ \A x \in Threads : Replies(x) => msg[x][2] \notin dropped

\* Only sendResponseRaw writes, and one entry at a time: the message of its
\* thread.
LEMMA EntryOrigin ==
  ASSUME Types, NEW x \in Threads, sendResponseRaw(x),
         NEW c \in Conns, NEW i \in 1 .. Len(stream'[c])
  PROVE  \/ i \in 1 .. Len(stream[c]) /\ stream'[c][i] = stream[c][i]
         \/ /\ i = Len(stream[c]) + 1 /\ stream'[c][i][2] = msg[x]
            /\ stream'[c][i][1] # "hdr" => writePayload(x)
            /\ \A d \in Conns \ {c} : stream'[d] = stream[d]
<1> USE DEF Types
<1>1. CASE stream' = stream
  BY <1>1
<1>2. ASSUME NEW part \in {"hdr", "data", "junk"}, writeDone(x, part),
             part # "hdr" => writePayload(x)
      PROVE  \/ i \in 1 .. Len(stream[c]) /\ stream'[c][i] = stream[c][i]
             \/ /\ i = Len(stream[c]) + 1 /\ stream'[c][i][2] = msg[x]
                /\ stream'[c][i][1] # "hdr" => writePayload(x)
                /\ \A d \in Conns \ {c} : stream'[d] = stream[d]
  <2> DEFINE e == <<part, msg[x]>>
  <2>1. PICK d \in Conns :
           /\ d = connOf(fd[x]) /\ fd[x] \in Fds /\ file[fd[x]] = d
           /\ e \in Entries
           /\ stream' \in [Conns -> Seq(Entries)]
           /\ stream'[d] = Append(stream[d], e)
           /\ \A b \in Conns \ {d} : stream'[b] = stream[b]
    BY <1>2, Written
  <2>2. e[1] = part /\ e[2] = msg[x]
    OBVIOUS
  <2> HIDE DEF e
  <2>3. stream[d] \in Seq(Entries) /\ Len(stream[d]) \in Nat
    BY LenProperties DEF ConnType
  <2>4. /\ Len(stream'[d]) = Len(stream[d]) + 1
        /\ \A j \in 1 .. Len(stream[d]) : stream'[d][j] = stream[d][j]
        /\ stream'[d][Len(stream[d]) + 1] = e
    BY <2>1, <2>3, AppendProperties
  <2>5. CASE c # d
    BY <2>1, <2>5
  <2>6. CASE c = d /\ i \in 1 .. Len(stream[d])
    BY <2>4, <2>6
  <2>7. CASE c = d /\ i = Len(stream[d]) + 1
    BY <1>2, <2>1, <2>2, <2>4, <2>7
  <2> QED BY <2>3, <2>4, <2>5, <2>6, <2>7
<1>3. CASE writeHeader(x)
  <2>1. writeDone(x, "hdr")
    BY <1>3 DEF writeHeader
  <2> QED BY <1>2, <2>1
<1>4. CASE writePayload(x)
  <2>1. PICK part \in {"data", "junk"} : writeDone(x, part)
    BY <1>4, PayloadParts DEF writePayload
  <2> QED BY <1>2, <1>4, <2>1
<1>5. CASE ~writeHeader(x) /\ ~writePayload(x)
  BY <1>1, <1>5 DEF sendResponseRaw, sendReadFd, sendRefused, sendAccepted, sendLock,
     writeKilled, writeError, writeClose
<1> QED BY <1>3, <1>4, <1>5

LEMMA ReportedNext ==
  ASSUME Types, NEW x \in Threads, sendResponseRaw(x), NEW r \in Reported'
  PROVE  r \in Reported \/ (Replies(x) /\ msg[x][2] = r)
<1>1. PICK c \in Conns : \E i \in 1 .. Len(stream'[c]) : stream'[c][i][2] = <<"resp", r>>
  BY DEF Reported
<1>2. PICK i \in 1 .. Len(stream'[c]) : stream'[c][i][2] = <<"resp", r>>
  BY <1>1
<1>3. CASE i \in 1 .. Len(stream[c]) /\ stream'[c][i] = stream[c][i]
  BY <1>2, <1>3 DEF Reported
<1>4. CASE stream'[c][i][2] = msg[x]
  <2>1. msg[x] = <<"resp", r>>
    BY <1>2, <1>4
  <2> QED BY <2>1, SendStep DEF Replies
<1> QED BY <1>3, <1>4, EntryOrigin

\* A thread that answers a request answers one that is allocated, off the
\* list, and no other thread's.
LEMMA ReplyOwned ==
  ASSUME Types, OwnInv, NEW x \in Threads
  PROVE  /\ Replies(x) => /\ msg[x][2] = info[tok[x]].id /\ msg[x][2] <= nreq
                          /\ \A p \in s_pendingRequests : info[p].id # msg[x][2]
         /\ pc[x] = "complete" => /\ tok[x] \in allocated
                                  /\ \A p \in s_pendingRequests : info[p].id # info[tok[x]].id
         /\ Replies(x) \/ pc[x] = "complete" => Completing(x)
<1>1. Replies(x) \/ pc[x] = "complete" => Completing(x)
  BY DEF Completing, Replies
<1>2. Completing(x) => tok[x] \in allocated /\ tok[x] \notin s_pendingRequests
  BY DEF OwnInv, HolderInv
<1>3. Replies(x) => msg[x][2] = info[tok[x]].id
  BY DEF OwnInv, HolderInv
<1> QED BY <1>1, <1>2, <1>3 DEF OwnInv, ListInv

LEMMA ReplyNext == ASSUME Types, OwnInv, ReplyInv, [Next]_vars PROVE ReplyInv'
<1> USE DEF Types
<1>1. ASSUME NEW x \in Threads, sendResponseRaw(x) PROVE ReplyInv'
  <2>1. UNCHANGED <<nreq, s_pendingRequests, info, dropped, tok>>
    BY <1>1, SendStep
  <2>2. \A y \in Threads : /\ pc'[y] = "complete" => pc[y] = "complete"
                           /\ Replies(y)' => Replies(y) /\ msg'[y] = msg[y]
    BY <1>1, SendKeepsOwner
  <2>3. \A r \in Reported' : r <= nreq /\ r \notin dropped
          /\ \A p \in s_pendingRequests : info[p].id # r
    BY <1>1, ReportedNext, ReplyOwned DEF ReplyInv
  <2> QED BY <2>1, <2>2, <2>3 DEF ReplyInv
<1>2. ASSUME AwayFromRequests PROVE ReplyInv'
  <2>1. UNCHANGED <<nreq, s_pendingRequests, info, dropped, tok, stream>>
    BY <1>2, AwayStep
  <2>2. \A y \in Threads : /\ pc'[y] = "complete" => pc[y] = "complete"
                           /\ Replies(y)' => Replies(y) /\ msg'[y] = msg[y]
    BY <1>2, AwayStep
  <2>3. Reported' = Reported
    BY <2>1 DEF Reported
  <2> QED BY <2>1, <2>2, <2>3 DEF ReplyInv
<1>3. ASSUME NEW x \in Threads, dequeueFound(x) PROVE ReplyInv'
  <2>1. /\ UNCHANGED <<nreq, info, dropped, tok, msg, stream>>
        /\ tok[x] \in s_pendingRequests /\ s_pendingRequests' \subseteq s_pendingRequests
        /\ pc'[x] = "complete" /\ \A y \in Threads \ {x} : pc'[y] = pc[y]
    BY <1>3 DEF dequeueFound, unlinked, goto, ThreadType
  <2>2. Reported' = Reported /\ \A y \in Threads : Replies(y)' => Replies(y)
    BY <2>1 DEF Reported, Replies, Sending
  <2> QED BY <2>1, <2>2 DEF ReplyInv
<1>4. ASSUME NEW x \in Threads, dequeueInvalid(x) \/ completeFree(x) PROVE ReplyInv'
  <2>1. /\ UNCHANGED <<nreq, info, dropped, s_pendingRequests, msg, stream>>
        /\ endComplete(x)
    BY <1>4 DEF dequeueInvalid, completeFree
  <2>2. /\ \A y \in Threads \ {x} : pc'[y] = pc[y] /\ tok'[y] = tok[y]
        /\ pc'[x] \in {"dequeue", "read", "idle"}
    BY <2>1, EndCompleteMoves
  <2>3. Reported' = Reported /\ \A y \in Threads : Replies(y)' => Replies(y)
    BY <2>1, <2>2 DEF Reported, Replies, Sending
  <2> QED BY <2>1, <2>2, <2>3 DEF ReplyInv
<1>5. ASSUME NEW x \in Threads, completeReport(x) PROVE ReplyInv'
  <2>1. /\ UNCHANGED <<nreq, info, dropped, s_pendingRequests, tok, stream>>
        /\ pc[x] = "complete" /\ ~info[tok[x]].cancelled /\ pc'[x] = "send"
        /\ msg'[x] = <<"resp", info[tok[x]].id>>
        /\ \A y \in Threads \ {x} : pc'[y] = pc[y] /\ msg'[y] = msg[y]
    BY <1>5 DEF completeReport, reports, beginSend, goto, ThreadType
  <2>2. Reported' = Reported /\ \A y \in Threads \ {x} : Replies(y)' => Replies(y)
    BY <2>1 DEF Reported, Replies, Sending
  <2>3. msg'[x][2] \notin dropped
    BY <2>1 DEF ReplyInv
  <2> QED BY <2>1, <2>2, <2>3 DEF ReplyInv
<1>6. ASSUME NEW x \in Threads, completeCancelled(x) PROVE ReplyInv'
  <2>1. /\ UNCHANGED <<nreq, info, dropped, s_pendingRequests, tok, msg, stream>>
        /\ pc'[x] = "free" /\ \A y \in Threads \ {x} : pc'[y] = pc[y]
    BY <1>6 DEF completeCancelled, goto, ThreadType
  <2>2. Reported' = Reported /\ \A y \in Threads : Replies(y)' => Replies(y)
    BY <2>1 DEF Reported, Replies, Sending
  <2> QED BY <2>1, <2>2 DEF ReplyInv
<1>7. ASSUME NEW x \in Workers, workerComplete(x) PROVE ReplyInv'
  <2>1. /\ UNCHANGED <<nreq, info, dropped, s_pendingRequests, msg, stream>>
        /\ pc'[x] = "dequeue"
        /\ \A y \in Threads \ {x} : pc'[y] = pc[y] /\ tok'[y] = tok[y]
    BY <1>7, ThreadFacts DEF workerComplete, goto, ThreadType, RequestType
  <2>2. Reported' = Reported /\ \A y \in Threads : Replies(y)' => Replies(y)
    BY <2>1 DEF Reported, Replies, Sending
  <2> QED BY <2>1, <2>2 DEF ReplyInv
<1>8. ASSUME requestRefused PROVE ReplyInv'
  <2>1. /\ UNCHANGED <<info, dropped, s_pendingRequests, tok, msg, stream, pc>>
        /\ nreq' = nreq + 1
    BY <1>8 DEF requestRefused, readRecord
  <2>2. Reported' = Reported /\ Reported \subseteq Nat
        /\ \A y \in Threads : Replies(y)' => Replies(y)
    BY <2>1 DEF Reported, Replies, Sending
  <2>3. dropped \subseteq 0 .. nreq' /\ \A r \in Reported : r <= nreq'
    BY <2>1, <2>2 DEF ReplyInv, RequestType
  <2> QED BY <2>1, <2>2, <2>3 DEF ReplyInv
<1>9. ASSUME requestStuck \/ requestInline \/ requestQueued PROVE ReplyInv'
  <2>1. PICK p \in Infos :
          /\ p \notin allocated
          /\ s_pendingRequests' = s_pendingRequests \cup {p}
          /\ info'[p].id = nreq + 1
          /\ \A q \in Infos \ {p} : info'[q] = info[q]
          /\ pc'[Dispatch] \in {"read", "dequeue"}
    BY <1>9, PushStep
  <2>2. /\ nreq' = nreq + 1 /\ UNCHANGED <<msg, dropped, stream>>
        /\ \A y \in Threads \ {Dispatch} : pc'[y] = pc[y] /\ tok'[y] = tok[y]
    BY <1>9, PushStep
  <2>3. Reported' = Reported /\ Reported \subseteq Nat
        /\ \A y \in Threads : Replies(y)' => Replies(y)
    BY <2>1, <2>2 DEF Reported, Replies, Sending
  <2>4. /\ dropped \subseteq 0 .. nreq' /\ \A r \in Reported : r <= nreq'
        /\ nreq + 1 \notin dropped /\ nreq + 1 \notin Reported
    BY <2>2, <2>3 DEF ReplyInv, RequestType
  <2>5. \A q \in s_pendingRequests : q \in Infos /\ q # p /\ info'[q] = info[q]
    BY <2>1 DEF OwnInv, ListInv, RequestType
  <2>6. \A y \in Threads : pc'[y] = "complete" =>
          pc[y] = "complete" /\ info'[tok'[y]] = info[tok[y]]
    <3>1. \A y \in Threads : pc[y] = "complete" => tok[y] \in allocated
      BY ReplyOwned
    <3> QED BY <2>1, <2>2, <3>1 DEF RequestType
  <2>7. /\ \A r \in Reported : \A q \in s_pendingRequests' : info'[q].id # r
        /\ \A q \in s_pendingRequests' : info'[q].id \in dropped => info'[q].cancelled
    BY <2>1, <2>4, <2>5 DEF ReplyInv
  <2> QED BY <2>2, <2>3, <2>4, <2>6, <2>7 DEF ReplyInv
<1>10. ASSUME onCommandsSocketClosed PROVE ReplyInv'
  <2>1. /\ UNCHANGED <<nreq, s_pendingRequests, tok, msg, stream>>
        /\ \A p \in s_pendingRequests : info'[p].id = info[p].id /\ info'[p].cancelled
        /\ \A p \in allocated \ s_pendingRequests : info'[p] = info[p]
        /\ dropped' = dropped \cup {info[p].id : p \in s_pendingRequests}
        /\ pc'[Dispatch] = "listen"
        /\ \A y \in Threads \ {Dispatch} : pc'[y] = pc[y]
    BY <1>10, CloseStep DEF RequestType
  <2>2. Reported' = Reported /\ \A y \in Threads : Replies(y)' => Replies(y)
    BY <2>1 DEF Reported, Replies, Sending
  <2>3. \A r \in Reported : r \notin dropped'
    BY <2>1 DEF ReplyInv
  <2>4. dropped' \subseteq 0 .. nreq
    <3>1. \A p \in s_pendingRequests : info[p].id \in 0 .. nreq
      BY DEF OwnInv, ListInv, RequestType
    <3> QED BY <2>1, <3>1, ZenonT(60) DEF ReplyInv
  <2>5. \A y \in Threads : Replies(y) => msg[y][2] \notin dropped'
    BY <2>1, ReplyOwned DEF ReplyInv
  <2>6. \A y \in Threads : pc'[y] = "complete" /\ info'[tok[y]].id \in dropped' =>
          info'[tok[y]].cancelled
    <3>1. ASSUME NEW y \in Threads, pc'[y] = "complete", info'[tok[y]].id \in dropped'
          PROVE  info'[tok[y]].cancelled
      <4>1. pc[y] = "complete"
        BY <2>1, <3>1
      <4>2. tok[y] \in allocated /\ tok[y] \notin s_pendingRequests
        BY <4>1, ReplyOwned DEF OwnInv, HolderInv, Completing
      <4>3. info'[tok[y]] = info[tok[y]] /\ info[tok[y]].id \in dropped
        BY <2>1, <3>1, <4>1, <4>2, ReplyOwned
      <4> QED BY <4>1, <4>3 DEF ReplyInv
    <3> QED BY <3>1
  <2> QED BY <2>1, <2>2, <2>3, <2>4, <2>5, <2>6 DEF ReplyInv
<1> QED BY <1>1, <1>2, <1>3, <1>4, <1>5, <1>6, <1>7, <1>8, <1>9, <1>10, StepsOfOwners

LEMMA InitReply == ASSUME Init PROVE ReplyInv
<1>1. \A c \in Conns : Len(stream[c]) = 0
  BY EmptySeq DEF Init
<1>2. Reported = {}
  BY <1>1 DEF Reported
<1>3. \A x \in Threads : ~Replies(x) /\ pc[x] # "complete"
  BY DEF Init, Replies, Sending
<1> QED BY <1>2, <1>3 DEF Init, ReplyInv

LEMMA Replying == Spec => []ReplyInv
<1>1. Init => ReplyInv
  BY InitReply
<1>2. Types /\ OwnInv /\ ReplyInv /\ [Next]_vars => ReplyInv'
  BY ReplyNext
<1> QED BY <1>1, <1>2, Typing, Owning, PTL DEF Spec

\* A request found on the list when its client went away is never answered,
\* not even when its completion was already under way or its RequestInfo's
\* address is used again (onCommandsSocketClosed, RIL_onRequestComplete).
THEOREM CancelledStaysSilent == Spec => []CancelledNotReported
<1>1. Types /\ ReplyInv => CancelledNotReported
  <2> SUFFICES ASSUME Types, ReplyInv, NEW c \in Conns, NEW i \in DOMAIN stream[c],
                      stream[c][i][2][1] = "resp"
               PROVE  stream[c][i][2][2] \notin dropped
    BY DEF CancelledNotReported
  <2>1. stream[c] \in Seq(Entries) /\ DOMAIN stream[c] = 1 .. Len(stream[c])
    BY LenProperties DEF Types, ConnType
  <2>2. stream[c][i] \in Entries
    BY <2>1, ElementOfSeq
  <2>3. stream[c][i][2] = <<"resp", stream[c][i][2][2]>> /\ stream[c][i][2][2] \in Nat
    BY <2>2 DEF Entries, Msgs
  <2>4. stream[c][i][2][2] \in Reported
    BY <2>1, <2>3 DEF Reported
  <2> QED BY <2>4 DEF ReplyInv
<1> QED BY <1>1, Typing, Replying, PTL

-----------------------------------------------------------------------------
(* The NITZ times.                                                         *)

\* x has the NITZ time k to send or to keep.
HasNitz(x, k) ==
  (Sending(x) \/ pc[x] \in {"keepFree", "keep"}) /\ msg[x] = <<"nitz", k>>

\* A NITZ time is in one place: a worker's hands, or s_lastNITZTimeData, from
\* where the dispatch thread takes it.
NitzInv ==
  /\ s_lastNITZTimeData <= nnitz
  /\ \A x \in Workers : Sending(x) => msg[x][1] # "radio"
  /\ \A x \in Workers : pc[x] \in {"keepFree", "keep"} => msg[x][1] = "nitz"
  /\ \A x \in Threads : \A k \in Nat : HasNitz(x, k) => k \in 1 .. nnitz
  /\ \A x, y \in Workers : \A k \in Nat : HasNitz(x, k) /\ HasNitz(y, k) => x = y
  /\ \A x \in Workers : \A k \in Nat :
       HasNitz(x, k) => s_lastNITZTimeData # k /\ ~HasNitz(Dispatch, k)

\* The steps in which no thread is given a NITZ time and none is kept.
AwayFromNitz ==
  \/ \E x \in Threads : RIL_onRequestComplete(x)
  \/ \E x \in Workers : workerComplete(x) \/ keepNitzFree(x)
  \/ listenCallback \/ lastNitzNone \/ lastNitzFree
  \/ selectCommands \/ selectFails
  \/ requestRefused \/ requestStuck \/ requestInline \/ requestQueued
  \/ readEagain \/ closeCommand \/ resetCommand \/ onCommandsSocketClosed
  \/ \E c \in Conns : clientSend(c) \/ clientEnd(c)
  \/ UNCHANGED vars

\* A thread between two steps that do not send: it keeps its NITZ time, if
\* any, and takes up nothing but an answer or, on the dispatch thread, the
\* radio state.
Undisturbed(y) ==
  /\ \A k \in Nat : HasNitz(y, k)' => HasNitz(y, k)
  /\ Sending(y)' => \/ msg'[y][1] = "resp"
                    \/ y = Dispatch
                    \/ Sending(y) /\ msg'[y] = msg[y]
  /\ pc'[y] \in {"keepFree", "keep"} =>
       pc[y] \in {"keepFree", "keep"} /\ msg'[y] = msg[y]
  /\ y = Dispatch /\ pc[y] \in {"nitzFree", "nitzNull"} =>
       pc'[y] \in {"nitzFree", "nitzNull"}

LEMMA AwayFromNitzStep ==
  ASSUME Types, AwayFromNitz
  PROVE  /\ UNCHANGED <<nnitz, s_lastNITZTimeData, stream>>
         /\ \A y \in Threads : Undisturbed(y)
<1> USE ThreadFacts DEF Types
<1>0. ASSUME NEW y \in Threads, pc'[y] = pc[y], msg'[y] = msg[y] PROVE Undisturbed(y)
  BY <1>0 DEF Undisturbed, HasNitz, Sending
<1>1. ASSUME NEW y \in Threads, pc'[y] \notin SendPoints, pc'[y] \notin {"keepFree", "keep"},
             y = Dispatch /\ pc[y] \in {"nitzFree", "nitzNull"} =>
               pc'[y] \in {"nitzFree", "nitzNull"}
      PROVE  Undisturbed(y)
  BY <1>1 DEF Undisturbed, HasNitz, Sending, SendPoints
<1>2. ASSUME NEW x \in Threads, RIL_onRequestComplete(x)
      PROVE  /\ UNCHANGED <<nnitz, s_lastNITZTimeData, stream>>
             /\ \A y \in Threads : Undisturbed(y)
  <2>1. CASE completeReport(x)
    <3>1. /\ UNCHANGED <<nnitz, s_lastNITZTimeData, stream>>
          /\ pc[x] = "complete" /\ pc'[x] = "send"
          /\ msg'[x] = <<"resp", info[tok[x]].id>>
          /\ \A y \in Threads \ {x} : pc'[y] = pc[y] /\ msg'[y] = msg[y]
      BY <2>1 DEF completeReport, beginSend, goto, ThreadType
    <3>2. msg'[x][1] = "resp" /\ \A k \in Nat : msg'[x] # <<"nitz", k>>
      BY <3>1
    <3>3. Undisturbed(x)
      BY <3>1, <3>2 DEF Undisturbed, HasNitz, Sending
    <3> QED BY <1>0, <3>1, <3>3
  <2>2. CASE dequeueFound(x) \/ completeCancelled(x)
    <3>1. /\ UNCHANGED <<nnitz, s_lastNITZTimeData, stream, msg>>
          /\ pc[x] \in {"dequeue", "complete"} /\ pc'[x] \in {"complete", "free"}
          /\ \A y \in Threads \ {x} : pc'[y] = pc[y]
      BY <2>2 DEF dequeueFound, completeCancelled, goto, ThreadType
    <3> QED BY <1>0, <1>1, <3>1 DEF SendPoints
  <2>3. CASE dequeueInvalid(x) \/ completeFree(x)
    <3>1. /\ UNCHANGED <<nnitz, s_lastNITZTimeData, stream, msg>>
          /\ pc[x] \in {"dequeue", "free"} /\ endComplete(x)
      BY <2>3 DEF dequeueInvalid, completeFree
    <3>2. /\ pc'[x] \in {"dequeue", "read", "idle"}
          /\ \A y \in Threads \ {x} : pc'[y] = pc[y]
      BY <3>1, EndCompleteMoves
    <3> QED BY <1>0, <1>1, <3>1, <3>2 DEF SendPoints
  <2> QED BY <1>2, <2>1, <2>2, <2>3 DEF RIL_onRequestComplete
<1>3. ASSUME NEW x \in Workers, workerComplete(x)
      PROVE  /\ UNCHANGED <<nnitz, s_lastNITZTimeData, stream>>
             /\ \A y \in Threads : Undisturbed(y)
  <2>1. /\ UNCHANGED <<nnitz, s_lastNITZTimeData, stream, msg>>
        /\ pc'[x] = "dequeue" /\ \A y \in Threads \ {x} : pc'[y] = pc[y]
    BY <1>3 DEF workerComplete, goto, ThreadType
  <2> QED BY <1>0, <1>1, <2>1 DEF SendPoints
<1>4. ASSUME NEW x \in Workers, keepNitzFree(x)
      PROVE  /\ UNCHANGED <<nnitz, s_lastNITZTimeData, stream>>
             /\ \A y \in Threads : Undisturbed(y)
  <2>1. /\ UNCHANGED <<nnitz, s_lastNITZTimeData, stream, msg>>
        /\ pc[x] = "keepFree" /\ pc'[x] = "keep" /\ \A y \in Threads \ {x} : pc'[y] = pc[y]
    BY <1>4 DEF keepNitzFree, freeNitz, goto, ThreadType
  <2>2. Undisturbed(x)
    BY <2>1 DEF Undisturbed, HasNitz, Sending
  <2> QED BY <1>0, <2>1, <2>2
<1>5. CASE listenCallback
  <2>1. /\ UNCHANGED <<nnitz, s_lastNITZTimeData, stream>>
        /\ pc[Dispatch] = "listen" /\ pc'[Dispatch] = "send" /\ msg'[Dispatch] = <<"radio", 0>>
        /\ \A y \in Threads \ {Dispatch} : pc'[y] = pc[y] /\ msg'[y] = msg[y]
    BY <1>5 DEF listenCallback, beginSend, goto, radioStateChanged, ThreadType
  <2>2. \A k \in Nat : msg'[Dispatch] # <<"nitz", k>>
    BY <2>1
  <2>3. Undisturbed(Dispatch)
    BY <2>1, <2>2 DEF Undisturbed, HasNitz, Sending
  <2> QED BY <1>0, <2>1, <2>3
<1>6. CASE \/ lastNitzNone \/ lastNitzFree \/ selectCommands \/ selectFails \/ readEagain
           \/ closeCommand \/ resetCommand \/ onCommandsSocketClosed
  <2>1. /\ UNCHANGED <<nnitz, s_lastNITZTimeData, stream, msg>>
        /\ pc[Dispatch] # "nitzNull"
        /\ pc[Dispatch] = "nitzFree" => pc'[Dispatch] = "nitzNull"
        /\ pc'[Dispatch] \in {"select", "nitzNull", "read", "stopped", "reset", "cancel",
                              "listen"}
        /\ \A y \in Threads \ {Dispatch} : pc'[y] = pc[y]
    BY <1>6 DEF lastNitzNone, lastNitzFree, freeNitz, selectCommands, selectFails,
       readEagain, closeCommand, resetCommand, onCommandsSocketClosed, goto, ThreadType
  <2>2. Undisturbed(Dispatch)
    BY <1>1, <2>1 DEF SendPoints
  <2> QED BY <1>0, <2>1, <2>2
<1>7. CASE requestStuck \/ requestInline \/ requestQueued
  <2>1. /\ pc[Dispatch] = "read" /\ pc'[Dispatch] \in {"read", "dequeue"}
        /\ UNCHANGED <<stream, msg, nnitz, s_lastNITZTimeData>>
        /\ \A y \in Threads \ {Dispatch} : pc'[y] = pc[y]
    BY <1>7, PushStep
  <2>2. Undisturbed(Dispatch)
    BY <1>1, <2>1 DEF SendPoints
  <2> QED BY <1>0, <2>1, <2>2
<1>8. CASE requestRefused \/ \E c \in Conns : clientSend(c) \/ clientEnd(c)
  <2>1. UNCHANGED <<nnitz, s_lastNITZTimeData, stream, msg, pc>>
    BY <1>8 DEF requestRefused, clientSend, clientEnd
  <2> QED BY <1>0, <2>1
<1>9. CASE UNCHANGED vars
  <2>1. UNCHANGED <<nnitz, s_lastNITZTimeData, stream, msg, pc>>
    BY <1>9 DEF vars
  <2> QED BY <1>0, <2>1
<1> QED BY <1>2, <1>3, <1>4, <1>5, <1>6, <1>7, <1>8, <1>9 DEF AwayFromNitz

LEMMA StepsOfNitz ==
  ASSUME [Next]_vars
  PROVE  \/ \E x \in Threads : sendResponseRaw(x)
         \/ lastNitzSend \/ lastNitzNull
         \/ \E x \in Workers : onUnsolicitedNitz(x) \/ keepNitz(x)
         \/ AwayFromNitz
BY DEF Next, ThreadStep, DispatchNext, WorkerNext, ClientNext, DispatchStep, WorkerStep,
   AwayFromNitz

\* sendResponseRaw gives no thread a NITZ time; a worker that could not send
\* one goes on to keep it.
LEMMA SendNitz ==
  ASSUME Types, NitzInv, NEW x \in Threads, sendResponseRaw(x), NEW y \in Threads
  PROVE  /\ \A k \in Nat : HasNitz(y, k)' => HasNitz(y, k)
         /\ Sending(y)' => Sending(y) /\ msg'[y] = msg[y]
         /\ y \in Workers /\ pc'[y] \in {"keepFree", "keep"} => msg'[y][1] = "nitz"
         /\ y = Dispatch /\ pc[y] \in {"nitzFree", "nitzNull"} => pc'[y] = pc[y]
<1> USE ThreadFacts DEF Types
<1>1. CASE y # x
  <2>1. pc'[y] = pc[y] /\ msg'[y] = msg[y]
    BY <1>1, SendStep
  <2> QED BY <2>1 DEF NitzInv, HasNitz, Sending
<1>2. CASE y = x /\ pc'[x] \in SendPoints /\ msg'[x] = msg[x]
  BY <1>2, SendStep DEF HasNitz, Sending, SendPoints
<1>3. CASE /\ y = x
           /\ \E ok \in BOOLEAN :
                /\ pc'[x] = returnLabel(x, ok)
                /\ msg'[x] = IF pc'[x] = "keepFree" THEN msg[x] ELSE radioStateChanged
  <2>1. /\ pc'[x] \in {"free", "nitz", "nitzFree", "idle", "keepFree"}
        /\ pc'[x] = "keepFree" => msg'[x] = msg[x] /\ msg[x][1] # "resp"
    BY <1>3, ReturnPoint DEF returnLabel
  <2>2. Sending(x)
    BY SendStep
  <2>3. msg[x][1] \in {"resp", "radio", "nitz"}
    BY DEF ThreadType, Msgs
  <2> QED BY <1>3, <2>1, <2>2, <2>3 DEF NitzInv, HasNitz, Sending
<1> QED BY <1>1, <1>2, <1>3, SendStep

LEMMA NitzNext == ASSUME Types, NitzInv, [Next]_vars PROVE NitzInv'
<1> USE ThreadFacts DEF Types
<1>1. ASSUME UNCHANGED <<nnitz, s_lastNITZTimeData>>,
             \A y \in Threads : \A k \in Nat : HasNitz(y, k)' => HasNitz(y, k),
             \A y \in Workers : Sending(y)' => msg'[y][1] # "radio",
             \A y \in Workers : pc'[y] \in {"keepFree", "keep"} => msg'[y][1] = "nitz"
      PROVE  NitzInv'
  BY <1>1 DEF NitzInv
<1>2. ASSUME NEW x \in Threads, sendResponseRaw(x) PROVE NitzInv'
  <2>1. UNCHANGED <<nnitz, s_lastNITZTimeData>>
    BY <1>2, SendStep
  <2>2. \A y \in Threads : /\ \A k \in Nat : HasNitz(y, k)' => HasNitz(y, k)
                           /\ Sending(y)' => Sending(y) /\ msg'[y] = msg[y]
                           /\ y \in Workers /\ pc'[y] \in {"keepFree", "keep"} =>
                                msg'[y][1] = "nitz"
    BY <1>2, SendNitz
  <2>3. \A y \in Workers : Sending(y)' => msg'[y][1] # "radio"
    BY <2>2 DEF NitzInv
  <2> QED BY <1>1, <2>1, <2>2, <2>3
<1>3. ASSUME AwayFromNitz PROVE NitzInv'
  <2>1. UNCHANGED <<nnitz, s_lastNITZTimeData>> /\ \A y \in Threads : Undisturbed(y)
    BY <1>3, AwayFromNitzStep
  <2>2. \A y \in Threads : \A k \in Nat : HasNitz(y, k)' => HasNitz(y, k)
    BY <2>1 DEF Undisturbed
  <2>3. \A y \in Workers : Sending(y)' => msg'[y][1] # "radio"
    BY <2>1 DEF Undisturbed, NitzInv
  <2>4. \A y \in Workers : pc'[y] \in {"keepFree", "keep"} => msg'[y][1] = "nitz"
    BY <2>1 DEF Undisturbed, NitzInv
  <2> QED BY <1>1, <2>1, <2>2, <2>3, <2>4
<1>4. ASSUME lastNitzSend PROVE NitzInv'
  <2>1. /\ UNCHANGED <<nnitz, s_lastNITZTimeData>> /\ s_lastNITZTimeData # 0
        /\ msg'[Dispatch] = <<"nitz", s_lastNITZTimeData>> /\ pc'[Dispatch] = "send"
        /\ \A y \in Threads \ {Dispatch} : pc'[y] = pc[y] /\ msg'[y] = msg[y]
    BY <1>4 DEF lastNitzSend, beginSend, goto, ThreadType
  <2>2. /\ \A y \in Workers : \A k \in Nat : HasNitz(y, k)' <=> HasNitz(y, k)
        /\ \A k \in Nat : HasNitz(Dispatch, k)' => k = s_lastNITZTimeData
    BY <2>1 DEF HasNitz, Sending
  <2>3. s_lastNITZTimeData \in 1 .. nnitz
    BY <2>1 DEF NitzInv, RequestType
  <2>4. /\ \A y \in Workers : Sending(y)' => msg'[y][1] # "radio"
        /\ \A y \in Workers : pc'[y] \in {"keepFree", "keep"} => msg'[y][1] = "nitz"
    BY <2>1 DEF NitzInv, Sending
  <2>5. \A y \in Threads : \A k \in Nat : HasNitz(y, k)' => k \in 1 .. nnitz
    BY <2>2, <2>3 DEF NitzInv
  <2>6. \A y \in Workers : \A k \in Nat :
          HasNitz(y, k)' => s_lastNITZTimeData # k /\ ~HasNitz(Dispatch, k)'
    BY <2>2 DEF NitzInv
  <2> QED BY <2>1, <2>2, <2>4, <2>5, <2>6 DEF NitzInv
<1>5. ASSUME lastNitzNull PROVE NitzInv'
  <2>1. /\ nnitz' = nnitz /\ s_lastNITZTimeData' = 0 /\ msg' = msg
        /\ pc'[Dispatch] = "select" /\ \A y \in Threads \ {Dispatch} : pc'[y] = pc[y]
    BY <1>5 DEF lastNitzNull, goto, ThreadType
  <2>2. /\ \A y \in Threads : \A k \in Nat : HasNitz(y, k)' => HasNitz(y, k)
        /\ \A y \in Workers : Sending(y)' => Sending(y)
    BY <2>1 DEF HasNitz, Sending
  <2>3. \A y \in Workers : \A k \in Nat : HasNitz(y, k) => k # 0
    BY DEF NitzInv
  <2>4. s_lastNITZTimeData' <= nnitz'
    BY <2>1 DEF RequestType
  <2> QED BY <2>1, <2>2, <2>3, <2>4 DEF NitzInv
<1>6. ASSUME NEW x \in Workers, onUnsolicitedNitz(x) PROVE NitzInv'
  <2>1. /\ nnitz' = nnitz + 1 /\ s_lastNITZTimeData' = s_lastNITZTimeData
        /\ msg'[x] = <<"nitz", nnitz + 1>> /\ pc'[x] = "send"
        /\ \A y \in Threads \ {x} : pc'[y] = pc[y] /\ msg'[y] = msg[y]
    BY <1>6 DEF onUnsolicitedNitz, beginSend, goto, ThreadType
  <2>2. /\ \A y \in Threads \ {x} : \A k \in Nat : HasNitz(y, k)' <=> HasNitz(y, k)
        /\ \A k \in Nat : HasNitz(x, k)' => k = nnitz + 1
    BY <2>1 DEF HasNitz, Sending
  <2>3. nnitz \in Nat /\ s_lastNITZTimeData \in Nat /\ s_lastNITZTimeData <= nnitz
    BY DEF NitzInv, RequestType
  <2>4. /\ s_lastNITZTimeData' <= nnitz' /\ nnitz + 1 \in 1 .. nnitz'
        /\ s_lastNITZTimeData # nnitz + 1
        /\ \A k \in 1 .. nnitz : k \in 1 .. nnitz' /\ k # nnitz + 1
    BY <2>1, <2>3
  <2>5. \A y \in Threads : \A k \in Nat : HasNitz(y, k) => k \in 1 .. nnitz
    BY DEF NitzInv
  <2>6. \A y \in Threads : \A k \in Nat : HasNitz(y, k)' => k \in 1 .. nnitz'
    BY <2>2, <2>4, <2>5
  <2>7. \A y, z \in Workers : \A k \in Nat : HasNitz(y, k)' /\ HasNitz(z, k)' => y = z
    BY <2>2, <2>4, <2>5 DEF NitzInv
  <2>8. \A y \in Workers : \A k \in Nat :
          HasNitz(y, k)' => s_lastNITZTimeData # k /\ ~HasNitz(Dispatch, k)'
    BY <2>2, <2>4, <2>5 DEF NitzInv
  <2>9. /\ \A y \in Workers : Sending(y)' => msg'[y][1] # "radio"
        /\ \A y \in Workers : pc'[y] \in {"keepFree", "keep"} => msg'[y][1] = "nitz"
    BY <2>1 DEF NitzInv, Sending
  <2> QED BY <2>1, <2>4, <2>6, <2>7, <2>8, <2>9 DEF NitzInv
<1>7. ASSUME NEW x \in Workers, keepNitz(x) PROVE NitzInv'
  <2>1. /\ nnitz' = nnitz /\ s_lastNITZTimeData' = msg[x][2] /\ pc[x] = "keep"
        /\ pc'[x] = "idle" /\ \A y \in Threads \ {x} : pc'[y] = pc[y] /\ msg'[y] = msg[y]
    BY <1>7 DEF keepNitz, goto, ThreadType
  <2>2. /\ \A y \in Threads \ {x} : \A k \in Nat : HasNitz(y, k)' <=> HasNitz(y, k)
        /\ \A k \in Nat : ~HasNitz(x, k)'
    BY <2>1 DEF HasNitz, Sending
  <2>3. msg[x][2] \in Nat /\ msg[x] = <<"nitz", msg[x][2]>>
    BY <2>1 DEF NitzInv, ThreadType, Msgs
  <2>4. HasNitz(x, msg[x][2])
    BY <2>1, <2>3 DEF HasNitz
  <2>5. msg[x][2] <= nnitz
    BY <2>3, <2>4 DEF NitzInv
  <2>6. \A y \in Workers : \A k \in Nat :
          HasNitz(y, k)' => msg[x][2] # k /\ ~HasNitz(Dispatch, k)'
    BY <2>2, <2>3, <2>4 DEF NitzInv
  <2>7. /\ \A y \in Workers : Sending(y)' => msg'[y][1] # "radio"
        /\ \A y \in Workers : pc'[y] \in {"keepFree", "keep"} => msg'[y][1] = "nitz"
    BY <2>1 DEF NitzInv, Sending
  <2> QED BY <2>1, <2>2, <2>5, <2>6, <2>7 DEF NitzInv
<1> QED BY <1>2, <1>3, <1>4, <1>5, <1>6, <1>7, StepsOfNitz

LEMMA Nitzing == Spec => []NitzInv
<1>1. Init => NitzInv
  <2> SUFFICES ASSUME Init PROVE NitzInv
    OBVIOUS
  <2>1. \A x \in Threads : ~Sending(x) /\ pc[x] \notin {"keepFree", "keep"}
    BY DEF Init, Sending
  <2> QED BY <2>1, ThreadFacts DEF Init, NitzInv, HasNitz
<1>2. Types /\ NitzInv /\ [Next]_vars => NitzInv'
  BY NitzNext
<1> QED BY <1>1, <1>2, Typing, PTL DEF Spec

-----------------------------------------------------------------------------
(* What has been delivered is not delivered again.                         *)

\* x will write the payload of the answer to r, if all goes well.
WillAnswer(x, r) ==
  \/ pc[x] = "complete" /\ info[tok[x]].id = r
  \/ Replies(x) /\ msg[x][2] = r

\* No thread is left that would write m, or that could come to.
Spent(m) ==
  /\ m[1] = "resp" => \A x \in Threads : ~WillAnswer(x, m[2])
  /\ m[1] = "nitz" =>
       /\ m[2] \in 1 .. nnitz
       /\ \A x \in Threads : ~HasNitz(x, m[2])
       /\ s_lastNITZTimeData = m[2] => pc[Dispatch] \in {"nitzFree", "nitzNull"}

isPayload(c, i, m) == stream[c][i][1] # "hdr" /\ stream[c][i][2] = m

Delivered ==
  {m \in Msgs : \E c \in Conns : \E i \in 1 .. Len(stream[c]) : isPayload(c, i, m)}

SingleInv ==
  \A m \in Msgs : m[1] # "radio" =>
    \A c, d \in Conns : \A i \in 1 .. Len(stream[c]), j \in 1 .. Len(stream[d]) :
      isPayload(c, i, m) /\ isPayload(d, j, m) => c = d /\ i = j

OnceInv == (\A m \in Delivered : Spent(m)) /\ SingleInv

\* A thread comes to answer a request by finding it on the list only.
LEMMA AnswerNext ==
  ASSUME Types, OwnInv, [Next]_vars, NEW y \in Threads, NEW r, WillAnswer(y, r)'
  PROVE  WillAnswer(y, r) \/ \E p \in s_pendingRequests : info[p].id = r
<1> USE DEF Types
<1>1. ASSUME UNCHANGED <<info, tok>>,
             pc'[y] = "complete" => pc[y] = "complete",
             Replies(y)' => Replies(y) /\ msg'[y] = msg[y]
      PROVE  WillAnswer(y, r)
  BY <1>1 DEF WillAnswer
<1>2. ASSUME NEW x \in Threads, sendResponseRaw(x) PROVE WillAnswer(y, r)
  <2>1. UNCHANGED <<info, tok>>
    BY <1>2, SendStep
  <2>2. /\ pc'[y] = "complete" => pc[y] = "complete"
        /\ Replies(y)' => Replies(y) /\ msg'[y] = msg[y]
    BY <1>2, SendKeepsOwner
  <2> QED BY <1>1, <2>1, <2>2
<1>3. ASSUME AwayFromRequests PROVE WillAnswer(y, r)
  BY <1>1, <1>3, AwayStep
<1>4. ASSUME NEW x \in Threads, dequeueFound(x)
      PROVE  WillAnswer(y, r) \/ \E p \in s_pendingRequests : info[p].id = r
  <2>1. /\ UNCHANGED <<info, tok, msg>> /\ tok[x] \in s_pendingRequests
        /\ pc'[x] = "complete" /\ \A z \in Threads \ {x} : pc'[z] = pc[z]
    BY <1>4 DEF dequeueFound, goto, ThreadType
  <2> QED BY <2>1 DEF WillAnswer, Replies, Sending
<1>5. ASSUME NEW x \in Threads, dequeueInvalid(x) \/ completeFree(x) PROVE WillAnswer(y, r)
  <2>1. UNCHANGED <<info, msg>> /\ endComplete(x)
    BY <1>5 DEF dequeueInvalid, completeFree
  <2>2. /\ \A z \in Threads \ {x} : pc'[z] = pc[z] /\ tok'[z] = tok[z]
        /\ pc'[x] \in {"dequeue", "read", "idle"}
    BY <2>1, EndCompleteMoves
  <2> QED BY <2>1, <2>2 DEF WillAnswer, Replies, Sending
<1>6. ASSUME NEW x \in Threads, completeReport(x) PROVE WillAnswer(y, r)
  <2>1. /\ UNCHANGED <<info, tok>> /\ pc[x] = "complete" /\ pc'[x] = "send"
        /\ msg'[x] = <<"resp", info[tok[x]].id>>
        /\ \A z \in Threads \ {x} : pc'[z] = pc[z] /\ msg'[z] = msg[z]
    BY <1>6 DEF completeReport, beginSend, goto, ThreadType
  <2>2. msg'[x][2] = info[tok[x]].id
    BY <2>1
  <2> QED BY <2>1, <2>2 DEF WillAnswer, Replies, Sending
<1>7. ASSUME NEW x \in Threads, completeCancelled(x) PROVE WillAnswer(y, r)
  <2>1. /\ UNCHANGED <<info, tok, msg>> /\ pc'[x] = "free"
        /\ \A z \in Threads \ {x} : pc'[z] = pc[z]
    BY <1>7 DEF completeCancelled, goto, ThreadType
  <2> QED BY <2>1 DEF WillAnswer, Replies, Sending
<1>8. ASSUME NEW x \in Workers, workerComplete(x) PROVE WillAnswer(y, r)
  <2>1. /\ UNCHANGED <<info, msg>> /\ pc'[x] = "dequeue"
        /\ \A z \in Threads \ {x} : pc'[z] = pc[z] /\ tok'[z] = tok[z]
    BY <1>8, ThreadFacts DEF workerComplete, goto, ThreadType, RequestType
  <2> QED BY <2>1 DEF WillAnswer, Replies, Sending
<1>9. ASSUME requestRefused PROVE WillAnswer(y, r)
  <2>1. UNCHANGED <<info, tok, msg, pc>>
    BY <1>9 DEF requestRefused
  <2> QED BY <2>1 DEF WillAnswer, Replies, Sending
<1>10. ASSUME requestStuck \/ requestInline \/ requestQueued PROVE WillAnswer(y, r)
  <2>1. PICK p \in Infos :
          /\ p \notin allocated
          /\ \A q \in Infos \ {p} : info'[q] = info[q]
          /\ pc'[Dispatch] \in {"read", "dequeue"}
    BY <1>10, PushStep
  <2>2. msg' = msg /\ \A z \in Threads \ {Dispatch} : pc'[z] = pc[z] /\ tok'[z] = tok[z]
    BY <1>10, PushStep
  <2>3. pc[y] = "complete" => tok[y] \in allocated /\ tok[y] \in Infos
    BY ReplyOwned DEF RequestType
  <2> QED BY <2>1, <2>2, <2>3 DEF WillAnswer, Replies, Sending
<1>11. ASSUME onCommandsSocketClosed PROVE WillAnswer(y, r)
  <2>1. /\ UNCHANGED <<tok, msg>> /\ \A p \in Infos : info'[p].id = info[p].id
        /\ pc'[Dispatch] = "listen" /\ \A z \in Threads \ {Dispatch} : pc'[z] = pc[z]
    BY <1>11, CloseStep
  <2>2. pc[y] = "complete" => tok[y] \in Infos
    BY DEF RequestType
  <2> QED BY <2>1, <2>2 DEF WillAnswer, Replies, Sending
<1> QED BY <1>2, <1>3, <1>4, <1>5, <1>6, <1>7, <1>8, <1>9, <1>10, <1>11, StepsOfOwners

\* A message once spent stays so.
LEMMA SpentNext ==
  ASSUME Types, OwnInv, ReplyInv, NitzInv, [Next]_vars, NEW m \in Msgs, Spent(m),
         m[1] = "resp" => m[2] \in Reported
  PROVE  Spent(m)'
<1> USE ThreadFacts DEF Types
<1>1. m[1] = "resp" => \A x \in Threads : ~WillAnswer(x, m[2])'
  BY AnswerNext DEF Spent, ReplyInv
<1>2. ASSUME m[1] = "nitz"
      PROVE  /\ m[2] \in 1 .. nnitz'
             /\ \A x \in Threads : ~HasNitz(x, m[2])'
             /\ s_lastNITZTimeData' = m[2] => pc'[Dispatch] \in {"nitzFree", "nitzNull"}
  <2> DEFINE k == m[2]
  <2>0. /\ k \in Nat /\ k \in 1 .. nnitz /\ nnitz \in Nat
        /\ \A x \in Threads : ~HasNitz(x, k)
        /\ s_lastNITZTimeData = k => pc[Dispatch] \in {"nitzFree", "nitzNull"}
    BY <1>2 DEF Spent, Msgs, RequestType
  <2> HIDE DEF k
  <2>1. ASSUME UNCHANGED <<nnitz, s_lastNITZTimeData>>,
               \A y \in Threads : HasNitz(y, k)' => HasNitz(y, k),
               pc[Dispatch] \in {"nitzFree", "nitzNull"} =>
                 pc'[Dispatch] \in {"nitzFree", "nitzNull"}
        PROVE  /\ k \in 1 .. nnitz'
               /\ \A x \in Threads : ~HasNitz(x, k)'
               /\ s_lastNITZTimeData' = k => pc'[Dispatch] \in {"nitzFree", "nitzNull"}
    BY <2>0, <2>1
  <2>2. ASSUME NEW x \in Threads, sendResponseRaw(x)
        PROVE  /\ k \in 1 .. nnitz'
               /\ \A y \in Threads : ~HasNitz(y, k)'
               /\ s_lastNITZTimeData' = k => pc'[Dispatch] \in {"nitzFree", "nitzNull"}
    <3>1. UNCHANGED <<nnitz, s_lastNITZTimeData>>
      BY <2>2, SendStep
    <3>2. \A y \in Threads : HasNitz(y, k)' => HasNitz(y, k)
      BY <2>0, <2>2, SendNitz
    <3>3. pc[Dispatch] \in {"nitzFree", "nitzNull"} =>
            pc'[Dispatch] \in {"nitzFree", "nitzNull"}
      BY <2>2, SendNitz
    <3> QED BY <2>1, <3>1, <3>2, <3>3
  <2>3. ASSUME AwayFromNitz
        PROVE  /\ k \in 1 .. nnitz'
               /\ \A x \in Threads : ~HasNitz(x, k)'
               /\ s_lastNITZTimeData' = k => pc'[Dispatch] \in {"nitzFree", "nitzNull"}
    BY <2>0, <2>1, <2>3, AwayFromNitzStep DEF Undisturbed
  <2>4. ASSUME lastNitzSend
        PROVE  /\ k \in 1 .. nnitz'
               /\ \A x \in Threads : ~HasNitz(x, k)'
               /\ s_lastNITZTimeData' = k => pc'[Dispatch] \in {"nitzFree", "nitzNull"}
    <3>1. /\ UNCHANGED <<nnitz, s_lastNITZTimeData>> /\ pc[Dispatch] = "nitz"
          /\ msg'[Dispatch] = <<"nitz", s_lastNITZTimeData>>
          /\ \A y \in Threads \ {Dispatch} : pc'[y] = pc[y] /\ msg'[y] = msg[y]
      BY <2>4 DEF lastNitzSend, beginSend, goto, ThreadType
    <3>2. s_lastNITZTimeData # k
      BY <2>0, <3>1
    <3>3. ~HasNitz(Dispatch, k)' /\ \A y \in Workers : HasNitz(y, k)' => HasNitz(y, k)
      BY <3>1, <3>2 DEF HasNitz, Sending
    <3> QED BY <2>0, <3>1, <3>2, <3>3
  <2>5. ASSUME lastNitzNull
        PROVE  /\ k \in 1 .. nnitz'
               /\ \A x \in Threads : ~HasNitz(x, k)'
               /\ s_lastNITZTimeData' = k => pc'[Dispatch] \in {"nitzFree", "nitzNull"}
    <3>1. /\ nnitz' = nnitz /\ s_lastNITZTimeData' = 0 /\ msg' = msg
          /\ pc'[Dispatch] = "select" /\ \A y \in Threads \ {Dispatch} : pc'[y] = pc[y]
      BY <2>5 DEF lastNitzNull, goto, ThreadType
    <3>2. \A y \in Threads : HasNitz(y, k)' => HasNitz(y, k)
      BY <3>1 DEF HasNitz, Sending
    <3> QED BY <2>0, <3>1, <3>2
  <2>6. ASSUME NEW x \in Workers, onUnsolicitedNitz(x)
        PROVE  /\ k \in 1 .. nnitz'
               /\ \A y \in Threads : ~HasNitz(y, k)'
               /\ s_lastNITZTimeData' = k => pc'[Dispatch] \in {"nitzFree", "nitzNull"}
    <3>1. /\ nnitz' = nnitz + 1 /\ s_lastNITZTimeData' = s_lastNITZTimeData
          /\ msg'[x] = <<"nitz", nnitz + 1>> /\ x # Dispatch
          /\ \A y \in Threads \ {x} : pc'[y] = pc[y] /\ msg'[y] = msg[y]
      BY <2>6 DEF onUnsolicitedNitz, beginSend, goto, ThreadType
    <3>2. k # nnitz + 1 /\ k \in 1 .. nnitz'
      BY <2>0, <3>1
    <3>3. ~HasNitz(x, k)' /\ \A y \in Threads \ {x} : HasNitz(y, k)' => HasNitz(y, k)
      BY <3>1, <3>2 DEF HasNitz, Sending
    <3> QED BY <2>0, <3>1, <3>2, <3>3
  <2>7. ASSUME NEW x \in Workers, keepNitz(x)
        PROVE  /\ k \in 1 .. nnitz'
               /\ \A y \in Threads : ~HasNitz(y, k)'
               /\ s_lastNITZTimeData' = k => pc'[Dispatch] \in {"nitzFree", "nitzNull"}
    <3>1. /\ nnitz' = nnitz /\ s_lastNITZTimeData' = msg[x][2] /\ pc[x] = "keep"
          /\ pc'[x] = "idle" /\ \A y \in Threads \ {x} : pc'[y] = pc[y] /\ msg'[y] = msg[y]
      BY <2>7 DEF keepNitz, goto, ThreadType
    <3>2. msg[x] = <<"nitz", msg[x][2]>>
      BY <3>1 DEF NitzInv, ThreadType, Msgs
    <3>3. msg[x][2] # k
      BY <2>0, <3>1, <3>2 DEF HasNitz
    <3>4. \A y \in Threads : HasNitz(y, k)' => HasNitz(y, k)
      BY <3>1 DEF HasNitz, Sending
    <3> QED BY <2>0, <3>1, <3>3, <3>4
  <2> QED BY <2>2, <2>3, <2>4, <2>5, <2>6, <2>7, StepsOfNitz DEF k
<1> QED BY <1>1, <1>2 DEF Spent

\* A thread that is sending is about to write something no one has delivered.
LEMMA SendingFresh ==
  ASSUME Types, OnceInv, NEW x \in Threads, Sending(x), msg[x][1] # "radio"
  PROVE  msg[x] \notin Delivered
<1>1. msg[x] \in Msgs
  BY DEF Types, ThreadType
<1>2. /\ msg[x][1] \in {"resp", "nitz"}
      /\ msg[x] = <<msg[x][1], msg[x][2]>>
  BY <1>1 DEF Msgs
<1>3. CASE msg[x][1] = "resp"
  <2>1. WillAnswer(x, msg[x][2])
    BY <1>3 DEF WillAnswer, Replies
  <2> QED BY <1>3, <2>1 DEF OnceInv, Spent
<1>4. CASE msg[x][1] = "nitz"
  <2>1. HasNitz(x, msg[x][2])
    BY <1>2, <1>4 DEF HasNitz
  <2> QED BY <1>4, <2>1 DEF OnceInv, Spent
<1> QED BY <1>2, <1>3, <1>4

\* Once its payload is written, a message has no one left to write it.
LEMMA WrittenIsSpent ==
  ASSUME Types, OwnInv, NitzInv, NEW x \in Threads, writePayload(x),
         NEW m \in Msgs, m = msg[x]
  PROVE  Spent(m)'
<1> USE ThreadFacts DEF Types
<1>0. /\ pc[x] = "payload" /\ pc'[x] = returnLabel(x, TRUE)
      /\ UNCHANGED <<nnitz, s_lastNITZTimeData, info, tok>>
      /\ \A y \in Threads \ {x} : pc'[y] = pc[y] /\ msg'[y] = msg[y]
  BY DEF writePayload, endSend, goto, ThreadType
<1>1. m = <<m[1], m[2]>> /\ m[2] \in Nat
  BY DEF Msgs
<1>2. Sending(x) /\ ~Sending(x)' /\ pc'[x] \in {"free", "nitz", "nitzFree", "idle"}
  BY <1>0 DEF Sending, returnLabel
<1>3. ASSUME m[1] = "resp", NEW y \in Threads PROVE ~WillAnswer(y, m[2])'
  <2>1. Replies(x) /\ m[2] = info[tok[x]].id /\ Completing(x)
    BY <1>2, <1>3, ReplyOwned DEF Replies
  <2>2. CASE y = x
    BY <1>2, <2>2 DEF WillAnswer, Replies
  <2>3. CASE y # x
    <3> SUFFICES ASSUME WillAnswer(y, m[2]) PROVE FALSE
      BY <1>0, <2>3 DEF WillAnswer, Replies, Sending
    <3>1. Completing(y) /\ info[tok[y]].id = m[2]
      BY ReplyOwned DEF WillAnswer
    <3>2. tok[x] \in allocated /\ tok[y] \in allocated
      BY <2>1, <3>1 DEF OwnInv, HolderInv
    <3>3. tok[x] = tok[y]
      BY <2>1, <3>1, <3>2 DEF OwnInv, ListInv
    <3> QED BY <2>1, <2>3, <3>1, <3>3 DEF OwnInv, HolderInv, Holds
  <2> QED BY <2>2, <2>3
<1>4. ASSUME m[1] = "nitz"
      PROVE  /\ m[2] \in 1 .. nnitz'
             /\ \A y \in Threads : ~HasNitz(y, m[2])'
             /\ s_lastNITZTimeData' = m[2] => pc'[Dispatch] \in {"nitzFree", "nitzNull"}
  <2>1. HasNitz(x, m[2])
    BY <1>1, <1>2, <1>4 DEF HasNitz
  <2>2. ~HasNitz(x, m[2])' /\ \A y \in Threads \ {x} : HasNitz(y, m[2])' => HasNitz(y, m[2])
    BY <1>0, <1>2 DEF HasNitz, Sending
  <2>3. m[2] \in 1 .. nnitz
    BY <1>1, <2>1 DEF NitzInv
  <2>4. \A y \in Threads \ {x} : ~HasNitz(y, m[2])
    BY <1>1, <2>1 DEF NitzInv
  <2>5. CASE x = Dispatch
    <3>1. pc'[Dispatch] = "nitzFree"
      BY <1>0, <1>4, <2>5 DEF returnLabel
    <3> QED BY <1>0, <2>2, <2>3, <2>4, <3>1
  <2>6. CASE x # Dispatch
    <3>1. s_lastNITZTimeData # m[2]
      BY <1>1, <2>1, <2>6 DEF NitzInv
    <3> QED BY <1>0, <2>2, <2>3, <2>4, <3>1
  <2> QED BY <2>5, <2>6
<1>5. /\ m[1] = "resp" => \A y \in Threads : ~WillAnswer(y, m[2])'
      /\ m[1] = "nitz" =>
           /\ m[2] \in 1 .. nnitz'
           /\ \A y \in Threads : ~HasNitz(y, m[2])'
           /\ s_lastNITZTimeData' = m[2] => pc'[Dispatch] \in {"nitzFree", "nitzNull"}
  BY <1>3, <1>4
<1> QED BY <1>5 DEF Spent

\* Only a payload written makes a message delivered.
LEMMA DeliveredNext ==
  ASSUME Types, [Next]_vars, NEW m \in Delivered'
  PROVE  m \in Delivered \/ \E x \in Threads : writePayload(x) /\ msg[x] = m
<1>1. m \in Msgs /\ \E c \in Conns : \E i \in 1 .. Len(stream'[c]) : isPayload(c, i, m)'
  BY DEF Delivered
<1>2. PICK c \in Conns : \E i \in 1 .. Len(stream'[c]) : isPayload(c, i, m)'
  BY <1>1
<1>3. PICK i \in 1 .. Len(stream'[c]) : stream'[c][i][1] # "hdr" /\ stream'[c][i][2] = m
  BY <1>2 DEF isPayload
<1>4. ASSUME stream' = stream PROVE m \in Delivered
  BY <1>1, <1>3, <1>4 DEF Delivered, isPayload
<1>5. ASSUME NEW x \in Threads, sendResponseRaw(x)
      PROVE  m \in Delivered \/ (writePayload(x) /\ msg[x] = m)
  <2>1. CASE i \in 1 .. Len(stream[c]) /\ stream'[c][i] = stream[c][i]
    BY <1>1, <1>3, <2>1 DEF Delivered, isPayload
  <2>2. CASE /\ stream'[c][i][2] = msg[x]
             /\ stream'[c][i][1] # "hdr" => writePayload(x)
    BY <1>3, <2>2
  <2> QED BY <1>5, <2>1, <2>2, EntryOrigin
<1> QED BY <1>4, <1>5, OutsideLock
        DEF Next, ThreadStep, DispatchNext, WorkerNext, ClientNext

LEMMA OnceNext ==
  ASSUME Types, OwnInv, ReplyInv, NitzInv, OnceInv, [Next]_vars
  PROVE  OnceInv'
<1>1. \A m \in Delivered' : Spent(m)'
  <2> SUFFICES ASSUME NEW m \in Delivered' PROVE Spent(m)'
    OBVIOUS
  <2>1. m \in Msgs
    BY DEF Delivered
  <2>2. CASE m \in Delivered
    <3>1. m[1] = "resp" => m[2] \in Reported
      <4> SUFFICES ASSUME m[1] = "resp" PROVE m[2] \in Reported
        OBVIOUS
      <4>1. m = <<"resp", m[2]>> /\ m[2] \in Nat
        BY <2>1 DEF Msgs
      <4>2. \E c \in Conns : \E i \in 1 .. Len(stream[c]) : stream[c][i][2] = m
        BY <2>2 DEF Delivered, isPayload
      <4> QED BY <4>1, <4>2 DEF Reported
    <3> QED BY <2>1, <2>2, <3>1, SpentNext DEF OnceInv
  <2>3. CASE \E x \in Threads : writePayload(x) /\ msg[x] = m
    BY <2>1, <2>3, WrittenIsSpent
  <2> QED BY <2>2, <2>3, DeliveredNext
<1>2. SingleInv'
  <2>1. ASSUME stream' = stream PROVE SingleInv'
    BY <2>1 DEF OnceInv, SingleInv, isPayload
  <2>2. ASSUME NEW x \in Threads, sendResponseRaw(x) PROVE SingleInv'
    <3> SUFFICES ASSUME NEW m \in Msgs, m[1] # "radio",
                        NEW c \in Conns, NEW d \in Conns,
                        NEW i \in 1 .. Len(stream'[c]), NEW j \in 1 .. Len(stream'[d]),
                        stream'[c][i][1] # "hdr", stream'[c][i][2] = m,
                        stream'[d][j][1] # "hdr", stream'[d][j][2] = m
                 PROVE  c = d /\ i = j
      BY DEF SingleInv, isPayload
    <3> DEFINE Old(e, n) == n \in 1 .. Len(stream[e]) /\ stream'[e][n] = stream[e][n]
               New(e, n) == /\ n = Len(stream[e]) + 1 /\ stream'[e][n][2] = msg[x]
                            /\ stream'[e][n][1] # "hdr" => writePayload(x)
                            /\ \A b \in Conns \ {e} : stream'[b] = stream[b]
    <3>1. Old(c, i) \/ New(c, i)
      BY <2>2, EntryOrigin
    <3>2. Old(d, j) \/ New(d, j)
      BY <2>2, EntryOrigin
    <3>3. New(c, i) \/ New(d, j) => m \notin Delivered
      <4>1. Sending(x)
        BY <2>2, SendStep
      <4>2. New(c, i) \/ New(d, j) => msg[x] = m
        OBVIOUS
      <4> QED BY <4>1, <4>2, SendingFresh
    <3>4. Old(c, i) \/ Old(d, j) => m \in Delivered
      BY DEF Delivered, isPayload
    <3>5. CASE Old(c, i) /\ Old(d, j)
      BY <3>5 DEF OnceInv, SingleInv, isPayload
    <3>6. CASE New(c, i) /\ New(d, j)
      <4>1. Len(stream[d]) \in Nat /\ Len(stream[c]) \in Nat
        BY LenProperties DEF Types, ConnType
      <4>2. c = d
        <5> SUFFICES ASSUME c # d PROVE FALSE
          OBVIOUS
        <5>1. stream'[d] = stream[d] /\ j = Len(stream[d]) + 1
          BY <3>6
        <5> QED BY <4>1, <5>1
      <4> QED BY <3>6, <4>2
    <3> HIDE DEF Old, New
    <3> QED BY <3>1, <3>2, <3>3, <3>4, <3>5, <3>6
  <2> QED BY <2>1, <2>2, OutsideLock
          DEF Next, ThreadStep, DispatchNext, WorkerNext, ClientNext
<1> QED BY <1>1, <1>2 DEF OnceInv

LEMMA InitOnce == ASSUME Init PROVE OnceInv
<1>1. \A c \in Conns : Len(stream[c]) = 0
  BY EmptySeq DEF Init
<1>2. Delivered = {}
  BY <1>1 DEF Delivered
<1>3. SingleInv
  BY <1>1 DEF SingleInv
<1> QED BY <1>2, <1>3 DEF OnceInv

\* Two payloads of one message would be the same payload.
LEMMA SingleIsOne ==
  ASSUME Types, SingleInv, NEW m \in Msgs, m[1] # "radio"
  PROVE  Cardinality(Payloads(m)) <= 1
<1>1. \A c \in Conns : DOMAIN stream[c] = 1 .. Len(stream[c])
  BY LenProperties DEF Types, ConnType
<1>2. \A ci \in Payloads(m) :
        /\ ci[1] \in Conns /\ ci[2] \in 1 .. Len(stream[ci[1]]) /\ ci = <<ci[1], ci[2]>>
        /\ isPayload(ci[1], ci[2], m)
  BY <1>1 DEF Payloads, isPayload
<1>3. \A ci, dj \in Payloads(m) : ci = dj
  <2> SUFFICES ASSUME NEW ci \in Payloads(m), NEW dj \in Payloads(m) PROVE ci = dj
    OBVIOUS
  <2>1. ci[1] = dj[1] /\ ci[2] = dj[2]
    BY <1>2 DEF SingleInv
  <2> QED BY <1>2, <2>1
<1>4. CASE Payloads(m) = {}
  BY <1>4, FS_EmptySet
<1>5. CASE Payloads(m) # {}
  <2>1. PICK ci : Payloads(m) = {ci}
    BY <1>3, <1>5
  <2> QED BY <2>1, FS_Singleton
<1> QED BY <1>4, <1>5

\* A request is answered, and a NITZ time delivered, at most once over all
\* connections, even when the vendor RIL completes a request twice, an address
\* is used again, or a NITZ that could not be sent is kept and sent later
\* (checkAndDequeueRequestInfo, RIL_onUnsolicitedResponse, onNewCommandConnect).
THEOREM DeliveredOnce == Spec => []AtMostOnce
<1>1. Init => OnceInv
  BY InitOnce
<1>2. Types /\ OwnInv /\ ReplyInv /\ NitzInv /\ OnceInv /\ [Next]_vars => OnceInv'
  BY OnceNext
<1>3. Types /\ OnceInv => AtMostOnce
  <2> SUFFICES ASSUME Types, OnceInv, NEW m \in Messages, m # radioStateChanged
               PROVE  Cardinality(Payloads(m)) <= 1
    BY DEF AtMostOnce
  <2>1. m \in Msgs /\ m[1] # "radio"
    BY BoundsAssumption DEF Messages, Msgs, Requests, Nitzs, radioStateChanged
  <2> QED BY <2>1, SingleIsOne DEF OnceInv
<1> QED BY <1>1, <1>2, <1>3, Typing, Owning, Replying, Nitzing, PTL DEF Spec
=============================================================================
