---------------------------- MODULE RilRequests ----------------------------
(***************************************************************************)
(* The command socket of libril (libril/ril.cpp): requests come in on the  *)
(* dispatch thread, are kept on s_pendingRequests, handed to the vendor    *)
(* RIL and answered from any thread by RIL_onRequestComplete; unsolicited  *)
(* responses leave by the same sendResponseRaw; a client may go away and   *)
(* another be accepted at any moment.                                      *)
(*                                                                         *)
(* s_writeMutex covers the two writes of one response and                  *)
(* s_pendingRequestsMutex the list.  s_fdCommand, the cancelled flag and   *)
(* s_lastNITZTimeData are read and written without a lock, so each access  *)
(* to them is a step.  A request is known by the order in which it was     *)
(* read, a RequestInfo by its heap address, and a response by the message  *)
(* whose header and payload are written.                                   *)
(***************************************************************************)
EXTENDS Integers, Sequences, FiniteSets, SequencesExt

CONSTANTS
  Workers,        \* threads of the vendor RIL
  Infos,          \* heap blocks for RequestInfo
  Fds,            \* numbers accept() may return
  MaxConn,        \* bound: connections accepted
  MaxRequests,    \* bound: requests sent by all clients
  MaxNitz,        \* bound: NITZ times reported by the network
  Blocks,         \* kinds of command block: "valid", "badcode", "badargs"
  Vendor,         \* how the vendor RIL completes: "once", "twice", "worker", "never"
  Sizes,          \* sizes of a response: "fits", "large"
  WriteFails,     \* whether write() may fail on an open socket (EAGAIN)
  ReadFails,      \* whether a read may fail for good (a record too long, an error)
  PeerEnds,       \* how clients leave: "shut" (half close), "closed"
  NULL

Dispatch == "dispatch"
Free == "free"
Threads == Workers \cup {Dispatch}
Conns == 1 .. MaxConn
Requests == 1 .. MaxRequests
Nitzs == 1 .. MaxNitz

\* Messages: the answer to a request, RADIO_STATE_CHANGED, a NITZ time.
Messages == ({"resp"} \X Requests) \cup ({"radio"} \X {0}) \cup ({"nitz"} \X Nitzs)
radioStateChanged == <<"radio", 0>>

ASSUME ThreadAssumption ==
  Dispatch \notin Workers /\ Free \notin Threads
ASSUME AddressAssumption == NULL \notin Infos
ASSUME FdNumbersAssumption == Fds \subseteq Nat
ASSUME BoundsAssumption ==
  MaxConn \in Nat /\ MaxRequests \in Nat /\ MaxNitz \in Nat
ASSUME ChoiceAssumption ==
  /\ Blocks \subseteq {"valid", "badcode", "badargs"}
  /\ Vendor \subseteq {"once", "twice", "worker", "never"}
  /\ Sizes \subseteq {"fits", "large"}
  /\ PeerEnds \subseteq {"shut", "closed"}
  /\ WriteFails \in BOOLEAN /\ ReadFails \in BOOLEAN

VARIABLES
  alive,              \* the process has not been killed (SIGPIPE, heap abort)
  s_fdCommand,
  file,               \* descriptor -> connection, 0 when not open
  nconn,              \* connections accepted so far
  peer,               \* connection -> "open", "shut", "closed"
  inbox,              \* connection -> command records sent and not read
  stream,             \* connection -> what has been written to it
  sent,               \* requests sent by clients so far
  nreq,               \* requests read so far
  owner,              \* request -> connection it was read from
  s_pendingRequests,  \* the list, as a set of addresses
  allocated,          \* addresses calloc returned and free has not had back
  info,               \* address -> [id, cancelled], what its bytes hold
  dropped,            \* history: requests marked cancelled on the list
  tasks,              \* tokens the vendor RIL holds for its own threads
  s_writeMutex,
  pc, tok, msg, fd,   \* each thread's control point, token, message and fd
  again,              \* the vendor RIL completes the current request twice
  nnitz,              \* NITZ times received so far
  s_lastNITZTimeData, \* the NITZ kept, 0 for NULL
  nitzFreed           \* the block it points at has been freed

netVars == <<nconn, peer, inbox, sent>>
reqVars == <<nreq, owner, s_pendingRequests, allocated, info, dropped,
             tasks, again>>
nitzVars == <<nnitz, s_lastNITZTimeData, nitzFreed>>
outVars == <<stream, file, s_writeMutex>>
vars == <<alive, s_fdCommand, netVars, reqVars, nitzVars, outVars, pc, tok, msg, fd>>

Init ==
  /\ alive = TRUE
  /\ s_fdCommand = -1
  /\ file = [f \in Fds |-> 0]
  /\ nconn = 0
  /\ peer = [c \in Conns |-> "closed"]
  /\ inbox = [c \in Conns |-> 0]
  /\ stream = [c \in Conns |-> <<>>]
  /\ sent = 0 /\ nreq = 0
  /\ owner = [r \in Requests |-> 0]
  /\ s_pendingRequests = {}
  /\ allocated = {}
  /\ info = [p \in Infos |-> [id |-> 0, cancelled |-> FALSE]]
  /\ dropped = {} /\ tasks = {}
  /\ s_writeMutex = Free
  /\ pc = [x \in Threads |-> IF x = Dispatch THEN "listen" ELSE "idle"]
  /\ tok = [x \in Threads |-> NULL]
  /\ msg = [x \in Threads |-> radioStateChanged]
  /\ fd = [x \in Threads |-> -1]
  /\ again = FALSE
  /\ nnitz = 0 /\ s_lastNITZTimeData = 0 /\ nitzFreed = FALSE

goto(x, label) == pc' = [pc EXCEPT ![x] = label]

\* The connection a descriptor refers to, 0 when it is not open.
connOf(f) == IF f \in Fds THEN file[f] ELSE 0

-----------------------------------------------------------------------------
(* sendResponseRaw, on any thread.                                         *)

\* Start sending m; the caller's other effects are in the same step.
beginSend(x, m) ==
  /\ goto(x, "send")
  /\ msg' = [msg EXCEPT ![x] = m]

\* int fd = s_fdCommand;
sendReadFd(x) ==
  /\ pc[x] = "send"
  /\ fd' = [fd EXCEPT ![x] = s_fdCommand]
  /\ goto(x, "check")
  /\ UNCHANGED <<alive, s_fdCommand, netVars, reqVars, nitzVars, outVars, tok, msg>>

\* Mutant: a NITZ time is kept whether or not it was sent.
returnLabel_keep(x, ok) ==
  IF msg[x][1] = "resp" THEN "free"
  ELSE IF x = Dispatch
       THEN IF msg[x][1] = "radio" THEN "nitz" ELSE "nitzFree"
       ELSE "keepFree"

\* Where a thread goes when sendResponseRaw returns.  Only RIL_onUnsolicited-
\* Response looks at the result, and only for a NITZ time.
returnLabel(x, ok) ==
  IF msg[x][1] = "resp" THEN "free"
  ELSE IF x = Dispatch
       THEN IF msg[x][1] = "radio" THEN "nitz" ELSE "nitzFree"
       ELSE IF ok THEN "idle" ELSE "keepFree"

\* sendResponseRaw returns: its locals are dead, and so is the message unless
\* it is a NITZ time to be kept.
endSend(x, ok) ==
  /\ goto(x, returnLabel(x, ok))
  /\ fd' = [fd EXCEPT ![x] = -1]
  /\ msg' = [msg EXCEPT ![x] = IF returnLabel(x, ok) = "keepFree" THEN @
                                                          ELSE radioStateChanged]

\* The tests before the lock: no client, or a packet over MAX_COMMAND_BYTES.
sendRefused(x) ==
  /\ pc[x] = "check"
  /\ \/ s_fdCommand < 0
     \/ s_fdCommand >= 0 /\ "large" \in Sizes
  /\ endSend(x, FALSE)
  /\ UNCHANGED <<alive, s_fdCommand, netVars, reqVars, nitzVars, outVars, tok>>

sendAccepted(x) ==
  /\ pc[x] = "check"
  /\ s_fdCommand >= 0 /\ "fits" \in Sizes
  /\ goto(x, "lock")
  /\ UNCHANGED <<alive, s_fdCommand, netVars, reqVars, nitzVars, outVars, tok, msg, fd>>

\* Mutant: the write lock is not taken.
canLock_never == TRUE

canLock == s_writeMutex = Free

sendLock(x) ==
  /\ pc[x] = "lock"
  /\ canLock
  /\ s_writeMutex' = x
  /\ goto(x, "hdr")
  /\ UNCHANGED <<alive, s_fdCommand, netVars, reqVars, nitzVars, stream, file,
                 tok, msg, fd>>

\* The payload written for m: onNewCommandConnect hands out the kept NITZ
\* without a lock, so that the block may be gone when it is written.
payloads(x) ==
  IF x = Dispatch /\ msg[x][1] = "nitz"
     /\ (nitzFreed \/ s_lastNITZTimeData # msg[x][2])
  THEN {"data", "junk"}
  ELSE {"data"}

\* blockingWrite when write() takes all of the bytes.
writeDone(x, part) ==
  LET c == connOf(fd[x]) IN
  /\ c # 0 /\ peer[c] # "closed"
  /\ stream' = [stream EXCEPT ![c] = Append(@, <<part, msg[x]>>)]

writeHeader(x) ==
  /\ pc[x] = "hdr"
  /\ writeDone(x, "hdr")
  /\ goto(x, "payload")
  /\ UNCHANGED <<alive, s_fdCommand, netVars, reqVars, nitzVars, file, s_writeMutex,
                 tok, msg, fd>>

\* Mutant: the last unlock of sendResponseRaw is missing.
doneUnlocked_held(x) == s_writeMutex

doneUnlocked(x) == Free

writePayload(x) ==
  /\ pc[x] = "payload"
  /\ \E part \in payloads(x) : writeDone(x, part)
  /\ s_writeMutex' = doneUnlocked(x)
  /\ endSend(x, TRUE)
  /\ UNCHANGED <<alive, s_fdCommand, netVars, reqVars, nitzVars, file, tok>>

\* A write to a socket whose peer is gone raises SIGPIPE, which nothing in
\* the daemon ignores.
writeKilled(x) ==
  /\ pc[x] \in {"hdr", "payload"}
  /\ connOf(fd[x]) # 0 /\ peer[connOf(fd[x])] = "closed"
  /\ alive' = FALSE
  /\ UNCHANGED <<s_fdCommand, netVars, reqVars, nitzVars, outVars, pc, tok, msg, fd>>

\* write() fails: the descriptor is not open, or the socket is full (EAGAIN),
\* perhaps after taking some bytes.  Those are not recorded: the descriptor is
\* closed under the same lock, so nothing comes after them on their connection.
writeError(x) ==
  /\ pc[x] \in {"hdr", "payload"}
  /\ connOf(fd[x]) # 0 => WriteFails /\ peer[connOf(fd[x])] # "closed"
  /\ goto(x, "writeError")
  /\ UNCHANGED <<alive, s_fdCommand, netVars, reqVars, nitzVars, outVars, tok, msg, fd>>

\* Mutant: the error path returns without unlocking.
errorUnlocked_held(x) == s_writeMutex

errorUnlocked(x) == Free

\* close(fd) in blockingWrite, then the error path of sendResponseRaw.  Only
\* the number is closed: s_fdCommand and its event stay.
writeClose(x) ==
  /\ pc[x] = "writeError"
  /\ file' = [f \in Fds |-> IF f = fd[x] THEN 0 ELSE file[f]]
  /\ s_writeMutex' = errorUnlocked(x)
  /\ endSend(x, FALSE)
  /\ UNCHANGED <<alive, s_fdCommand, netVars, reqVars, nitzVars, stream, tok>>

sendResponseRaw(x) ==
  \/ sendReadFd(x) \/ sendRefused(x) \/ sendAccepted(x) \/ sendLock(x)
  \/ writeHeader(x) \/ writePayload(x) \/ writeKilled(x)
  \/ writeError(x) \/ writeClose(x)

-----------------------------------------------------------------------------
(* RIL_onRequestComplete, on any thread.                                   *)

\* RIL_onRequestComplete returns; the vendor RIL may call it once more with
\* the same token.
endComplete(x) ==
  IF x = Dispatch /\ again
  THEN /\ goto(x, "dequeue")
       /\ again' = FALSE
       /\ UNCHANGED tok
  ELSE /\ goto(x, IF x = Dispatch THEN "read" ELSE "idle")
       /\ tok' = [tok EXCEPT ![x] = NULL]
       /\ UNCHANGED again

\* Mutant: the entry is found but not unlinked.
unlinked_kept(p) == s_pendingRequests

\* The list once p has been unlinked.
unlinked(p) == s_pendingRequests \ {p}

\* checkAndDequeueRequestInfo, found: the list is locked throughout.
dequeueFound(x) ==
  /\ pc[x] = "dequeue"
  /\ tok[x] \in s_pendingRequests
  /\ s_pendingRequests' = unlinked(tok[x])
  /\ goto(x, "complete")
  /\ UNCHANGED <<alive, s_fdCommand, netVars, nreq, owner, allocated, info, dropped,
                 tasks, again, nitzVars, outVars, tok, msg, fd>>

\* checkAndDequeueRequestInfo, "invalid RIL_Token".
dequeueInvalid(x) ==
  /\ pc[x] = "dequeue"
  /\ tok[x] \notin s_pendingRequests
  /\ endComplete(x)
  /\ UNCHANGED <<alive, s_fdCommand, netVars, nreq, owner, s_pendingRequests, allocated,
                 info, dropped, tasks, nitzVars, outVars, msg, fd>>

\* Mutant: a response is sent whatever the flag says.
reports_always(p) == TRUE

\* pRI->cancelled == 0
reports(p) == ~info[p].cancelled

\* The test of the cancelled flag; the response is built and sent, or not.
completeReport(x) ==
  /\ pc[x] = "complete"
  /\ reports(tok[x])
  /\ beginSend(x, <<"resp", info[tok[x]].id>>)
  /\ UNCHANGED <<alive, s_fdCommand, netVars, reqVars, nitzVars, outVars, tok, fd>>

completeCancelled(x) ==
  /\ pc[x] = "complete"
  /\ ~reports(tok[x])
  /\ goto(x, "free")
  /\ UNCHANGED <<alive, s_fdCommand, netVars, reqVars, nitzVars, outVars, tok, msg, fd>>

\* free(pRI)
completeFree(x) ==
  /\ pc[x] = "free"
  /\ allocated' = allocated \ {tok[x]}
  /\ endComplete(x)
  /\ UNCHANGED <<alive, s_fdCommand, netVars, nreq, owner, s_pendingRequests, info, dropped,
                 tasks, nitzVars, outVars, msg, fd>>

RIL_onRequestComplete(x) ==
  \/ dequeueFound(x) \/ dequeueInvalid(x)
  \/ completeReport(x) \/ completeCancelled(x) \/ completeFree(x)

-----------------------------------------------------------------------------
(* The dispatch thread.                                                    *)

\* listenCallback: accept, then onNewCommandConnect reports the radio state.
listenCallback ==
  /\ pc[Dispatch] = "listen"
  /\ nconn < MaxConn
  /\ \E f \in Fds :
       /\ file[f] = 0
       /\ file' = [file EXCEPT ![f] = nconn + 1]
       /\ s_fdCommand' = f
  /\ nconn' = nconn + 1
  /\ peer' = [peer EXCEPT ![nconn + 1] = "open"]
  /\ beginSend(Dispatch, radioStateChanged)
  /\ UNCHANGED <<alive, inbox, sent, reqVars, nitzVars, stream, s_writeMutex, tok, fd>>

\* onNewCommandConnect: is there a NITZ time to pass on?
lastNitzSend ==
  /\ pc[Dispatch] = "nitz"
  /\ s_lastNITZTimeData # 0
  /\ beginSend(Dispatch, <<"nitz", s_lastNITZTimeData>>)
  /\ UNCHANGED <<alive, s_fdCommand, netVars, reqVars, nitzVars, outVars, tok, fd>>

lastNitzNone ==
  /\ pc[Dispatch] = "nitz"
  /\ s_lastNITZTimeData = 0
  /\ goto(Dispatch, "select")
  /\ UNCHANGED <<alive, s_fdCommand, netVars, reqVars, nitzVars, outVars, tok, msg, fd>>

\* free(s_lastNITZTimeData), which aborts on a block already freed.
freeNitz(x, next) ==
  /\ alive' = ~(s_lastNITZTimeData # 0 /\ nitzFreed)
  /\ nitzFreed' = (s_lastNITZTimeData # 0)
  /\ goto(x, next)
  /\ UNCHANGED <<nnitz, s_lastNITZTimeData, s_fdCommand, netVars, reqVars, outVars,
                 tok, msg, fd>>

lastNitzFree ==
  /\ pc[Dispatch] = "nitzFree"
  /\ freeNitz(Dispatch, "nitzNull")

\* s_lastNITZTimeData = NULL
lastNitzNull ==
  /\ pc[Dispatch] = "nitzNull"
  /\ s_lastNITZTimeData' = 0 /\ nitzFreed' = FALSE
  /\ goto(Dispatch, "select")
  /\ UNCHANGED <<alive, nnitz, s_fdCommand, netVars, reqVars, outVars, tok, msg, fd>>

\* select: the command socket is readable, or no longer a descriptor, which
\* ends ril_event_loop and the thread with it.
CommandReadable ==
  LET c == connOf(s_fdCommand) IN c # 0 /\ (inbox[c] > 0 \/ peer[c] # "open")

selectCommands ==
  /\ pc[Dispatch] = "select"
  /\ CommandReadable
  /\ goto(Dispatch, "read")
  /\ UNCHANGED <<alive, s_fdCommand, netVars, reqVars, nitzVars, outVars, tok, msg, fd>>

selectFails ==
  /\ pc[Dispatch] = "select"
  /\ connOf(s_fdCommand) = 0
  /\ goto(Dispatch, "stopped")
  /\ UNCHANGED <<alive, s_fdCommand, netVars, reqVars, nitzVars, outVars, tok, msg, fd>>

\* ret == 0 && p_record != NULL
recordThere(c) == inbox[c] > 0

\* record_stream_get_next returns a record of the connected client.
readRecord ==
  LET c == connOf(s_fdCommand) IN
  /\ pc[Dispatch] = "read"
  /\ c # 0 /\ recordThere(c)
  /\ inbox' = [inbox EXCEPT ![c] = @ - 1]
  /\ nreq' = nreq + 1
  /\ owner' = [owner EXCEPT ![nreq + 1] = c]

\* processCommandBuffer, unsupported code or block too short: no answer.
requestRefused ==
  /\ "badcode" \in Blocks
  /\ readRecord
  /\ UNCHANGED <<alive, s_fdCommand, nconn, peer, sent, s_pendingRequests, allocated,
                 info, dropped, tasks, again, nitzVars, outVars, pc, tok, msg, fd>>

\* calloc and the insertion at the head of s_pendingRequests.
pushRequest(p) ==
  /\ p \notin allocated
  /\ allocated' = allocated \cup {p}
  /\ info' = [info EXCEPT ![p] = [id |-> nreq + 1, cancelled |-> FALSE]]
  /\ s_pendingRequests' = s_pendingRequests \cup {p}

\* A dispatch function that meets a malformed block (invalidCommandBlock), or
\* a vendor RIL that never completes: the request stays on the list.
requestStuck ==
  /\ "badargs" \in Blocks \/ ("valid" \in Blocks /\ "never" \in Vendor)
  /\ readRecord
  /\ \E p \in Infos : pushRequest(p)
  /\ UNCHANGED <<alive, s_fdCommand, nconn, peer, sent, dropped, tasks, again,
                 nitzVars, outVars, pc, tok, msg, fd>>

\* onRequest completes before it returns, as reference-ril does; some of its
\* handlers complete a second time (requestSignalStrength's error path).
requestInline ==
  /\ "valid" \in Blocks
  /\ readRecord
  /\ \E p \in Infos :
       /\ pushRequest(p)
       /\ tok' = [tok EXCEPT ![Dispatch] = p]
  /\ \E times \in Vendor \cap {"once", "twice"} : again' = (times = "twice")
  /\ goto(Dispatch, "dequeue")
  /\ UNCHANGED <<alive, s_fdCommand, nconn, peer, sent, dropped, tasks, nitzVars,
                 outVars, msg, fd>>

\* onRequest leaves the request to a thread of its own, as mock-ril does.
requestQueued ==
  /\ "valid" \in Blocks /\ "worker" \in Vendor
  /\ readRecord
  /\ \E p \in Infos :
       /\ pushRequest(p)
       /\ tasks' = tasks \cup {p}
  /\ UNCHANGED <<alive, s_fdCommand, nconn, peer, sent, dropped, again, nitzVars,
                 outVars, pc, tok, msg, fd>>

\* EAGAIN: back to the event loop.
readEagain ==
  LET c == connOf(s_fdCommand) IN
  /\ pc[Dispatch] = "read"
  /\ c # 0 /\ inbox[c] = 0 /\ peer[c] = "open"
  /\ goto(Dispatch, "select")
  /\ UNCHANGED <<alive, s_fdCommand, netVars, reqVars, nitzVars, outVars, tok, msg, fd>>

\* End of stream, EBADF after a write error, or another fatal error of the
\* read, whatever is still to be read: close(s_fdCommand).
closeCommand ==
  LET c == connOf(s_fdCommand) IN
  /\ pc[Dispatch] = "read"
  /\ c # 0 => ReadFails \/ (inbox[c] = 0 /\ peer[c] # "open")
  /\ file' = [file EXCEPT ![s_fdCommand] = 0]
  /\ goto(Dispatch, "reset")
  /\ UNCHANGED <<alive, s_fdCommand, netVars, reqVars, nitzVars, stream, s_writeMutex,
                 tok, msg, fd>>

\* s_fdCommand = -1; the event changes that follow are those of RilEvent.
resetCommand ==
  /\ pc[Dispatch] = "reset"
  /\ s_fdCommand' = -1
  /\ goto(Dispatch, "cancel")
  /\ UNCHANGED <<alive, netVars, reqVars, nitzVars, outVars, tok, msg, fd>>

\* onCommandsSocketClosed, under the list's lock.
onCommandsSocketClosed ==
  /\ pc[Dispatch] = "cancel"
  /\ info' = [p \in Infos |->
                IF p \in s_pendingRequests THEN [info[p] EXCEPT !.cancelled = TRUE]
                                           ELSE info[p]]
  /\ dropped' = dropped \cup {info[p].id : p \in s_pendingRequests}
  /\ goto(Dispatch, "listen")
  /\ UNCHANGED <<alive, s_fdCommand, netVars, nreq, owner, s_pendingRequests, allocated,
                 tasks, again, nitzVars, outVars, tok, msg, fd>>

DispatchStep ==
  \/ listenCallback \/ lastNitzSend \/ lastNitzNone \/ lastNitzFree \/ lastNitzNull
  \/ selectCommands \/ selectFails
  \/ requestRefused \/ requestStuck \/ requestInline \/ requestQueued
  \/ readEagain \/ closeCommand \/ resetCommand \/ onCommandsSocketClosed

-----------------------------------------------------------------------------
(* The vendor RIL's threads.                                               *)

\* A thread completes a request it was left.
workerComplete(x) ==
  /\ pc[x] = "idle"
  /\ \E p \in tasks :
       /\ tasks' = tasks \ {p}
       /\ tok' = [tok EXCEPT ![x] = p]
  /\ goto(x, "dequeue")
  /\ UNCHANGED <<alive, s_fdCommand, netVars, nreq, owner, s_pendingRequests, allocated,
                 info, dropped, again, nitzVars, outVars, msg, fd>>

\* RIL_onUnsolicitedResponse(RIL_UNSOL_NITZ_TIME_RECEIVED).
onUnsolicitedNitz(x) ==
  /\ pc[x] = "idle"
  /\ nnitz < MaxNitz
  /\ nnitz' = nnitz + 1
  /\ beginSend(x, <<"nitz", nnitz + 1>>)
  /\ UNCHANGED <<alive, s_fdCommand, netVars, reqVars, s_lastNITZTimeData, nitzFreed,
                 outVars, tok, fd>>

\* It could not be sent: free the NITZ kept so far, if any ...
keepNitzFree(x) ==
  /\ pc[x] = "keepFree"
  /\ freeNitz(x, "keep")

\* ... and keep this one.
keepNitz(x) ==
  /\ pc[x] = "keep"
  /\ s_lastNITZTimeData' = msg[x][2] /\ nitzFreed' = FALSE
  /\ goto(x, "idle")
  /\ msg' = [msg EXCEPT ![x] = radioStateChanged]
  /\ UNCHANGED <<alive, nnitz, s_fdCommand, netVars, reqVars, outVars, tok, fd>>

WorkerStep(x) ==
  \/ workerComplete(x) \/ onUnsolicitedNitz(x) \/ keepNitzFree(x) \/ keepNitz(x)

-----------------------------------------------------------------------------
(* The clients.                                                            *)

clientSend(c) ==
  /\ peer[c] = "open" /\ sent < MaxRequests
  /\ sent' = sent + 1
  /\ inbox' = [inbox EXCEPT ![c] = @ + 1]
  /\ UNCHANGED <<alive, s_fdCommand, nconn, peer, reqVars, nitzVars, outVars, pc, tok,
                 msg, fd>>

\* A client leaves: it closes its socket, or shuts its sending side.
clientEnd(c) ==
  /\ peer[c] = "open"
  /\ \E how \in PeerEnds : peer' = [peer EXCEPT ![c] = how]
  /\ UNCHANGED <<alive, s_fdCommand, nconn, inbox, sent, reqVars, nitzVars, outVars,
                 pc, tok, msg, fd>>

-----------------------------------------------------------------------------
ThreadStep(x) == alive /\ (sendResponseRaw(x) \/ RIL_onRequestComplete(x))

DispatchNext == alive /\ DispatchStep
WorkerNext(x) == alive /\ WorkerStep(x)
ClientNext(c) == alive /\ (clientSend(c) \/ clientEnd(c))

Next ==
  \/ \E x \in Threads : ThreadStep(x)
  \/ DispatchNext
  \/ \E x \in Workers : WorkerNext(x)
  \/ \E c \in Conns : ClientNext(c)

Spec == Init /\ [][Next]_vars

\* Every thread of the daemon that can run does.
FairSpec ==
  /\ Spec
  /\ WF_vars(DispatchNext)
  /\ \A x \in Threads : WF_vars(ThreadStep(x))
  /\ \A x \in Workers : WF_vars(WorkerNext(x))

-----------------------------------------------------------------------------
(* Properties.                                                             *)

\* The threads inside sendResponseRaw, and those between the dequeue and the
\* free of RIL_onRequestComplete.
Sending(x) == pc[x] \in {"send", "check", "lock", "hdr", "payload", "writeError"}
Completing(x) ==
  \/ pc[x] \in {"complete", "free"}
  \/ Sending(x) /\ msg[x][1] = "resp"

\* The frames of two responses never mix on a connection, whatever threads
\* send them and whatever fails: a header is followed by nothing but its own
\* payload, and a payload that is not the first thing on its connection comes
\* right after its own header (sendResponseRaw, s_writeMutex).
FramesNotMixed ==
  \A c \in Conns : \A i \in 1 .. Len(stream[c]) - 1 :
    LET this == stream[c][i]  next == stream[c][i + 1] IN
    /\ this[1] = "hdr" => next[1] # "hdr"
    /\ next[1] # "hdr" => this = <<"hdr", next[2]>>

\* The payloads of message m written so far, over all connections.
Payloads(m) ==
  {ci \in UNION {{c} \X DOMAIN stream[c] : c \in Conns} :
     LET e == stream[ci[1]][ci[2]] IN e[1] # "hdr" /\ e[2] = m}

\* A request is answered, and a NITZ time delivered, at most once over all
\* connections, even when the vendor RIL completes a request twice, a
\* RequestInfo address is used again, or a failed NITZ is kept and sent later
\* (checkAndDequeueRequestInfo, RIL_onUnsolicitedResponse).
AtMostOnce ==
  \A m \in Messages : m # radioStateChanged => Cardinality(Payloads(m)) <= 1

\* A request found on the list when its client went away is never answered,
\* not even to the next client (onCommandsSocketClosed, RIL_onRequestComplete).
CancelledNotReported ==
  \A c \in Conns : \A i \in DOMAIN stream[c] :
    stream[c][i][2][1] = "resp" => stream[c][i][2][2] \notin dropped

\* A thread that completes a request has it to itself until the free: the
\* block is allocated, off the list, in nobody else's hands, and holds the
\* request being answered (checkAndDequeueRequestInfo, free(pRI)).
CompletionOwns ==
  /\ s_pendingRequests \subseteq allocated
  /\ \A x \in Threads : Completing(x) =>
       /\ tok[x] \in allocated
       /\ tok[x] \notin s_pendingRequests \cup tasks
       /\ Sending(x) => msg[x] = <<"resp", info[tok[x]].id>>
       /\ \A y \in Threads \ {x} : Completing(y) => tok[y] # tok[x]

\* s_writeMutex is held exactly while one thread is between the lock and an
\* unlock of sendResponseRaw: no error path keeps it or releases another's.
WriteMutexNotLeaked ==
  \A x \in Threads :
    s_writeMutex = x <=> pc[x] \in {"hdr", "payload", "writeError"}

\* The request r has been answered on connection c.
Answered(r, c) == \E i \in DOMAIN stream[c] : stream[c][i] = <<"data", <<"resp", r>>>>

\* A request the vendor RIL completes is answered on the connection it came
\* from, unless that client leaves or the daemon is killed: no response is
\* lost between the dispatch thread, the vendor's threads and s_writeMutex.
RequestAnswered ==
  \A r \in Requests : \A c \in Conns :
    (nreq >= r /\ owner[r] = c)
      ~> (Answered(r, c) \/ peer[c] # "open" \/ ~alive)

\* What onCommandsSocketClosed is for: once a client has gone, responses to
\* its requests are not reported to another.
ResponsesToOwner ==
  \A c \in Conns : \A i \in DOMAIN stream[c] :
    stream[c][i][2][1] = "resp" => owner[stream[c][i][2][2]] = c

=============================================================================
