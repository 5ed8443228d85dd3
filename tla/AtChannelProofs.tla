-------------------------- MODULE AtChannelProofs --------------------------
(***************************************************************************)
(* Proofs about AtChannel, for any number of commands, opens and lines.    *)
(*                                                                         *)
(* The first invariants say who holds s_commandmutex, when a response is   *)
(* pending and which reader thread has the channel; they need no more than *)
(* Spec.  That an answer is the modem's answer to its own command, and     *)
(* whole, is proved under the two conditions the code depends on: no timed *)
(* wait times out (~Timeouts), and an unsolicited line never looks like    *)
(* part of an answer (Unsols \subseteq {"other"}).                         *)
(***************************************************************************)
EXTENDS AtChannel, SequenceTheorems, TLAPS

Locked == {"start", "written", "loop", "test", "hand", "give", "reread", "return"}
CommandPoints == Locked \cup {"idle", "lock", "wait"}
ReaderPoints ==
  {"none", "read", "line", "eof", "setClosed", "closeFd", "closeFlag", "notify", "done"}
MainPoints == {"open", "fd", "flag", "pending", "create", "waitForClose"}

Line == [class : Classes, cmd : Nat, place : Nat]
Responses == [final : Line, done : BOOLEAN, p_intermediates : Seq(Line)]
Results ==
  [cmd : Nat, err : {"ok", "invalid", "closed", "generic", "timeout"}, final : Line,
   inter : Seq(Line), type : ATTypes, handshake : BOOLEAN]

\* The type invariant, by thread.
CommandType ==
  /\ cpc \in CommandPoints /\ ccmd \in Nat /\ ncmd \in Nat /\ ctype \in ATTypes
  /\ timed \in BOOLEAN /\ result \in Results
  /\ sp_response \in Responses \cup {NULL} /\ out \in Responses \cup {NULL}
  /\ s_type \in ATTypes /\ s_smsPDU \in BOOLEAN
  /\ s_commandmutex \in {Free, Command}
ReaderType ==
  /\ s_fd \in Opens \cup {NULL} /\ s_readerClosed \in BOOLEAN
  /\ rpc \in [Opens -> ReaderPoints] /\ rline \in [Opens -> Line]
  /\ mpc \in MainPoints /\ nopen \in 0 .. MaxOpens /\ s_closed \in BOOLEAN
  /\ overtaken \subseteq Nat
ModemType ==
  /\ inq \in [Opens -> Seq([cmd : Nat, type : ATTypes])]
  /\ wire \in [Opens -> Seq(Line)]
  /\ place \in Nat /\ hungup \subseteq Opens
ChannelType == CommandType /\ ReaderType /\ ModemType

-----------------------------------------------------------------------------
(* The command thread: the mutex, and the pending response.                *)

MutexInv == s_commandmutex = Command <=> cpc \in Locked
Looping == {"loop", "test", "wait"}
PendingInv == cpc \notin Looping \cup {"hand", "give"} => sp_response = NULL
CommandInv == MutexInv /\ PendingInv

(* The reader threads and mainLoop: the threads of earlier opens are done, *)
(* and the descriptor is the latest open's from at_open to at_close.       *)

Opening == {"fd", "flag", "pending", "create"}
Reading == {"read", "line", "eof", "setClosed"}
Over == {"closeFd", "closeFlag", "notify", "done"}

ThreadsInv ==
  /\ \A o \in Opens : o < nopen => rpc[o] = "done"
  /\ \A o \in Opens : o > nopen => rpc[o] = "none"
  /\ mpc \in Opening => nopen \in Opens /\ rpc[nopen] = "none"
  /\ mpc = "waitForClose" => nopen \in Opens /\ rpc[nopen] # "none"
  /\ (mpc = "open" /\ nopen # 0) => rpc[nopen] = "done"
FdInv ==
  /\ mpc \in Opening => ~s_closed
  /\ mpc \in {"open", "fd"} => s_fd = NULL
  /\ mpc \in {"flag", "pending", "create"} => s_fd = nopen
  /\ mpc = "waitForClose" =>
       /\ rpc[nopen] \in Reading \cup {"closeFd"} => s_fd = nopen
       /\ rpc[nopen] \in {"closeFlag", "notify"} => s_fd = NULL
       /\ rpc[nopen] = "done" => s_fd \in {nopen, NULL}
       /\ s_closed => rpc[nopen] = "done" /\ s_fd = NULL
ReaderInv == ThreadsInv /\ FdInv

-----------------------------------------------------------------------------
(* What is on the channel.  Position 0 is the line the reader has, the     *)
(* others are those of the wire.                                           *)

LineAt(o, i) == IF i = 0 THEN rline[o] ELSE wire[o][i]
Positions(o) == 0 .. Len(wire[o])

\* No answer is on its way on channel o, nor will be.
Quiet(o) == inq[o] = <<>> /\ \A i \in Positions(o) : LineAt(o, i).cmd = 0

\* The reader of channel o will process no more lines.
Finished(o) == rpc[o] \in Over

Busy == cpc \in {"written"} \cup Looping
IsFinal(l) == l.class \in {"success", "error"}

ClosedInv ==
  /\ \A o \in Opens : (o = nopen /\ Finished(o)) => s_readerClosed
  /\ (mpc \in {"fd", "flag"} /\ nopen > 1) => s_readerClosed
  /\ mpc \in {"pending", "create"} => ~s_readerClosed
  /\ (mpc = "waitForClose" /\ rpc[nopen] \in Reading) => ~s_readerClosed
  /\ (nopen = 0 \/ (nopen = 1 /\ mpc \in Opening)) => cpc = "idle"

\* Only part of an answer has a command, and looks like one.
NoStray(o) ==
  \A i \in Positions(o) : LineAt(o, i).cmd = 0 => LineAt(o, i).class = "other"

HungupInv ==
  /\ \A o \in Opens : o < nopen => o \in hungup
  /\ \A o \in Opens : o > nopen => o \notin hungup /\ inq[o] = <<>> /\ wire[o] = <<>>
  /\ \A o \in Opens :
       (o = nopen /\ rpc[o] \in Over \cup {"eof", "setClosed"}) => o \in hungup
  /\ \A o \in Opens : rpc[o] # "line" => rline[o] = noLine
  /\ \A o \in Opens : NoStray(o)

\* Channel o carries nothing but the answer to the command under way, and the
\* final line comes last.
AllOwn(o) ==
  /\ Len(inq[o]) <= 1
  /\ inq[o] # <<>> => inq[o][1].cmd = ccmd /\ inq[o][1].type = ctype
  /\ \A i \in Positions(o) : LineAt(o, i).cmd \in {0, ccmd}
FinalLast(o) ==
  \A i \in Positions(o) : IsFinal(LineAt(o, i)) =>
    /\ inq[o] = <<>>
    /\ \A j \in Positions(o) : j > i => LineAt(o, j).cmd = 0

OwnLinesInv ==
  \A o \in Opens : o = nopen =>
    /\ Busy => AllOwn(o) /\ FinalLast(o)
    /\ ~Busy => Quiet(o) \/ Finished(o)
    /\ mpc \in {"fd", "flag"} => Quiet(o)

\* What has been put in the response, and when it is done.
ResponseInv ==
  /\ Busy => ccmd # 0
  /\ (cpc \in Looping /\ sp_response # NULL) =>
       /\ \A i \in DOMAIN sp_response.p_intermediates :
            sp_response.p_intermediates[i].cmd = ccmd
       /\ sp_response.done =>
            /\ sp_response.final.cmd = ccmd
            /\ \A o \in Opens : o = nopen => Quiet(o) \/ Finished(o)
       /\ ~sp_response.done => sp_response.final = noLine

\* A response on its way to the caller: one without a final line is that of a
\* channel which has closed, or closed and been opened again.
Held(r) ==
  /\ \A i \in DOMAIN r.p_intermediates : r.p_intermediates[i].cmd = ccmd
  /\ r.done => r.final.cmd = ccmd
  /\ ~r.done => r.final = noLine /\ (s_readerClosed \/ ccmd \in overtaken)
HandInv ==
  /\ (cpc \in {"hand", "give"} /\ sp_response # NULL) => Held(sp_response)
  /\ (cpc = "reread" /\ out # NULL) => Held(out)

OwnInv ==
  ClosedInv /\ HungupInv /\ OwnLinesInv /\ ResponseInv /\ HandInv /\ AnswerIsOwn

-----------------------------------------------------------------------------
(* The places of the lines.                                                *)

first == promptLines(ctype)

\* Intermediate lines received.
Received == IF sp_response = NULL THEN 0 ELSE Len(sp_response.p_intermediates)

\* The lines that count for a whole answer: those between the prompt and a
\* successful final line, it included.
Counted(l) == l.cmd # 0 /\ l.class \in {"success", "digit", "prefix"}
CountedAt(o, i) == i \in Positions(o) /\ Counted(LineAt(o, i))

\* The pending command has not lost its response.
Waiting == cpc = "written" \/ (cpc \in Looping /\ sp_response # NULL)

\* The lines on their way have the places that follow on those received.
NoGap(o) ==
  /\ \A i \in Positions(o) : CountedAt(o, i) =>
       \/ LineAt(o, i).place = first + Received + 1
       \/ \E j \in Positions(o) :
            j < i /\ CountedAt(o, j) /\ LineAt(o, j).place = LineAt(o, i).place - 1
  /\ \A i, j \in Positions(o) :
       (i < j /\ CountedAt(o, i) /\ CountedAt(o, j)) =>
         LineAt(o, i).place < LineAt(o, j).place
  /\ \A i \in Positions(o) : CountedAt(o, i) =>
       /\ LineAt(o, i).place > first + Received
       /\ LineAt(o, i).class # "success" =>
            /\ LineAt(o, i).class = interClass(ctype)
            /\ LineAt(o, i).place <= first + interMax(ctype)

\* The modem's place is that of the last line it sent.
LastPlace(o) ==
  \/ /\ ctype = "SMS" /\ place = 0 /\ Received = 0
     /\ \A i \in Positions(o) : ~CountedAt(o, i)
  \/ /\ place >= first
     /\ \A i \in Positions(o) : CountedAt(o, i) => LineAt(o, i).place <= place
     /\ \/ place = first + Received
        \/ \E i \in Positions(o) : CountedAt(o, i) /\ LineAt(o, i).place = place

PlaceInv ==
  /\ nopen = 0 => place = 0
  /\ \A o \in Opens : (o = nopen /\ (inq[o] = <<>> \/ o \in hungup)) => place = 0
  /\ \A o \in Opens : (o = nopen /\ Waiting) => NoGap(o)
  /\ \A o \in Opens :
       (o = nopen /\ Waiting /\ inq[o] # <<>> /\ o \notin hungup) => LastPlace(o)

\* The lines of a response as the reader links them, and as the caller is to
\* find them.
Linked(r) ==
  LET s == r.p_intermediates IN
  /\ \A i \in 1 .. Len(s) : s[Len(s) - i + 1].place = first + i
  /\ (r.done /\ r.final.class = "success") => r.final.place = first + Len(s) + 1
Ordered(r) ==
  LET s == r.p_intermediates IN
  /\ \A i \in 1 .. Len(s) : s[i].place = first + i
  /\ (r.done /\ r.final.class = "success") => r.final.place = first + Len(s) + 1

ReceivedInv ==
  /\ cpc \in Looping => s_type = IF ctype = "SMS" THEN "SINGLELINE" ELSE ctype
  /\ (cpc \in Looping \cup {"hand"} /\ sp_response # NULL) => Linked(sp_response)
  /\ (cpc = "give" /\ ~timed /\ sp_response # NULL) => Ordered(sp_response)
  /\ (cpc = "reread" /\ out # NULL) => Ordered(out)

WholeInv == PlaceInv /\ ReceivedInv /\ AnswerIsWhole

-----------------------------------------------------------------------------
USE DEF pendVars, cmdVars, readVars, mainVars, modemVars, Looping

LEMMA Bounds ==
  /\ MaxOpens \in Nat /\ MaxCmds \in Nat /\ MaxInter \in Nat
  /\ NULL \notin Opens /\ Types \subseteq ATTypes /\ Unsols \subseteq Classes
<1>1. MaxOpens \in Nat /\ MaxCmds \in Nat /\ MaxInter \in Nat
  BY AtBoundsAssumption
<1>2. NULL \notin Opens /\ Types \subseteq ATTypes /\ Unsols \subseteq Classes
  BY TypesAssumption, AtNullAssumption
<1> QED BY <1>1, <1>2

\* Reverse, of SequencesExt.
LEMMA ReverseType ==
  ASSUME NEW S, NEW s \in Seq(S)
  PROVE  /\ Reverse(s) \in Seq(S) /\ Len(Reverse(s)) = Len(s)
         /\ \A i \in 1 .. Len(s) : Reverse(s)[i] = s[Len(s) - i + 1]
<1>1. Len(s) \in Nat
  OBVIOUS
<1>2. \A i \in 1 .. Len(s) : Len(s) - i + 1 \in 1 .. Len(s)
  BY <1>1
<1>3. \A i \in 1 .. Len(s) : s[Len(s) - i + 1] \in S
  BY <1>2
<1>4. \A i \in 1 .. Len(s) : (Len(s) - i) + 1 \in 1 .. Len(s) /\ s[(Len(s) - i) + 1] \in S
  BY <1>2, <1>3
<1> QED BY <1>1, <1>4 DEF Reverse

\* A line at the head of the list.
LEMMA PrependType ==
  ASSUME NEW S, NEW s \in Seq(S), NEW l \in S
  PROVE  /\ <<l>> \o s \in Seq(S) /\ Len(<<l>> \o s) = Len(s) + 1
         /\ (<<l>> \o s)[1] = l
         /\ \A i \in 1 .. Len(s) : (<<l>> \o s)[i + 1] = s[i]
OBVIOUS

LEMMA NoLineType == noLine \in Line /\ newResponse \in Responses /\ noResult \in Results
BY DEF noLine, Line, Classes, newResponse, Responses, noResult, Results, ATTypes

LEMMA InitType == Init => ChannelType
<1> SUFFICES ASSUME Init PROVE ChannelType
  OBVIOUS
<1>1. CommandType
  BY NoLineType DEF Init, CommandType, CommandPoints, Locked, ATTypes, Free, Command
<1>2. ReaderType
  <2>1. 0 \in 0 .. MaxOpens
    BY Bounds
  <2> QED BY <2>1, NoLineType DEF Init, ReaderType, ReaderPoints, MainPoints
<1>3. ModemType
  BY DEF Init, ModemType
<1> QED BY <1>1, <1>2, <1>3 DEF ChannelType

LEMMA FailType ==
  ASSUME CommandType, NEW n \in Nat, NEW err \in {"closed", "generic", "timeout"},
         failCommand(n, err), ncmd' \in Nat, ccmd' = ccmd, ctype' = ctype, timed' = timed,
         out' = out, s_type' = s_type, s_commandmutex' \in {Free, Command}
  PROVE  CommandType'
<1>1. noResult \in Results
  BY NoLineType
<1>2. result' \in Results
  BY <1>1 DEF failCommand, CommandType, Results
<1> QED BY <1>2 DEF CommandType, failCommand, clearPendingCommand, CommandPoints, Locked

LEMMA CommandTypeStep ==
  ASSUME ChannelType, CommandStep
  PROVE  CommandType' /\ ReaderType' /\ ModemType'
<1> USE DEF ChannelType
<1>1. CASE commandLock
  BY <1>1 DEF commandLock, CommandType, ReaderType, ModemType, CommandPoints, Locked, Free, Command
<1>2. CASE writeRefused
  <2>1. CommandType'
    BY <1>2, FailType DEF writeRefused, CommandType
  <2> QED BY <1>2, <2>1 DEF writeRefused, ReaderType, ModemType
<1>3. CASE writeFailed
  <2>1. CommandType'
    BY <1>3, FailType DEF writeFailed, CommandType
  <2> QED BY <1>3, <2>1 DEF writeFailed, ReaderType, ModemType
<1>4. CASE writeline
  <2>1. CommandType' /\ ReaderType'
    BY <1>4 DEF writeline, CommandType, ReaderType, CommandPoints, Locked
  <2>2. s_fd \in Opens /\ [cmd |-> ncmd + 1, type |-> ctype] \in [cmd : Nat, type : ATTypes]
    BY <1>4 DEF writeline, CommandType, ReaderType
  <2>3. inq' \in [Opens -> Seq([cmd : Nat, type : ATTypes])]
    <3> DEFINE e == [cmd |-> ncmd + 1, type |-> ctype]
    <3>1. inq' = [inq EXCEPT ![s_fd] = Append(inq[s_fd], e)]
      BY <1>4 DEF writeline
    <3>2. e \in [cmd : Nat, type : ATTypes] /\ inq[s_fd] \in Seq([cmd : Nat, type : ATTypes])
      BY <2>2 DEF ModemType
    <3> HIDE DEF e
    <3>3. Append(inq[s_fd], e) \in Seq([cmd : Nat, type : ATTypes])
      BY <3>2
    <3> QED BY <3>1, <3>3 DEF ModemType
  <2> QED BY <1>4, <2>1, <2>3 DEF writeline, ModemType
<1>5. CASE armCommand
  <2>1. s_type' \in ATTypes /\ s_smsPDU' \in BOOLEAN
    BY <1>5 DEF armCommand, CommandType, ATTypes
  <2>2. CommandType'
    BY <1>5, <2>1, NoLineType DEF armCommand, CommandType, CommandPoints, Locked
  <2> QED BY <1>5, <2>2 DEF armCommand, ReaderType, ModemType
<1>6. CASE commandReverse
  <2>1. sp_response' \in Responses \cup {NULL}
    <3>1. CASE timed
      BY <1>6, <3>1 DEF commandReverse, CommandType
    <3>2. CASE ~timed
      <4>1. sp_response \in Responses
        BY <1>6, <3>2 DEF commandReverse, CommandType
      <4>2. sp_response.p_intermediates \in Seq(Line)
        BY <4>1 DEF Responses
      <4>3. reverseIntermediates(sp_response.p_intermediates) \in Seq(Line)
        BY <4>2, ReverseType DEF reverseIntermediates
      <4>4. sp_response' = [sp_response EXCEPT !.p_intermediates =
                              reverseIntermediates(sp_response.p_intermediates)]
        BY <1>6, <3>2 DEF commandReverse
      <4> QED BY <4>1, <4>3, <4>4 DEF Responses
    <3> QED BY <3>1, <3>2
  <2>2. CommandType'
    BY <1>6, <2>1 DEF commandReverse, CommandType, CommandPoints, Locked
  <2> QED BY <1>6, <2>2 DEF commandReverse, ReaderType, ModemType
<1>13. CASE commandReturn
  <2> DEFINE r == IF out = NULL THEN newResponse ELSE out
  <2>1. r \in Responses
    BY NoLineType DEF CommandType
  <2>2. r.final \in Line /\ r.p_intermediates \in Seq(Line)
    BY <2>1 DEF Responses
  <2> DEFINE err == IF s_readerClosed THEN "closed"
                    ELSE IF isInvalidResponse(r) THEN "invalid" ELSE "ok"
  <2>3. err \in {"ok", "invalid", "closed", "generic", "timeout"}
    OBVIOUS
  <2>4. result' = [cmd |-> ccmd, err |-> err, final |-> r.final, inter |-> r.p_intermediates,
                   type |-> ctype, handshake |-> timed]
    BY <1>13 DEF commandReturn
  <2> HIDE DEF r, err
  <2>5. result' \in Results
    BY <2>2, <2>3, <2>4 DEF Results, CommandType
  <2>6. CommandType'
    BY <1>13, <2>5 DEF commandReturn, CommandType, clearPendingCommand, CommandPoints, Locked
  <2> QED BY <1>13, <2>6 DEF commandReturn, ReaderType, ModemType
<1>14. CASE commandGive
  BY <1>14 DEF commandGive, CommandType, ReaderType, ModemType, CommandPoints, Locked
<1>15. CASE commandLoop
  BY <1>15 DEF commandLoop, CommandType, ReaderType, ModemType, CommandPoints, Locked
<1>16. CASE commandClosed
  BY <1>16 DEF commandClosed, CommandType, ReaderType, ModemType, CommandPoints, Locked
<1>17. CASE commandSpin
  BY <1>17 DEF commandSpin, CommandType, ReaderType, ModemType, CommandPoints, Locked
<1>7. CASE commandWait
  BY <1>7 DEF commandWait, CommandType, ReaderType, ModemType, CommandPoints, Locked
<1>8. CASE commandCrash
  BY <1>8 DEF commandCrash, CommandType, ReaderType, ModemType
<1>9. CASE commandWake
  BY <1>9 DEF commandWake, CommandType, ReaderType, ModemType, CommandPoints, Locked
<1>10. CASE commandTimeout
  <2>1. CommandType'
    BY <1>10, FailType DEF commandTimeout, CommandType
  <2> QED BY <1>10, <2>1 DEF commandTimeout, ReaderType, ModemType
<1>11. CASE handshakeRetry
  BY <1>11 DEF handshakeRetry, CommandType, ReaderType, ModemType, CommandPoints, Locked
<1>12. CASE commandUnlock
  BY <1>12 DEF commandUnlock, CommandType, ReaderType, ModemType, CommandPoints, ATTypes
<1> QED BY <1>1, <1>2, <1>3, <1>4, <1>5, <1>6, <1>7, <1>8, <1>9, <1>10, <1>11, <1>12,
          <1>13, <1>14, <1>15, <1>16, <1>17
        DEF CommandStep

LEMMA IssueTypeStep ==
  ASSUME ChannelType, at_handshake \/ \E t \in Types : at_send_command(t)
  PROVE  CommandType' /\ ReaderType' /\ ModemType'
<1> USE DEF ChannelType
<1>1. CASE at_handshake
  BY <1>1 DEF at_handshake, CommandType, ReaderType, ModemType, CommandPoints, ATTypes
<1>2. ASSUME NEW t \in Types, at_send_command(t) PROVE CommandType' /\ ReaderType' /\ ModemType'
  BY <1>2, Bounds DEF at_send_command, CommandType, ReaderType, ModemType, CommandPoints
<1> QED BY <1>1, <1>2

LEMMA ReaderTypeStep ==
  ASSUME ChannelType, NEW o \in Opens, ReaderStep(o)
  PROVE  CommandType' /\ ReaderType' /\ ModemType'
<1> USE DEF ChannelType
<1>1. CASE readline(o)
  <2>1. s_fd \in Opens /\ wire[s_fd] \in Seq(Line) /\ wire[s_fd] # <<>>
    BY <1>1 DEF readline, ReaderType, ModemType
  <2>2. Head(wire[s_fd]) \in Line /\ Tail(wire[s_fd]) \in Seq(Line)
    BY <2>1, HeadTailProperties
  <2>3. ReaderType'
    BY <1>1, <2>2 DEF readline, ReaderType, ReaderPoints
  <2>4. ModemType'
    BY <1>1, <2>2 DEF readline, ModemType
  <2> QED BY <1>1, <2>3, <2>4 DEF readline, CommandType
<1>2. CASE readlineEof(o)
  BY <1>2 DEF readlineEof, CommandType, ReaderType, ModemType, ReaderPoints
<1>3. CASE processLine(o)
  <2>1. rline[o] \in Line /\ noLine \in Line
    BY NoLineType DEF ReaderType
  <2>2. ReaderType' /\ ModemType'
    BY <1>3, <2>1 DEF processLine, ReaderType, ModemType, ReaderPoints
  <2>3. sp_response' \in Responses \cup {NULL} /\ s_smsPDU' \in BOOLEAN
    <3>1. CASE sp_response # NULL /\ finalLine(rline[o])
      BY <3>1, <2>1 DEF finalLine, CommandType, Responses
    <3>2. CASE promptLine(rline[o])
      BY <3>2 DEF promptLine, CommandType
    <3>3. CASE sp_response # NULL /\ intermediateLine(rline[o])
      <4>1. sp_response \in Responses /\ sp_response.p_intermediates \in Seq(Line)
        BY <3>3 DEF CommandType, Responses
      <4>2. <<rline[o]>> \o sp_response.p_intermediates \in Seq(Line)
        BY <4>1, <2>1, PrependType
      <4> DEFINE s == <<rline[o]>> \o sp_response.p_intermediates
      <4>3. sp_response' = [sp_response EXCEPT !.p_intermediates = s] /\ s_smsPDU' = s_smsPDU
        BY <3>3 DEF intermediateLine
      <4> HIDE DEF s
      <4>4. s \in Seq(Line)
        BY <4>2 DEF s
      <4> QED BY <4>1, <4>3, <4>4 DEF Responses, CommandType
    <3>4. CASE unsolicitedLine
      BY <3>4 DEF unsolicitedLine, CommandType
    <3> QED BY <1>3, <3>1, <3>2, <3>3, <3>4 DEF processLine
  <2>4. CommandType'
    BY <1>3, <2>3 DEF processLine, CommandType
  <2> QED BY <2>2, <2>4
<1>4. CASE readerCheck(o)
  BY <1>4 DEF readerCheck, CommandType, ReaderType, ModemType, ReaderPoints
<1>5. CASE readerSetClosed(o)
  BY <1>5 DEF readerSetClosed, CommandType, ReaderType, ModemType, ReaderPoints
<1>6. CASE at_closeFd(o)
  BY <1>6 DEF at_closeFd, CommandType, ReaderType, ModemType, ReaderPoints
<1>7. CASE at_closeFlag(o)
  BY <1>7 DEF at_closeFlag, CommandType, ReaderType, ModemType, ReaderPoints
<1>8. CASE onATReaderClosed(o)
  BY <1>8 DEF onATReaderClosed, CommandType, ReaderType, ModemType, ReaderPoints
<1> QED BY <1>1, <1>2, <1>3, <1>4, <1>5, <1>6, <1>7, <1>8 DEF ReaderStep

LEMMA MainTypeStep ==
  ASSUME ChannelType, ReaderInv, MainStep
  PROVE  CommandType' /\ ReaderType' /\ ModemType'
<1> USE DEF ChannelType
<1>1. CASE mainOpen
  <2>1. nopen + 1 \in 0 .. MaxOpens
    BY <1>1, Bounds DEF mainOpen, ReaderType
  <2> QED BY <1>1, <2>1 DEF mainOpen, CommandType, ReaderType, ModemType, MainPoints
<1>2. CASE at_openFd
  BY <1>2 DEF at_openFd, CommandType, ReaderType, ModemType, MainPoints, ReaderInv, ThreadsInv, Opening
<1>3. CASE at_openFlag
  BY <1>3 DEF at_openFlag, resetUnder, CommandType, ReaderType, ModemType, MainPoints
<1>4. CASE at_openPending
  BY <1>4 DEF at_openPending, resetUnder, CommandType, ReaderType, ModemType, MainPoints
<1>5. CASE at_openCreate
  BY <1>5 DEF at_openCreate, CommandType, ReaderType, ModemType, MainPoints, ReaderPoints
<1>6. CASE waitForClose
  BY <1>6 DEF waitForClose, CommandType, ReaderType, ModemType, MainPoints
<1> QED BY <1>1, <1>2, <1>3, <1>4, <1>5, <1>6 DEF MainStep

\* send puts one line on the wire.
LEMMA SendType ==
  ASSUME ModemType, NEW o \in Opens, NEW class \in Classes, NEW n \in Nat, NEW k \in Nat,
         send(o, class, n, k)
  PROVE  LET l == [class |-> class, cmd |-> n, place |-> k] IN
         /\ l \in Line
         /\ wire' \in [Opens -> Seq(Line)]
         /\ wire'[o] = Append(wire[o], l)
         /\ \A p \in Opens : p # o => wire'[p] = wire[p]
<1> DEFINE l == [class |-> class, cmd |-> n, place |-> k]
<1>1. l \in Line
  BY DEF Line
<1>2. wire' = [wire EXCEPT ![o] = Append(wire[o], l)]
  BY DEF send
<1> HIDE DEF l
<1>3. Append(wire[o], l) \in Seq(Line)
  BY <1>1 DEF ModemType
<1>4. /\ l \in Line
      /\ wire' \in [Opens -> Seq(Line)]
      /\ wire'[o] = Append(wire[o], l)
      /\ \A p \in Opens : p # o => wire'[p] = wire[p]
  BY <1>1, <1>2, <1>3 DEF ModemType
<1> QED BY <1>4 DEF l

LEMMA ModemTypeStep ==
  ASSUME ChannelType, NEW o \in Opens, ModemStep(o)
  PROVE  CommandType' /\ ReaderType' /\ ModemType'
<1> USE DEF ChannelType
<1>0. inq[o] # <<>> => Head(inq[o]) \in [cmd : Nat, type : ATTypes]
                       /\ Tail(inq[o]) \in Seq([cmd : Nat, type : ATTypes])
  BY HeadTailProperties DEF ModemType
<1>1. CASE modemPrompt(o)
  <2>1. wire' \in [Opens -> Seq(Line)]
    BY <1>0, <1>1, SendType DEF modemPrompt, Classes
  <2> QED BY <1>1, <2>1 DEF modemPrompt, CommandType, ReaderType, ModemType
<1>2. CASE modemIntermediate(o)
  <2>1. interClass(Head(inq[o]).type) \in Classes /\ place + 1 \in Nat
    BY DEF interClass, Classes, ModemType
  <2>2. wire' \in [Opens -> Seq(Line)]
    BY <1>0, <1>2, <2>1, SendType DEF modemIntermediate, mayAnswer
  <2> QED BY <1>2, <2>1, <2>2 DEF modemIntermediate, CommandType, ReaderType, ModemType
<1>3. CASE modemFinal(o)
  <2>1. inq[o] # <<>> /\ place + 1 \in Nat
    BY <1>3 DEF modemFinal, mayAnswer, ModemType
  <2>2. wire' \in [Opens -> Seq(Line)]
    <3>1. PICK class \in {"success", "error"} : send(o, class, Head(inq[o]).cmd, place + 1)
      BY <1>3 DEF modemFinal
    <3>2. class \in Classes /\ Head(inq[o]).cmd \in Nat
      BY <1>0, <2>1 DEF Classes
    <3> QED BY <3>1, <3>2, <2>1, SendType
  <2>3. inq' \in [Opens -> Seq([cmd : Nat, type : ATTypes])]
    BY <1>0, <1>3, <2>1 DEF modemFinal, ModemType
  <2> QED BY <1>3, <2>2, <2>3 DEF modemFinal, CommandType, ReaderType, ModemType
<1>4. CASE modemUnsolicited(o)
  <2>1. wire' \in [Opens -> Seq(Line)]
    BY <1>4, Bounds, SendType DEF modemUnsolicited
  <2> QED BY <1>4, <2>1 DEF modemUnsolicited, CommandType, ReaderType, ModemType
<1>5. CASE modemHangup(o)
  BY <1>5 DEF modemHangup, CommandType, ReaderType, ModemType
<1> QED BY <1>1, <1>2, <1>3, <1>4, <1>5 DEF ModemStep, ModemAnswer

-----------------------------------------------------------------------------
(* Who holds the mutex, and when a response is pending.                    *)

LEMMA CommandInvStep ==
  ASSUME ChannelType, CommandInv, CommandStep
  PROVE  CommandInv'
<1> USE DEF CommandInv, MutexInv, PendingInv, Locked, Free, Command
<1>1. CASE commandLock
  BY <1>1 DEF commandLock
<1>2. CASE writeRefused
  BY <1>2 DEF writeRefused, failCommand, clearPendingCommand
<1>3. CASE writeFailed
  BY <1>3 DEF writeFailed, failCommand, clearPendingCommand
<1>4. CASE writeline
  BY <1>4 DEF writeline
<1>5. CASE armCommand
  BY <1>5 DEF armCommand
<1>6. CASE commandReturn
  BY <1>6 DEF commandReturn, clearPendingCommand
<1>13. CASE commandGive
  BY <1>13 DEF commandGive
<1>14. CASE commandLoop
  BY <1>14 DEF commandLoop
<1>15. CASE commandClosed
  BY <1>15 DEF commandClosed
<1>16. CASE commandSpin
  BY <1>16 DEF commandSpin
<1>17. CASE commandReverse
  BY <1>17 DEF commandReverse
<1>7. CASE commandWait
  BY <1>7 DEF commandWait
<1>8. CASE commandCrash
  BY <1>8 DEF commandCrash
<1>9. CASE commandWake
  BY <1>9 DEF commandWake
<1>10. CASE commandTimeout
  BY <1>10 DEF commandTimeout, failCommand, clearPendingCommand
<1>11. CASE handshakeRetry
  BY <1>11 DEF handshakeRetry
<1>12. CASE commandUnlock
  BY <1>12 DEF commandUnlock
<1> QED BY <1>1, <1>2, <1>3, <1>4, <1>5, <1>6, <1>7, <1>8, <1>9, <1>10, <1>11, <1>12,
          <1>13, <1>14, <1>15, <1>16, <1>17
        DEF CommandStep

\* The other threads leave the command thread's place and the mutex alone, and
\* give it no response it does not have.
LEMMA CommandInvOthers ==
  ASSUME CommandInv, UNCHANGED <<cpc, s_commandmutex>>,
         sp_response = NULL => sp_response' = NULL
  PROVE  CommandInv'
BY DEF CommandInv, MutexInv, PendingInv

LEMMA ReaderLeavesCommand ==
  ASSUME NEW o \in Opens, ReaderStep(o)
  PROVE  /\ UNCHANGED <<s_commandmutex, s_type, cmdVars>>
         /\ sp_response = NULL => sp_response' = NULL
<1>1. CASE processLine(o)
  BY <1>1 DEF processLine, finalLine, promptLine, intermediateLine, unsolicitedLine
<1>2. CASE ~processLine(o)
  BY <1>2 DEF ReaderStep, readline, readlineEof, readerCheck, readerSetClosed, at_closeFd,
              at_closeFlag, onATReaderClosed
<1> QED BY <1>1, <1>2

LEMMA MainLeavesCommand ==
  ASSUME MainStep
  PROVE  /\ UNCHANGED <<s_commandmutex, s_type, cmdVars, rline, modemVars>>
         /\ sp_response' \in {sp_response, NULL}
         /\ overtaken \subseteq overtaken'
BY DEF MainStep, mainOpen, at_openFd, at_openFlag, at_openPending, at_openCreate, waitForClose,
       resetUnder

LEMMA ModemLeavesThreads ==
  ASSUME NEW o \in Opens, ModemStep(o)
  PROVE  UNCHANGED <<s_fd, s_readerClosed, s_commandmutex, pendVars, cmdVars, readVars, mainVars>>
BY DEF ModemStep, ModemAnswer, modemPrompt, modemIntermediate, modemFinal,
       modemUnsolicited, modemHangup

LEMMA CommandLeavesReaders ==
  ASSUME CommandStep
  PROVE  UNCHANGED <<s_fd, s_readerClosed, readVars, mainVars, pdus, wire, place, hungup>>
BY DEF CommandStep, commandLock, writeRefused, writeFailed, writeline, armCommand,
       commandLoop, commandClosed, commandWait, commandSpin, commandReverse,
       commandGive, commandReturn, commandCrash, commandWake, commandTimeout,
       handshakeRetry, commandUnlock

LEMMA IssueLeavesReaders ==
  ASSUME at_handshake \/ \E t \in Types : at_send_command(t)
  PROVE  /\ UNCHANGED <<s_fd, s_readerClosed, readVars, mainVars, modemVars>>
         /\ UNCHANGED <<s_commandmutex, pendVars, ccmd, result>>
         /\ cpc = "idle" /\ cpc' = "lock" /\ initialized
BY DEF at_handshake, at_send_command

-----------------------------------------------------------------------------
(* Which reader has the channel.                                           *)

LEMMA ReaderInvOthers ==
  ASSUME ReaderInv, UNCHANGED <<s_fd, rpc, mpc, nopen, s_closed>>
  PROVE  ReaderInv'
BY DEF ReaderInv, ThreadsInv, FdInv, Opening, Reading

\* A step of a reader is one of the thread of the latest open.
LEMMA ReaderIsLatest ==
  ASSUME ChannelType, ReaderInv, NEW o \in Opens, rpc[o] \notin {"none", "done"}
  PROVE  o = nopen /\ mpc = "waitForClose"
<1>1. o \in Nat /\ nopen \in Nat /\ mpc \in MainPoints
  BY Bounds DEF ChannelType, ReaderType, Opens
<1>2. o = nopen
  BY <1>1 DEF ReaderInv, ThreadsInv
<1> QED BY <1>1, <1>2 DEF ReaderInv, ThreadsInv, Opens, Opening, MainPoints

LEMMA ReaderInvStep ==
  ASSUME ChannelType, ReaderInv, NEW o \in Opens, ReaderStep(o)
  PROVE  ReaderInv'
<1>1. rpc[o] \notin {"none", "done"}
  BY DEF ReaderStep, readline, readlineEof, processLine, readerCheck, readerSetClosed,
         at_closeFd, at_closeFlag, onATReaderClosed
<1>2. o = nopen /\ mpc = "waitForClose"
  BY <1>1, ReaderIsLatest
<1>3. UNCHANGED <<mpc, nopen>>
  BY DEF ReaderStep, readline, readlineEof, processLine, readerCheck, readerSetClosed,
         at_closeFd, at_closeFlag, onATReaderClosed
<1>4. rpc' = [rpc EXCEPT ![o] = rpc'[o]] /\ rpc'[o] # "none"
  BY DEF ReaderStep, readline, readlineEof, processLine, readerCheck, readerSetClosed,
         at_closeFd, at_closeFlag, onATReaderClosed, ChannelType, ReaderType
<1>5. ThreadsInv'
  <2>1. \A p \in Opens : p # nopen => rpc'[p] = rpc[p]
    BY <1>2, <1>4 DEF ChannelType, ReaderType
  <2>2. \A p \in Opens : p < nopen => p # nopen
    BY Bounds DEF Opens
  <2>3. \A p \in Opens : p > nopen => p # nopen
    BY Bounds DEF Opens
  <2> QED BY <1>2, <1>3, <1>4, <2>1, <2>2, <2>3 DEF ReaderInv, ThreadsInv, Opening
<1>6. FdInv'
  <2>1. ~s_closed
    BY <1>1, <1>2 DEF ReaderInv, FdInv
  <2> USE <1>2, <1>3, <2>1 DEF ReaderInv, FdInv, Reading, Opening, ChannelType, ReaderType
  <2>2. CASE readline(o) \/ readlineEof(o) \/ processLine(o)
    BY <2>2 DEF readline, readlineEof, processLine
  <2>3. CASE readerCheck(o)
    BY <2>3 DEF readerCheck
  <2>4. CASE readerSetClosed(o)
    BY <2>4 DEF readerSetClosed
  <2>5. CASE at_closeFd(o)
    BY <2>5 DEF at_closeFd
  <2>6. CASE at_closeFlag(o)
    BY <2>6 DEF at_closeFlag
  <2>7. CASE onATReaderClosed(o)
    BY <2>7 DEF onATReaderClosed
  <2> QED BY <2>2, <2>3, <2>4, <2>5, <2>6, <2>7 DEF ReaderStep
<1> QED BY <1>5, <1>6 DEF ReaderInv

LEMMA MainInvStep ==
  ASSUME ChannelType, ReaderInv, MainStep
  PROVE  ReaderInv'
<1> USE DEF ReaderInv
<1>0. nopen \in Nat /\ \A o \in Opens : o \in Nat
  BY Bounds DEF ChannelType, ReaderType, Opens
<1>1. CASE mainOpen
  <2>1. nopen' = nopen + 1 /\ nopen' \in Opens /\ rpc' = rpc /\ mpc' = "fd" /\ mpc = "open"
    BY <1>0, <1>1, Bounds DEF mainOpen, Opens
  <2>2. \A o \in Opens : o < nopen + 1 => rpc[o] = "done"
    <3> SUFFICES ASSUME NEW o \in Opens, o < nopen + 1 PROVE rpc[o] = "done"
      OBVIOUS
    <3>1. CASE o < nopen
      BY <3>1 DEF ThreadsInv
    <3>2. CASE o = nopen
      BY <3>2, <2>1, Bounds DEF ThreadsInv, Opens
    <3> QED BY <1>0, <3>1, <3>2
  <2>3. \A o \in Opens : o > nopen => rpc[o] = "none"
    BY DEF ThreadsInv
  <2>4. \A o \in Opens : o > nopen + 1 => rpc[o] = "none"
    BY <1>0, <2>3
  <2>5. rpc[nopen + 1] = "none"
    BY <1>0, <2>1, <2>3
  <2>6. ThreadsInv'
    BY <2>1, <2>2, <2>4, <2>5 DEF ThreadsInv
  <2> QED BY <1>1, <2>6 DEF mainOpen, FdInv, Opening
<1>2. CASE at_openFd
  BY <1>2 DEF at_openFd, ThreadsInv, FdInv, Opening
<1>3. CASE at_openFlag
  BY <1>3 DEF at_openFlag, ThreadsInv, FdInv, Opening
<1>4. CASE at_openPending
  BY <1>4 DEF at_openPending, ThreadsInv, FdInv, Opening
<1>5. CASE at_openCreate
  <2>1. nopen \in Opens /\ \A o \in Opens : (o < nopen \/ o > nopen) => o # nopen
    BY <1>0, <1>5 DEF at_openCreate, ThreadsInv, Opening
  <2>2. rpc'[nopen] = "read" /\ \A o \in Opens : o # nopen => rpc'[o] = rpc[o]
    BY <1>5, <2>1 DEF at_openCreate, ChannelType, ReaderType
  <2> QED BY <1>5, <2>1, <2>2 DEF at_openCreate, ThreadsInv, FdInv, Opening, Reading
<1>6. CASE waitForClose
  BY <1>6 DEF waitForClose, closeSeen, ThreadsInv, FdInv, Opening
<1> QED BY <1>1, <1>2, <1>3, <1>4, <1>5, <1>6 DEF MainStep

-----------------------------------------------------------------------------
(* The first invariant, of every specification of the module.              *)

ThreadInv == ChannelType /\ CommandInv /\ ReaderInv

LEMMA ThreadInvInit == Init => ThreadInv
<1> SUFFICES ASSUME Init PROVE ThreadInv
  OBVIOUS
<1>1. CommandInv
  BY DEF Init, CommandInv, MutexInv, PendingInv, Locked, Free, Command
<1>2. ThreadsInv
  <2>1. \A o \in Opens : ~ (o < 0)
    BY Bounds DEF Opens
  <2> QED BY <2>1 DEF Init, ThreadsInv, Opening
<1>3. FdInv
  BY DEF Init, FdInv, Opening
<1> QED BY <1>1, <1>2, <1>3, InitType DEF ThreadInv, ReaderInv

LEMMA ThreadInvStep ==
  ASSUME ThreadInv, [Next]_vars
  PROVE  ThreadInv'
<1> USE DEF ThreadInv
<1>1. CASE IssueNext
  <2>1. at_handshake \/ \E t \in Types : at_send_command(t)
    BY <1>1 DEF IssueNext
  <2>2. CommandInv'
    BY <2>1, IssueLeavesReaders DEF CommandInv, MutexInv, PendingInv, Locked
  <2> QED BY <2>1, <2>2, IssueLeavesReaders, IssueTypeStep, ReaderInvOthers DEF ChannelType
<1>2. CASE CommandNext
  BY <1>2, CommandTypeStep, CommandInvStep, CommandLeavesReaders, ReaderInvOthers
     DEF CommandNext, ChannelType
<1>3. CASE MainNext
  BY <1>3, MainTypeStep, MainLeavesCommand, CommandInvOthers, MainInvStep
     DEF MainNext, ChannelType
<1>4. ASSUME NEW o \in Opens, ReaderNext(o) PROVE ThreadInv'
  BY <1>4, ReaderTypeStep, ReaderLeavesCommand, CommandInvOthers, ReaderInvStep
     DEF ReaderNext, ChannelType
<1>5. ASSUME NEW o \in Opens, ModemNext(o) PROVE ThreadInv'
  BY <1>5, ModemTypeStep, ModemLeavesThreads, CommandInvOthers, ReaderInvOthers
     DEF ModemNext, ChannelType
<1>6. CASE UNCHANGED vars
  <2>1. CommandType' /\ ReaderType' /\ ModemType'
    BY <1>6 DEF vars, ChannelType, CommandType, ReaderType, ModemType
  <2> QED BY <1>6, <2>1, CommandInvOthers, ReaderInvOthers DEF vars, ChannelType
<1> QED BY <1>1, <1>2, <1>3, <1>4, <1>5, <1>6 DEF Next

\* Every state of Spec is of the types above, the mutex is with the command
\* thread where it should be, and the reader of the latest open has the channel.
THEOREM ThreadsSafe == Spec => []ThreadInv
BY ThreadInvInit, ThreadInvStep, PTL DEF Spec

\* At most one reader thread has the channel, whatever the modem does and
\* however often mainLoop opens it: the exclusive access readline relies on.
THEOREM ExclusiveReader == Spec => []OneReader
<1>1. ThreadInv => OneReader
  <2> SUFFICES ASSUME ThreadInv, NEW o \in Opens,
                      rpc[o] \in Reading \cup {"closeFd", "closeFlag"}
               PROVE  o = nopen /\ (s_fd = o \/ rpc[o] = "closeFlag")
    BY DEF OneReader, Reading
  <2>1. o = nopen /\ mpc = "waitForClose"
    BY ReaderIsLatest DEF ThreadInv, Reading
  <2> QED BY <2>1 DEF ThreadInv, ReaderInv, FdInv
<1> QED BY <1>1, ThreadsSafe, PTL

\* A command never finds another one pending, on any path of timeouts, errors
\* and reopenings.
THEOREM NonePending == Spec => []NoCommandPending
<1>1. ThreadInv => NoCommandPending
  BY DEF ThreadInv, CommandInv, PendingInv, NoCommandPending
<1> QED BY <1>1, ThreadsSafe, PTL

-----------------------------------------------------------------------------
(* How the lines on a channel change.                                      *)

LEMMA LineType ==
  ASSUME ChannelType, NEW o \in Opens
  PROVE  /\ Len(wire[o]) \in Nat /\ wire[o] \in Seq(Line) /\ 0 \in Positions(o)
         /\ \A i \in Positions(o) : i \in Nat /\ LineAt(o, i) \in Line
<1>1. wire[o] \in Seq(Line) /\ rline[o] \in Line
  BY DEF ChannelType, ModemType, ReaderType
<1>2. Len(wire[o]) \in Nat
  BY <1>1
<1>3. \A i \in 1 .. Len(wire[o]) : wire[o][i] \in Line
  BY <1>1
<1> QED BY <1>1, <1>2, <1>3 DEF Positions, LineAt

\* Nothing on channel o changes.
LEMMA SameLines ==
  ASSUME NEW o \in Opens, wire'[o] = wire[o], rline'[o] = rline[o], inq'[o] = inq[o]
  PROVE  /\ Positions(o)' = Positions(o) /\ \A i \in Positions(o) : LineAt(o, i)' = LineAt(o, i)
         /\ Quiet(o)' = Quiet(o) /\ NoStray(o)' = NoStray(o) /\ FinalLast(o)' = FinalLast(o)
         /\ (ccmd' = ccmd /\ ctype' = ctype) => AllOwn(o)' = AllOwn(o)
<1>1. /\ Positions(o)' = Positions(o)
      /\ \A i \in Positions(o) : LineAt(o, i)' = LineAt(o, i)
  BY DEF Positions, LineAt
<1>2. Quiet(o)' = Quiet(o) /\ NoStray(o)' = NoStray(o)
  BY <1>1 DEF Quiet, NoStray
<1>3. FinalLast(o)' = FinalLast(o)
  BY <1>1 DEF FinalLast
<1>4. (ccmd' = ccmd /\ ctype' = ctype) => AllOwn(o)' = AllOwn(o)
  BY <1>1 DEF AllOwn
<1> QED BY <1>1, <1>2, <1>3, <1>4

\* readline takes the next line off the wire: every line moves up by one.
LEMMA ReadShift ==
  ASSUME ThreadInv, NEW o \in Opens, readline(o)
  PROVE  /\ o = nopen /\ s_fd = o
         /\ \A p \in Opens : p # o => wire'[p] = wire[p] /\ rline'[p] = rline[p]
         /\ \A i \in Positions(o)' : i \in Nat /\ i + 1 \in Positions(o)
         /\ \A i \in Positions(o)' : LineAt(o, i)' = LineAt(o, i + 1)
         /\ \A i \in Positions(o) : i = 0 \/ (i \in Nat /\ i - 1 \in Positions(o)')
<1>1. o = nopen /\ s_fd = o
  <2>1. rpc[o] = "read"
    BY DEF readline
  <2>2. o = nopen /\ mpc = "waitForClose"
    BY <2>1, ReaderIsLatest DEF ThreadInv
  <2> QED BY <2>1, <2>2 DEF ThreadInv, ReaderInv, FdInv, Reading
<1>2. wire[o] \in Seq(Line) /\ wire[o] # <<>> /\ Len(wire[o]) \in Nat
  BY <1>1 DEF readline, ThreadInv, ChannelType, ModemType
<1>3. wire'[o] = Tail(wire[o]) /\ rline'[o] = wire[o][1]
  BY <1>1, <1>2 DEF readline, ThreadInv, ChannelType, ModemType, ReaderType
<1>4. \A p \in Opens : p # o => wire'[p] = wire[p] /\ rline'[p] = rline[p]
  BY <1>1 DEF readline, ThreadInv, ChannelType, ModemType, ReaderType
<1>5. /\ Len(wire'[o]) = Len(wire[o]) - 1 /\ Len(wire'[o]) \in Nat
      /\ \A i \in 1 .. Len(wire'[o]) : wire'[o][i] = wire[o][i + 1]
  BY <1>2, <1>3, HeadTailProperties, LenProperties
<1>6. Positions(o)' = 0 .. Len(wire'[o])
  BY DEF Positions
<1>7. \A i \in Positions(o)' : i \in Nat /\ i + 1 \in Positions(o)
  BY <1>2, <1>5, <1>6 DEF Positions
<1>8. \A i \in Positions(o) : i = 0 \/ (i \in Nat /\ i - 1 \in Positions(o)')
  BY <1>2, <1>5, <1>6 DEF Positions
<1>9. \A i \in Positions(o)' : LineAt(o, i)' = LineAt(o, i + 1)
  <2> SUFFICES ASSUME NEW i \in Positions(o)' PROVE LineAt(o, i)' = LineAt(o, i + 1)
    OBVIOUS
  <2>1. i \in Nat /\ (i # 0 => i \in 1 .. Len(wire'[o])) /\ i + 1 # 0
    BY <1>5, <1>6
  <2>2. CASE i = 0
    BY <1>3, <2>2 DEF LineAt
  <2>3. CASE i # 0
    BY <1>5, <2>1, <2>3 DEF LineAt
  <2> QED BY <2>2, <2>3
<1> QED BY <1>1, <1>4, <1>7, <1>8, <1>9

LEMMA ReadKeeps ==
  ASSUME ThreadInv, NEW o \in Opens, readline(o)
  PROVE  /\ Quiet(o) => Quiet(o)'
         /\ NoStray(o) => NoStray(o)'
         /\ AllOwn(o) => AllOwn(o)'
         /\ FinalLast(o) => FinalLast(o)'
<1>1. UNCHANGED <<inq, ccmd, ctype>>
  BY DEF readline
<1>2. /\ \A i \in Positions(o)' : i \in Nat /\ i + 1 \in Positions(o)
      /\ \A i \in Positions(o)' : LineAt(o, i)' = LineAt(o, i + 1)
  BY ReadShift
<1>3. Quiet(o) => Quiet(o)'
  BY <1>1, <1>2 DEF Quiet
<1>4. NoStray(o) => NoStray(o)'
  BY <1>1, <1>2 DEF NoStray
<1>5. AllOwn(o) => AllOwn(o)'
  BY <1>1, <1>2 DEF AllOwn
<1>6. ASSUME FinalLast(o) PROVE FinalLast(o)'
  <2> SUFFICES ASSUME NEW i \in Positions(o)', IsFinal(LineAt(o, i)')
               PROVE  inq'[o] = <<>> /\ \A j \in Positions(o)' : j > i => LineAt(o, j)'.cmd = 0
    BY DEF FinalLast, IsFinal
  <2>1. IsFinal(LineAt(o, i + 1)) /\ i + 1 \in Positions(o) /\ i \in Nat
    BY <1>2
  <2>2. /\ inq[o] = <<>>
        /\ \A j \in Positions(o) : j > i + 1 => LineAt(o, j).cmd = 0
    BY <1>6, <2>1 DEF FinalLast
  <2>3. ASSUME NEW j \in Positions(o)', j > i PROVE LineAt(o, j)'.cmd = 0
    <3>1. j + 1 > i + 1
      BY <1>2, <2>1, <2>3
    <3> QED BY <1>2, <2>2, <3>1
  <2> QED BY <1>1, <2>2, <2>3
<1> QED BY <1>3, <1>4, <1>5, <1>6

\* processLine is done with the line at position 0.
LEMMA ProcessLines ==
  ASSUME ThreadInv, NEW o \in Opens, processLine(o)
  PROVE  /\ o = nopen
         /\ \A p \in Opens : p # o => rline'[p] = rline[p]
         /\ Positions(o)' = Positions(o) /\ LineAt(o, 0)' = noLine
         /\ \A i \in Positions(o) : i # 0 => LineAt(o, i)' = LineAt(o, i)
<1>1. o = nopen
  BY ReaderIsLatest DEF processLine, ThreadInv
<1>2. wire' = wire /\ rline' = [rline EXCEPT ![o] = noLine]
  BY DEF processLine
<1> QED BY <1>1, <1>2 DEF Positions, LineAt, ThreadInv, ChannelType, ReaderType

LEMMA ProcessKeeps ==
  ASSUME ThreadInv, NEW o \in Opens, processLine(o)
  PROVE  /\ Quiet(o) => Quiet(o)'
         /\ NoStray(o) => NoStray(o)'
         /\ AllOwn(o) => AllOwn(o)'
         /\ FinalLast(o) => FinalLast(o)'
<1>1. UNCHANGED <<inq, ccmd, ctype>>
  BY DEF processLine
<1>2. /\ Positions(o)' = Positions(o) /\ LineAt(o, 0)' = noLine
      /\ \A i \in Positions(o) : i # 0 => LineAt(o, i)' = LineAt(o, i)
  BY ProcessLines
<1>3. noLine.cmd = 0 /\ noLine.class = "other"
  BY DEF noLine
<1>4. Quiet(o) => Quiet(o)'
  BY <1>1, <1>2, <1>3 DEF Quiet
<1>5. NoStray(o) => NoStray(o)'
  BY <1>1, <1>2, <1>3 DEF NoStray
<1>6. AllOwn(o) => AllOwn(o)'
  BY <1>1, <1>2, <1>3 DEF AllOwn
<1>7. FinalLast(o) => FinalLast(o)'
  BY <1>1, <1>2, <1>3 DEF FinalLast, IsFinal
<1> QED BY <1>4, <1>5, <1>6, <1>7

\* send puts one more line at the end, at position k.
LEMMA SendLines ==
  ASSUME ThreadInv, NEW o \in Opens, NEW l \in Line, NEW k, k = Len(wire[o]) + 1,
         send(o, l.class, l.cmd, l.place), UNCHANGED rline
  PROVE  /\ \A p \in Opens : p # o => wire'[p] = wire[p]
         /\ k \in Nat /\ k \notin Positions(o)
         /\ Positions(o)' = Positions(o) \cup {k}
         /\ \A i \in Positions(o) : i \in Nat /\ i < k /\ LineAt(o, i)' = LineAt(o, i)
         /\ LineAt(o, k)' = l
<1>1. l = [class |-> l.class, cmd |-> l.cmd, place |-> l.place]
  BY DEF Line
<1>2. wire' = [wire EXCEPT ![o] = Append(wire[o], l)]
  BY <1>1 DEF send
<1>3. wire \in [Opens -> Seq(Line)] /\ wire[o] \in Seq(Line) /\ Len(wire[o]) \in Nat
  BY DEF ThreadInv, ChannelType, ModemType
<1>4. wire'[o] = Append(wire[o], l) /\ \A p \in Opens : p # o => wire'[p] = wire[p]
  BY <1>2, <1>3
<1>5. /\ Len(wire'[o]) = k
      /\ \A i \in 1 .. Len(wire[o]) : wire'[o][i] = wire[o][i]
      /\ wire'[o][k] = l
  BY <1>3, <1>4, AppendProperties
<1>6. Positions(o)' = 0 .. k /\ Positions(o) = 0 .. Len(wire[o])
  BY <1>5 DEF Positions
<1>7. k \in Nat /\ k # 0 /\ k \notin Positions(o)
  BY <1>3, <1>6
<1>8. Positions(o)' = Positions(o) \cup {k}
  BY <1>3, <1>6
<1>9. ASSUME NEW i \in Positions(o) PROVE i \in Nat /\ i < k /\ LineAt(o, i)' = LineAt(o, i)
  <2>1. i \in Nat /\ i < k /\ (i = 0 \/ i \in 1 .. Len(wire[o]))
    BY <1>3, <1>6
  <2> QED BY <1>5, <2>1 DEF LineAt
<1>10. LineAt(o, k)' = l
  BY <1>5, <1>7 DEF LineAt
<1> QED BY <1>4, <1>7, <1>8, <1>9, <1>10

-----------------------------------------------------------------------------
(* An answer is the modem's answer to its own command.                     *)

\* What the code depends on: no timed wait times out, and an unsolicited line
\* never looks like part of an answer.
Undisturbed == ~Timeouts /\ Unsols \subseteq {"other"}

LEMMA FdIsLatest ==
  ASSUME ThreadInv, s_fd # NULL
  PROVE  s_fd = nopen /\ s_fd \in Opens /\ mpc \notin {"open", "fd"}
<1>1. s_fd \in Opens /\ mpc \in MainPoints
  BY DEF ThreadInv, ChannelType, ReaderType
<1>2. mpc = "waitForClose" => nopen \in Opens /\ rpc[nopen] \in ReaderPoints \ {"none"}
  BY DEF ThreadInv, ReaderInv, ThreadsInv, ChannelType, ReaderType
<1> QED BY <1>1, <1>2 DEF ThreadInv, ReaderInv, FdInv, MainPoints, ReaderPoints, Reading

\* When the channel has closed nothing more will come.
LEMMA ClosedIsQuiet ==
  ASSUME ThreadInv, OwnInv, s_readerClosed, NEW o \in Opens, o = nopen
  PROVE  Quiet(o) \/ Finished(o)
<1>1. mpc \in {"open", "fd", "flag", "waitForClose"}
  BY DEF ThreadInv, ChannelType, ReaderType, MainPoints, OwnInv, ClosedInv
<1>2. CASE mpc \in {"fd", "flag"}
  BY <1>2 DEF OwnInv, OwnLinesInv
<1>3. CASE mpc = "open"
  <2>1. nopen # 0
    BY Bounds DEF Opens
  <2> QED BY <1>3, <2>1 DEF ThreadInv, ReaderInv, ThreadsInv, Finished, Over
<1>4. CASE mpc = "waitForClose"
  <2>1. rpc[o] \in ReaderPoints /\ rpc[o] # "none" /\ rpc[o] \notin Reading
    BY <1>4 DEF ThreadInv, ReaderInv, ThreadsInv, ChannelType, ReaderType, OwnInv, ClosedInv
  <2> QED BY <2>1 DEF ReaderPoints, Reading, Finished, Over
<1> QED BY <1>1, <1>2, <1>3, <1>4

\* The modem answers the command under way, on the latest channel.
LEMMA AnswersCurrent ==
  ASSUME ThreadInv, OwnInv, NEW o \in Opens, inq[o] # <<>>, o \notin hungup
  PROVE  /\ o = nopen /\ Busy /\ AllOwn(o) /\ FinalLast(o) /\ ~Quiet(o)
         /\ ccmd # 0 /\ mpc \notin {"fd", "flag"} /\ ~Finished(o)
         /\ Head(inq[o]).cmd = ccmd /\ Head(inq[o]).type = ctype /\ Tail(inq[o]) = <<>>
<1>1. o \in Nat /\ nopen \in Nat
  BY Bounds DEF ThreadInv, ChannelType, ReaderType, Opens
<1>2. o = nopen
  BY <1>1 DEF OwnInv, HungupInv
<1>3. ~Quiet(o)
  BY DEF Quiet
<1>4. ~Finished(o)
  BY <1>2 DEF OwnInv, HungupInv, Finished
<1>5. Busy /\ AllOwn(o) /\ FinalLast(o) /\ mpc \notin {"fd", "flag"} /\ ccmd # 0
  BY <1>2, <1>3, <1>4 DEF OwnInv, OwnLinesInv, ResponseInv
<1>6. inq[o] \in Seq([cmd : Nat, type : ATTypes]) /\ Len(inq[o]) <= 1
  BY <1>5 DEF ThreadInv, ChannelType, ModemType, AllOwn
<1>7. Tail(inq[o]) = <<>> /\ Head(inq[o]) = inq[o][1]
  <2>1. Tail(inq[o]) \in Seq([cmd : Nat, type : ATTypes]) /\ Len(Tail(inq[o])) = Len(inq[o]) - 1
    BY <1>6, HeadTailProperties
  <2>0. Len(inq[o]) \in Nat /\ Len(Tail(inq[o])) \in Nat
    BY <1>6, <2>1, LenProperties
  <2> DEFINE n == Len(inq[o])
             t == Len(Tail(inq[o]))
  <2>2. t = 0
    <3>1. n \in Nat /\ t \in Nat /\ t = n - 1 /\ n <= 1
      BY <1>6, <2>0, <2>1
    <3> HIDE DEF n, t
    <3> QED BY <3>1
  <2> QED BY <1>6, <2>1, <2>2
<1> QED BY <1>2, <1>3, <1>4, <1>5, <1>7 DEF AllOwn

LEMMA OwnInitially == Init => OwnInv
<1> SUFFICES ASSUME Init PROVE OwnInv
  OBVIOUS
<1>0. \A o \in Opens : o # 0 /\ ~(o < 0)
  BY Bounds DEF Opens
<1>1. ClosedInv
  BY <1>0 DEF Init, ClosedInv
<1>2. HungupInv
  <2>1. \A o \in Opens : NoStray(o)
    BY DEF Init, NoStray, Positions, LineAt, noLine
  <2> QED BY <1>0, <2>1 DEF Init, HungupInv
<1>3. OwnLinesInv
  BY <1>0 DEF Init, OwnLinesInv
<1>4. ResponseInv /\ HandInv
  BY DEF Init, ResponseInv, HandInv, Busy
<1>5. AnswerIsOwn
  BY DEF Init, AnswerIsOwn, noResult
<1> QED BY <1>1, <1>2, <1>3, <1>4, <1>5 DEF OwnInv

\* Steps that leave the channel as it is.
LEMMA HungupSame ==
  ASSUME HungupInv, UNCHANGED <<wire, rline, inq, rpc, nopen, hungup>>
  PROVE  HungupInv'
<1>1. \A o \in Opens : NoStray(o)' = NoStray(o)
  BY SameLines
<1> QED BY <1>1 DEF HungupInv

LEMMA OwnLinesSame ==
  ASSUME OwnLinesInv, UNCHANGED <<wire, rline, inq, rpc, mpc, nopen>>,
         Busy' => Busy /\ UNCHANGED <<ccmd, ctype>>,
         Busy /\ ~Busy' => \A o \in Opens : o = nopen => Quiet(o) \/ Finished(o)
  PROVE  OwnLinesInv'
<1> SUFFICES ASSUME NEW o \in Opens, o = nopen
             PROVE  /\ Busy' => AllOwn(o)' /\ FinalLast(o)'
                    /\ ~Busy' => Quiet(o)' \/ Finished(o)'
                    /\ mpc' \in {"fd", "flag"} => Quiet(o)'
  BY DEF OwnLinesInv
<1>1. /\ Quiet(o)' = Quiet(o) /\ FinalLast(o)' = FinalLast(o)
      /\ (ccmd' = ccmd /\ ctype' = ctype) => AllOwn(o)' = AllOwn(o)
  BY SameLines
<1>2. Finished(o)' = Finished(o)
  BY DEF Finished
<1> QED BY <1>1, <1>2 DEF OwnLinesInv

LEMMA ResponseSame ==
  ASSUME ResponseInv, UNCHANGED <<wire, rline, inq, rpc, nopen>>, Busy' => Busy /\ ccmd' = ccmd,
         cpc' \in Looping /\ sp_response' # NULL =>
           cpc \in Looping /\ sp_response' = sp_response
  PROVE  ResponseInv'
<1>1. \A o \in Opens : Quiet(o)' = Quiet(o) /\ Finished(o)' = Finished(o)
  BY SameLines DEF Finished
<1> QED BY <1>1 DEF ResponseInv, Busy

\* The other threads leave a response that is being handed over alone, except
\* that at_open may drop it.
LEMMA HandSame ==
  ASSUME HandInv, UNCHANGED <<cpc, out, ccmd>>, overtaken \subseteq overtaken',
         cpc \in {"hand", "give"} => sp_response' \in {sp_response, NULL},
         (s_readerClosed /\ cpc \in {"hand", "give", "reread"}) =>
           s_readerClosed' \/ ccmd \in overtaken'
  PROVE  HandInv'
<1>1. ASSUME NEW r, Held(r), cpc \in {"hand", "give", "reread"} PROVE Held(r)'
  BY <1>1 DEF Held
<1> QED BY <1>1 DEF HandInv, Held

LEMMA OwnIssue ==
  ASSUME ThreadInv, OwnInv, at_handshake \/ \E t \in Types : at_send_command(t)
  PROVE  OwnInv'
<1>1. /\ UNCHANGED <<s_fd, s_readerClosed, readVars, mainVars, modemVars>>
      /\ UNCHANGED <<s_commandmutex, pendVars, ccmd, result>>
      /\ cpc = "idle" /\ cpc' = "lock" /\ initialized
  BY IssueLeavesReaders
<1>2. ~(nopen = 0 \/ (nopen = 1 /\ mpc \in Opening))
  <2>1. PICK o \in Opens : rpc[o] # "none"
    BY <1>1 DEF initialized
  <2>2. o \in Nat /\ nopen \in Nat /\ o # 0
    BY Bounds DEF Opens, ThreadInv, ChannelType, ReaderType
  <2>3. ~(o > nopen)
    BY <2>1 DEF ThreadInv, ReaderInv, ThreadsInv
  <2>4. ~(mpc \in Opening /\ o = nopen)
    BY <2>1 DEF ThreadInv, ReaderInv, ThreadsInv
  <2> QED BY <2>2, <2>3, <2>4
<1>3. ClosedInv'
  BY <1>1, <1>2 DEF OwnInv, ClosedInv, Finished
<1>4. HungupInv' /\ OwnLinesInv' /\ ResponseInv' /\ HandInv'
  BY <1>1, HungupSame, OwnLinesSame, ResponseSame DEF OwnInv, Busy, HandInv
<1>5. AnswerIsOwn'
  BY <1>1 DEF OwnInv, AnswerIsOwn
<1> QED BY <1>3, <1>4, <1>5 DEF OwnInv

LEMMA OwnCommand ==
  ASSUME ThreadInv, OwnInv, Undisturbed, CommandStep
  PROVE  OwnInv'
<1>0. UNCHANGED <<s_fd, s_readerClosed, readVars, mainVars, pdus, wire, place, hungup>>
  BY CommandLeavesReaders
<1>1. ClosedInv'
  <2>1. cpc # "idle"
    BY DEF CommandStep, commandLock, writeRefused, writeFailed, writeline, armCommand,
           commandLoop, commandClosed, commandWait, commandSpin, commandReverse,
           commandGive, commandReturn, commandCrash, commandWake, commandTimeout,
           handshakeRetry, commandUnlock
  <2> QED BY <1>0, <2>1 DEF OwnInv, ClosedInv, Finished
<1>2. CASE writeline
  <2>1. cpc = "start" /\ s_fd # NULL /\ ~s_readerClosed
    BY <1>2 DEF writeline
  <2>2. s_fd = nopen /\ s_fd \in Opens /\ nopen \in Opens /\ mpc \notin {"open", "fd"}
    BY <2>1, FdIsLatest
  <2> DEFINE e == [cmd |-> ncmd + 1, type |-> ctype]
  <2>3. inq' = [inq EXCEPT ![nopen] = Append(inq[nopen], e)] /\ ncmd \in Nat /\ ctype' = ctype
        /\ ccmd' = ncmd + 1 /\ cpc' = "written" /\ result' = result /\ sp_response' = sp_response
    BY <1>2, <2>2 DEF writeline, ThreadInv, ChannelType, CommandType
  <2>4. Quiet(nopen) /\ inq[nopen] = <<>>
    BY <2>1, <2>2 DEF OwnInv, OwnLinesInv, ClosedInv, Busy, Quiet
  <2>5. mpc \notin {"fd", "flag"}
    <3>1. nopen # 0 /\ nopen \in Nat
      BY <2>2, Bounds DEF Opens
    <3> QED BY <2>1, <2>2, <3>1 DEF OwnInv, ClosedInv, Opening
  <2>6. e.cmd = ccmd' /\ e.type = ctype' /\ ccmd' # 0
    BY <2>3
  <2>7. inq'[nopen] = <<e>> /\ \A o \in Opens : o # nopen => inq'[o] = inq[o]
    <3> HIDE DEF e
    <3>1. Append(<<>>, e) = <<e>>
      OBVIOUS
    <3> QED BY <2>2, <2>3, <2>4, <3>1 DEF ThreadInv, ChannelType, ModemType
  <2> HIDE DEF e
  <2>8. \A o \in Opens : Positions(o)' = Positions(o)
                         /\ \A i \in Positions(o) : LineAt(o, i)' = LineAt(o, i)
    BY <1>0 DEF Positions, LineAt
  <2>9. HungupInv'
    <3>1. \A o \in Opens : NoStray(o)'
      BY <2>8 DEF OwnInv, HungupInv, NoStray
    <3>2. \A o \in Opens : o > nopen => o # nopen
      BY <2>2, Bounds DEF Opens
    <3> QED BY <1>0, <2>7, <3>1, <3>2 DEF OwnInv, HungupInv
  <2>10. ASSUME NEW o \in Opens, o = nopen PROVE AllOwn(o)' /\ FinalLast(o)'
    <3>1. \A i \in Positions(o) : LineAt(o, i).cmd = 0 /\ LineAt(o, i).class = "other"
      BY <2>4, <2>10 DEF Quiet, OwnInv, HungupInv, NoStray
    <3>2. Len(inq'[o]) <= 1 /\ inq'[o][1] = e
      <4>1. Len(<<e>>) <= 1 /\ <<e>>[1] = e
        OBVIOUS
      <4>2. inq'[o] = <<e>>
        BY <2>7, <2>10
      <4> QED BY <4>1, <4>2
    <3>3. AllOwn(o)'
      BY <2>6, <2>8, <3>1, <3>2 DEF AllOwn
    <3>4. FinalLast(o)'
      BY <2>8, <3>1 DEF FinalLast, IsFinal
    <3> QED BY <3>3, <3>4
  <2>11. OwnLinesInv'
    BY <1>0, <2>3, <2>5, <2>10 DEF OwnLinesInv, Busy
  <2>12. ResponseInv' /\ HandInv' /\ AnswerIsOwn'
    BY <1>0, <2>3, <2>6 DEF OwnInv, ResponseInv, HandInv, AnswerIsOwn
  <2> QED BY <1>1, <2>9, <2>11, <2>12 DEF OwnInv
<1>3. CASE ~writeline
  <2>1. UNCHANGED inq
    BY <1>3 DEF CommandStep, commandLock, writeRefused, writeFailed, armCommand,
           commandLoop, commandClosed, commandWait, commandSpin, commandReverse,
           commandGive, commandReturn, commandCrash, commandWake, commandTimeout,
           handshakeRetry, commandUnlock
  <2>2. HungupInv'
    BY <1>0, <2>1, HungupSame DEF OwnInv
  <2>3. CASE commandLoop \/ commandClosed
    <3>1. Busy /\ UNCHANGED <<sp_response, result, ccmd, ctype>> /\ cpc' # "reread"
      BY <2>3 DEF commandLoop, commandClosed, Busy
    <3>2. cpc \in Looping /\ cpc' \in {"test", "hand"} /\ (cpc' = "test" => sp_response # NULL)
      BY <2>3 DEF commandLoop, commandClosed
    <3>3. cpc' = "hand" => (sp_response # NULL /\ sp_response.done) \/ s_readerClosed
      BY <2>3 DEF commandLoop, commandClosed
    <3>4. cpc' = "hand" => \A o \in Opens : o = nopen => Quiet(o) \/ Finished(o)
      BY <3>2, <3>3, ClosedIsQuiet DEF OwnInv, ResponseInv
    <3>5. OwnLinesInv' /\ ResponseInv'
      BY <1>0, <2>1, <3>1, <3>2, <3>4, OwnLinesSame, ResponseSame DEF OwnInv, Busy
    <3>6. HandInv'
      BY <1>0, <3>1, <3>2, <3>3 DEF OwnInv, ResponseInv, HandInv, Held
    <3> QED BY <1>0, <1>1, <2>2, <3>1, <3>5, <3>6 DEF OwnInv, AnswerIsOwn
  <2>8. CASE commandReverse
    <3>1. cpc = "hand" /\ cpc' = "give" /\ UNCHANGED <<out, result, ccmd, ctype, timed>>
      BY <2>8 DEF commandReverse
    <3>2. OwnLinesInv' /\ ResponseInv'
      BY <1>0, <2>1, <3>1, OwnLinesSame, ResponseSame DEF OwnInv, Busy
    <3>3. ASSUME sp_response' # NULL PROVE Held(sp_response)'
      <4>1. CASE timed
        BY <1>0, <2>8, <3>1, <3>3, <4>1 DEF commandReverse, OwnInv, HandInv, Held
      <4>2. CASE ~timed
        <5> DEFINE s == sp_response.p_intermediates
        <5>1. sp_response \in Responses /\ s \in Seq(Line) /\ Len(s) \in Nat
          BY <2>8, <4>2 DEF commandReverse, ThreadInv, ChannelType, CommandType, Responses
        <5>2. Held(sp_response)
          BY <2>8, <3>1, <4>2 DEF commandReverse, OwnInv, HandInv
        <5>3. /\ sp_response'.p_intermediates = Reverse(s) /\ sp_response'.done = sp_response.done
              /\ sp_response'.final = sp_response.final
          BY <2>8, <4>2, <5>1 DEF commandReverse, reverseIntermediates, Responses
        <5>4. \A i \in 1 .. Len(s) : s[i].cmd = ccmd
          BY <5>1, <5>2 DEF Held
        <5>5. \A i \in DOMAIN Reverse(s) : Reverse(s)[i].cmd = ccmd
          <6> HIDE DEF s
          <6>1. DOMAIN Reverse(s) = 1 .. Len(s)
            BY <5>1, ReverseType
          <6>2. \A i \in 1 .. Len(s) : Len(s) - i + 1 \in 1 .. Len(s)
            BY <5>1
          <6>3. \A i \in 1 .. Len(s) : Reverse(s)[i] = s[Len(s) - i + 1]
            BY <5>1, ReverseType
          <6> QED BY <5>4, <6>1, <6>2, <6>3
        <5> HIDE DEF s
        <5> QED BY <1>0, <3>1, <5>2, <5>3, <5>5 DEF Held
      <4> QED BY <4>1, <4>2
    <3>4. HandInv'
      BY <3>1, <3>3 DEF HandInv
    <3> QED BY <1>0, <1>1, <2>2, <3>1, <3>2, <3>4 DEF OwnInv, AnswerIsOwn
  <2>9. CASE commandGive
    <3>1. /\ cpc = "give" /\ cpc' = "reread" /\ UNCHANGED <<result, ccmd, ctype>>
          /\ out' \in {sp_response, NULL}
      BY <2>9 DEF commandGive
    <3>2. OwnLinesInv' /\ ResponseInv'
      BY <1>0, <2>1, <3>1, OwnLinesSame, ResponseSame DEF OwnInv, Busy
    <3>3. HandInv'
      BY <1>0, <3>1 DEF OwnInv, HandInv, Held
    <3> QED BY <1>0, <1>1, <2>2, <3>1, <3>2, <3>3 DEF OwnInv, AnswerIsOwn
  <2>10. CASE commandReturn
    <3>1. cpc = "reread" /\ cpc' = "return" /\ ~noneGiven /\ overtaken' = overtaken
      BY <1>0, <2>10 DEF commandReturn
    <3>2. OwnLinesInv' /\ ResponseInv' /\ HandInv'
      BY <1>0, <2>1, <3>1, OwnLinesSame, ResponseSame DEF OwnInv, Busy, HandInv
    <3>3. AnswerIsOwn'
      <4> SUFFICES ASSUME ~result'.handshake, result'.err \in {"ok", "invalid"}
                   PROVE  /\ \/ result'.final.cmd = result'.cmd
                             \/ result'.final = noLine /\ result'.cmd \in overtaken
                          /\ \A i \in DOMAIN result'.inter : result'.inter[i].cmd = result'.cmd
        BY <3>1 DEF AnswerIsOwn, noLine
      <4>1. ~timed /\ ~s_readerClosed
        BY <2>10 DEF commandReturn
      <4>2. out # NULL /\ Held(out)
        BY <3>1, <4>1 DEF noneGiven, OwnInv, HandInv
      <4>3. result'.cmd = ccmd /\ result'.final = out.final /\ result'.inter = out.p_intermediates
        BY <2>10, <4>2 DEF commandReturn
      <4> QED BY <4>1, <4>2, <4>3 DEF Held
    <3> QED BY <1>1, <2>2, <3>2, <3>3 DEF OwnInv
  <2>4. CASE armCommand
    <3>1. OwnLinesInv'
      BY <1>0, <2>1, <2>4, OwnLinesSame DEF armCommand, OwnInv, Busy
    <3>2. ResponseInv'
      BY <2>4 DEF armCommand, newResponse, OwnInv, ResponseInv, Busy
    <3>3. HandInv' /\ UNCHANGED <<result, overtaken>>
      BY <1>0, <2>4 DEF armCommand, HandInv
    <3> QED BY <1>1, <2>2, <3>1, <3>2, <3>3 DEF OwnInv, AnswerIsOwn
  <2>5. CASE writeRefused \/ writeFailed
    <3>1. OwnLinesInv' /\ ResponseInv' /\ HandInv'
      BY <1>0, <2>1, <2>5, OwnLinesSame, ResponseSame
         DEF writeRefused, writeFailed, failCommand, OwnInv, Busy, HandInv
    <3>2. result'.err \in {"closed", "generic"}
      BY <2>5 DEF writeRefused, writeFailed, failCommand, noResult
    <3> QED BY <1>1, <2>2, <3>1, <3>2 DEF OwnInv, AnswerIsOwn
  <2>6. CASE commandLock \/ commandWait \/ commandSpin \/ commandCrash \/ commandWake
             \/ handshakeRetry \/ commandUnlock
    <3>1. /\ Busy' = Busy /\ UNCHANGED <<sp_response, result>>
          /\ Busy' => UNCHANGED <<ccmd, ctype>>
          /\ cpc' \in Looping => cpc \in Looping
      BY <2>6 DEF commandLock, commandWait, commandSpin, commandCrash, commandWake,
                  handshakeRetry, commandUnlock, Busy
    <3>2. OwnLinesInv'
      BY <1>0, <2>1, <3>1, OwnLinesSame DEF OwnInv
    <3>3. ResponseInv'
      BY <1>0, <2>1, <3>1, ResponseSame DEF OwnInv
    <3>4. HandInv'
      <4>1. CASE commandCrash
        BY <1>0, <4>1, HandSame DEF commandCrash, OwnInv
      <4>2. CASE ~commandCrash
        BY <2>6, <4>2 DEF commandLock, commandWait, commandSpin, commandWake,
                          handshakeRetry, commandUnlock, HandInv
      <4> QED BY <4>1, <4>2
    <3> QED BY <1>0, <1>1, <2>2, <3>1, <3>2, <3>3, <3>4 DEF OwnInv, AnswerIsOwn
  <2>7. ~commandTimeout
    BY DEF Undisturbed, commandTimeout
  <2> QED BY <1>3, <2>3, <2>4, <2>5, <2>6, <2>7, <2>8, <2>9, <2>10 DEF CommandStep
<1> QED BY <1>2, <1>3

LEMMA OwnMain ==
  ASSUME ThreadInv, OwnInv, MainStep
  PROVE  OwnInv'
<1>0. /\ UNCHANGED <<s_commandmutex, s_type, cmdVars, rline, modemVars>>
      /\ sp_response' \in {sp_response, NULL} /\ overtaken \subseteq overtaken'
  BY MainLeavesCommand
<1>00. nopen \in Nat /\ \A o \in Opens : o \in Nat /\ o # 0
  BY Bounds DEF ThreadInv, ChannelType, ReaderType, Opens
<1>a. AnswerIsOwn' /\ HandInv'
  <2>1. (s_readerClosed /\ cpc \in {"hand", "give", "reread"}) =>
          s_readerClosed' \/ ccmd \in overtaken'
    BY DEF MainStep, mainOpen, at_openFd, at_openFlag, at_openPending, at_openCreate,
           waitForClose, resetUnder
  <2>2. HandInv'
    BY <1>0, <2>1, HandSame DEF OwnInv
  <2> QED BY <1>0, <2>2 DEF OwnInv, AnswerIsOwn
<1>1. CASE mainOpen
  <2>1. mpc = "open" /\ nopen' = nopen + 1 /\ nopen' \in Opens /\ mpc' = "fd" /\ rpc' = rpc
        /\ UNCHANGED <<s_readerClosed, sp_response>>
    BY <1>00, <1>1, Bounds DEF mainOpen, Opens
  <2>2. nopen \in Opens => rpc[nopen] = "done" /\ nopen \in hungup /\ s_readerClosed
    BY <1>00, <2>1 DEF ThreadInv, ReaderInv, ThreadsInv, OwnInv, HungupInv, ClosedInv,
                       Over, Finished
  <2>3. nopen' > 1 => nopen \in Opens
    BY <1>00, <2>1, Bounds DEF Opens
  <2>4. rpc[nopen'] = "none" /\ inq[nopen'] = <<>> /\ wire[nopen'] = <<>> /\ rline[nopen'] = noLine
    <3>1. nopen' > nopen
      BY <1>00, <2>1
    <3> QED BY <2>1, <3>1 DEF ThreadInv, ReaderInv, ThreadsInv, OwnInv, HungupInv
  <2>5. ClosedInv'
    <3>1. \A o \in Opens : o = nopen' => ~Finished(o)'
      BY <2>1, <2>4 DEF Finished, Over
    <3>2. nopen' # 0 /\ (nopen' = 1 => nopen = 0)
      BY <1>00, <2>1
    <3> QED BY <1>0, <2>1, <2>2, <2>3, <3>1, <3>2 DEF OwnInv, ClosedInv
  <2>6. HungupInv'
    <3>1. \A o \in Opens : NoStray(o)'
      BY <1>0, SameLines DEF OwnInv, HungupInv
    <3>2. \A o \in Opens : o < nopen + 1 => o < nopen \/ o = nopen
      BY <1>00
    <3>3. \A o \in Opens : o > nopen + 1 => o > nopen
      BY <1>00
    <3> QED BY <1>0, <2>1, <2>2, <2>4, <3>1, <3>2, <3>3 DEF OwnInv, HungupInv, Over
  <2>7. ASSUME NEW o \in Opens, o = nopen' PROVE Quiet(o)' /\ AllOwn(o)' /\ FinalLast(o)'
    <3>1. inq'[o] = <<>> /\ Positions(o)' = {0} /\ LineAt(o, 0)' = noLine
      <4>1. 0 .. 0 = {0} /\ Len(<<>>) = 0
        OBVIOUS
      <4> QED BY <1>0, <2>4, <2>7, <4>1 DEF Positions, LineAt
    <3>2. Len(<<>>) <= 1 /\ noLine.cmd = 0 /\ noLine.class = "other"
      BY DEF noLine
    <3>3. Quiet(o)'
      BY <3>1, <3>2 DEF Quiet
    <3>4. AllOwn(o)'
      BY <3>1, <3>2 DEF AllOwn
    <3>5. FinalLast(o)'
      BY <3>1, <3>2 DEF FinalLast, IsFinal
    <3> QED BY <3>3, <3>4, <3>5
  <2>8. OwnLinesInv' /\ ResponseInv'
    BY <1>0, <2>1, <2>7 DEF OwnInv, OwnLinesInv, ResponseInv, Busy
  <2> QED BY <1>a, <2>5, <2>6, <2>8 DEF OwnInv
<1>2. CASE ~mainOpen
  <2>1. nopen' = nopen /\ \A o \in Opens : rpc'[o] = rpc[o] \/ (rpc[o] = "none" /\ rpc'[o] = "read")
    <3>1. CASE at_openCreate
      BY <3>1 DEF at_openCreate, ThreadInv, ReaderInv, ThreadsInv, Opening, ChannelType, ReaderType
    <3>2. CASE ~at_openCreate
      BY <1>2, <3>2 DEF MainStep, at_openFd, at_openFlag, at_openPending, waitForClose
    <3> QED BY <3>1, <3>2
  <2>2. \A o \in Opens : /\ Finished(o)' = Finished(o) /\ Quiet(o)' = Quiet(o)
                         /\ AllOwn(o)' = AllOwn(o) /\ FinalLast(o)' = FinalLast(o)
                         /\ NoStray(o)' = NoStray(o)
    BY <1>0, <2>1, SameLines DEF Finished, Over
  <2>3. HungupInv'
    BY <1>0, <2>1, <2>2 DEF OwnInv, HungupInv, Over
  <2>4. mpc' \in {"fd", "flag"} => mpc \in {"fd", "flag"}
    BY <1>2 DEF MainStep, at_openFd, at_openFlag, at_openPending, at_openCreate, waitForClose
  <2>5. OwnLinesInv'
    BY <1>0, <2>1, <2>2, <2>4 DEF OwnInv, OwnLinesInv, Busy
  <2>6. ResponseInv'
    BY <1>0, <2>1, <2>2 DEF OwnInv, ResponseInv, Busy
  <2>7. ClosedInv'
    <3>1. CASE at_openFd
      BY <1>0, <2>1, <2>2, <3>1 DEF at_openFd, OwnInv, ClosedInv, Opening
    <3>2. CASE at_openFlag
      <4>1. \A o \in Opens : o = nopen => ~Finished(o)
        BY <3>2 DEF at_openFlag, ThreadInv, ReaderInv, ThreadsInv, Opening, Finished, Over
      <4> QED BY <1>0, <2>1, <2>2, <3>2, <4>1 DEF at_openFlag, OwnInv, ClosedInv, Opening
    <3>3. CASE at_openPending
      BY <1>0, <2>1, <2>2, <3>3 DEF at_openPending, OwnInv, ClosedInv, Opening
    <3>4. CASE at_openCreate
      BY <1>0, <2>1, <2>2, <3>4 DEF at_openCreate, OwnInv, ClosedInv, Opening
    <3>5. CASE waitForClose
      <4>1. nopen \in Opens
        BY <3>5 DEF waitForClose, ThreadInv, ReaderInv, ThreadsInv
      <4> QED BY <1>0, <1>00, <2>1, <2>2, <3>5, <4>1 DEF waitForClose, OwnInv, ClosedInv, Opening
    <3> QED BY <1>2, <3>1, <3>2, <3>3, <3>4, <3>5 DEF MainStep
  <2> QED BY <1>a, <2>3, <2>5, <2>6, <2>7 DEF OwnInv
<1> QED BY <1>1, <1>2

\* What processLine adds to the response is part of the answer under way.
LEMMA OwnResponse ==
  ASSUME ThreadInv, OwnInv, NEW o \in Opens, processLine(o)
  PROVE  ResponseInv'
<1>1. UNCHANGED <<cmdVars, inq, nopen>> /\ rpc[o] = "line"
  BY DEF processLine
<1>2. o = nopen /\ (Quiet(o) => Quiet(o)')
  BY ProcessLines, ProcessKeeps
<1>3. ~Finished(o)
  BY <1>1 DEF Finished, Over
<1> SUFFICES ASSUME cpc \in Looping, sp_response' # NULL
             PROVE  /\ \A i \in DOMAIN sp_response'.p_intermediates :
                         sp_response'.p_intermediates[i].cmd = ccmd
                    /\ sp_response'.done => sp_response'.final.cmd = ccmd /\ Quiet(o)'
                    /\ ~sp_response'.done => sp_response'.final = noLine
  BY <1>1, <1>2 DEF OwnInv, ResponseInv, Busy
<1>4. sp_response # NULL /\ sp_response \in Responses
  BY ReaderLeavesCommand DEF ReaderStep, ThreadInv, ChannelType, CommandType
<1>5. /\ \A i \in DOMAIN sp_response.p_intermediates :
           sp_response.p_intermediates[i].cmd = ccmd
      /\ sp_response.done => sp_response.final.cmd = ccmd /\ Quiet(o)
      /\ ~sp_response.done => sp_response.final = noLine
  BY <1>2, <1>3, <1>4 DEF OwnInv, ResponseInv
<1>6. /\ AllOwn(o) /\ FinalLast(o) /\ NoStray(o)
      /\ 0 \in Positions(o) /\ LineAt(o, 0) = rline[o] /\ rline[o] \in Line
  BY <1>2, LineType DEF OwnInv, OwnLinesInv, HungupInv, Busy, LineAt, ThreadInv
<1>7. rline[o].class # "other" => rline[o].cmd = ccmd
  BY <1>6 DEF AllOwn, NoStray
<1>8. CASE isFinalResponse(rline[o]) /\ finalLine(rline[o])
  <2>1. sp_response' = [sp_response EXCEPT !.final = rline[o], !.done = TRUE]
    BY <1>8 DEF finalLine
  <2>2. /\ sp_response'.p_intermediates = sp_response.p_intermediates
        /\ sp_response'.final = rline[o] /\ sp_response'.done
    BY <1>4, <2>1 DEF Responses
  <2>3. rline[o].cmd = ccmd
    BY <1>7, <1>8 DEF isFinalResponse
  <2>4. Quiet(o)'
    <3>1. inq[o] = <<>> /\ \A j \in Positions(o) : j > 0 => LineAt(o, j).cmd = 0
      BY <1>6, <1>8 DEF FinalLast, IsFinal, isFinalResponse
    <3>2. \A j \in Positions(o) : j = 0 \/ j > 0
      BY LineType DEF ThreadInv
    <3>3. noLine.cmd = 0
      BY DEF noLine
    <3> QED BY <1>1, <3>1, <3>2, <3>3, ProcessLines DEF Quiet
  <2> QED BY <1>5, <2>2, <2>3, <2>4
<1>9. CASE isIntermediate(rline[o]) /\ intermediateLine(rline[o])
  <2> DEFINE s == sp_response.p_intermediates
             t == <<rline[o]>> \o s
  <2>1. s \in Seq(Line) /\ Len(s) \in Nat
    BY <1>4 DEF Responses
  <2>2. sp_response' = [sp_response EXCEPT !.p_intermediates = t]
    BY <1>9 DEF intermediateLine
  <2>3. rline[o].cmd = ccmd
    BY <1>7, <1>9 DEF isIntermediate
  <2>4. \A i \in DOMAIN t : t[i].cmd = ccmd
    <3>1. t \in Seq(Line) /\ Len(t) = Len(s) + 1 /\ t[1] = rline[o]
          /\ \A i \in 1 .. Len(s) : t[i + 1] = s[i]
      BY <1>6, <2>1, PrependType
    <3>2. DOMAIN t = 1 .. Len(t)
      BY <3>1
    <3>3. \A i \in 1 .. Len(s) : s[i].cmd = ccmd
      BY <1>5, <2>1
    <3> HIDE DEF s, t
    <3> SUFFICES ASSUME NEW i \in 1 .. Len(t) PROVE t[i].cmd = ccmd
      BY <3>2
    <3>4. i = 1 \/ (i - 1 \in 1 .. Len(s) /\ (i - 1) + 1 = i)
      BY <2>1, <3>1
    <3>5. CASE i = 1
      BY <2>3, <3>1, <3>5
    <3>6. CASE i - 1 \in 1 .. Len(s) /\ (i - 1) + 1 = i
      BY <3>1, <3>3, <3>6
    <3> QED BY <3>4, <3>5, <3>6
  <2>5. sp_response'.p_intermediates = t /\ sp_response'.done = sp_response.done
        /\ sp_response'.final = sp_response.final
    <3> HIDE DEF t
    <3> QED BY <1>4, <2>2 DEF Responses
  <2> HIDE DEF s, t
  <2> QED BY <1>2, <1>5, <2>4, <2>5
<1>10. CASE promptLine(rline[o]) \/ unsolicitedLine
  BY <1>2, <1>5, <1>10 DEF promptLine, unsolicitedLine
<1> QED BY <1>4, <1>8, <1>9, <1>10 DEF processLine

LEMMA OwnReader ==
  ASSUME ThreadInv, OwnInv, NEW o \in Opens, ReaderStep(o)
  PROVE  OwnInv'
<1>1. /\ UNCHANGED <<cmdVars, mpc, nopen, inq, hungup>>
      /\ rpc[o] \notin {"none", "done"}
  BY DEF ReaderStep, readline, readlineEof, processLine, readerCheck, readerSetClosed,
         at_closeFd, at_closeFlag, onATReaderClosed
<1>2. o = nopen /\ mpc = "waitForClose" /\ rpc[o] \in ReaderPoints
  BY <1>1, ReaderIsLatest DEF ThreadInv, ChannelType, ReaderType
<1>3. \A p \in Opens : p # o => rpc'[p] = rpc[p] /\ rline'[p] = rline[p] /\ wire'[p] = wire[p]
  <2>1. CASE readline(o)
    BY <2>1, ReadShift DEF readline, ThreadInv, ChannelType, ReaderType
  <2>2. CASE ~readline(o)
    BY <2>2 DEF ReaderStep, readlineEof, processLine, readerCheck, readerSetClosed,
            at_closeFd, at_closeFlag, onATReaderClosed, ThreadInv, ChannelType, ReaderType
  <2> QED BY <2>1, <2>2
<1>4. ~readline(o) /\ ~processLine(o) => UNCHANGED <<wire, rline, sp_response>>
  BY DEF ReaderStep, readlineEof, readerCheck, readerSetClosed, at_closeFd, at_closeFlag,
         onATReaderClosed
<1>5. /\ Quiet(o) => Quiet(o)'
      /\ NoStray(o) => NoStray(o)'
      /\ AllOwn(o) => AllOwn(o)'
      /\ FinalLast(o) => FinalLast(o)'
  <2>1. CASE readline(o)
    BY <2>1, ReadKeeps
  <2>2. CASE processLine(o)
    BY <2>2, ProcessKeeps
  <2>3. CASE ~readline(o) /\ ~processLine(o)
    BY <1>1, <1>4, <2>3, SameLines
  <2> QED BY <2>1, <2>2, <2>3
<1>6. /\ rpc[o] \in Reading => ~s_readerClosed
      /\ rpc[o] \in Over => s_readerClosed
      /\ rpc[o] \in Over \cup {"eof", "setClosed"} => o \in hungup
      /\ rpc[o] # "line" => rline[o] = noLine
  BY <1>2 DEF OwnInv, ClosedInv, HungupInv, Finished
<1>7. /\ rpc'[o] \in Reading => ~s_readerClosed'
      /\ rpc'[o] \in Over => s_readerClosed'
      /\ rpc'[o] \in Over \cup {"eof", "setClosed"} => o \in hungup
      /\ rpc'[o] # "line" => rline'[o] = noLine
      /\ rpc[o] \in Over => rpc'[o] \in Over
  <2> USE <1>6 DEF Reading, Over
  <2>0. rpc \in [Opens -> ReaderPoints] /\ rline \in [Opens -> Line]
    BY DEF ThreadInv, ChannelType, ReaderType
  <2>1. CASE readline(o)
    BY <2>0, <2>1 DEF readline
  <2>2. CASE readlineEof(o)
    <3>1. s_fd = nopen /\ s_fd # NULL
      BY <1>2, <2>2, Bounds DEF readlineEof, ThreadInv, ReaderInv, FdInv
    <3> QED BY <1>2, <2>0, <2>2, <3>1 DEF readlineEof
  <2>3. CASE processLine(o)
    BY <2>0, <2>3 DEF processLine
  <2>4. CASE readerCheck(o)
    BY <2>0, <2>4 DEF readerCheck
  <2>5. CASE readerSetClosed(o)
    BY <2>0, <2>5 DEF readerSetClosed
  <2>6. CASE at_closeFd(o)
    BY <2>0, <2>6 DEF at_closeFd
  <2>7. CASE at_closeFlag(o)
    BY <2>0, <2>7 DEF at_closeFlag
  <2>8. CASE onATReaderClosed(o)
    BY <2>0, <2>8 DEF onATReaderClosed
  <2> QED BY <2>1, <2>2, <2>3, <2>4, <2>5, <2>6, <2>7, <2>8 DEF ReaderStep
<1>8. ClosedInv'
  BY <1>1, <1>2, <1>7 DEF OwnInv, ClosedInv, Finished, Opening
<1>9. HungupInv'
  <2>1. \A p \in Opens : NoStray(p)'
    <3> SUFFICES ASSUME NEW p \in Opens PROVE NoStray(p)'
      OBVIOUS
    <3>1. CASE p = o
      BY <1>5, <3>1 DEF OwnInv, HungupInv
    <3>2. CASE p # o
      BY <1>1, <1>3, <3>2, SameLines DEF OwnInv, HungupInv
    <3> QED BY <3>1, <3>2
  <2>2. \A p \in Opens : p > nopen => p # o
    BY <1>2, Bounds DEF Opens
  <2> QED BY <1>1, <1>2, <1>3, <1>7, <2>1, <2>2 DEF OwnInv, HungupInv
<1>10. Finished(o) => Finished(o)'
  BY <1>7 DEF Finished
<1>11. OwnLinesInv'
  BY <1>1, <1>2, <1>5, <1>10 DEF OwnInv, OwnLinesInv, Busy
<1>12. ResponseInv'
  <2>1. CASE processLine(o)
    BY <2>1, OwnResponse
  <2>2. CASE ~processLine(o)
    <3>1. UNCHANGED sp_response
      BY <1>4, <2>2 DEF readline
    <3> QED BY <1>1, <1>2, <1>5, <1>10, <3>1 DEF OwnInv, ResponseInv, Busy
  <2> QED BY <2>1, <2>2
<1>13. (s_readerClosed => s_readerClosed') /\ UNCHANGED overtaken
  BY DEF ReaderStep, readline, readlineEof, processLine, readerCheck, readerSetClosed,
         at_closeFd, at_closeFlag, onATReaderClosed
<1>14. HandInv'
  <2>1. cpc \in {"hand", "give"} => ~processLine(o)
    BY DEF processLine, ThreadInv, CommandInv, MutexInv, Locked, Free, Command
  <2>2. cpc \in {"hand", "give"} => sp_response' = sp_response
    BY <1>4, <2>1 DEF readline
  <2> QED BY <1>1, <1>13, <2>2, HandSame DEF OwnInv
<1>15. AnswerIsOwn'
  BY <1>1, <1>13 DEF OwnInv, AnswerIsOwn
<1> QED BY <1>8, <1>9, <1>11, <1>12, <1>14, <1>15 DEF OwnInv

\* What a line the modem sends leaves true of channel o.
LEMMA SendKeeps ==
  ASSUME ThreadInv, NEW o \in Opens, NEW l \in Line,
         send(o, l.class, l.cmd, l.place), UNCHANGED <<rline, ccmd, ctype>>,
         inq'[o] \in {inq[o], <<>>}
  PROVE  /\ (NoStray(o) /\ (l.cmd = 0 => l.class = "other")) => NoStray(o)'
         /\ (Quiet(o) /\ l.cmd = 0) => Quiet(o)'
         /\ (AllOwn(o) /\ l.cmd \in {0, ccmd}) => AllOwn(o)'
         /\ (/\ FinalLast(o)
             /\ \/ inq[o] # <<>> /\ (IsFinal(l) => inq'[o] = <<>>)
                \/ l.cmd = 0 /\ l.class = "other") => FinalLast(o)'
<1> SUFFICES ASSUME NEW m, m = Len(wire[o]) + 1
             PROVE  /\ (NoStray(o) /\ (l.cmd = 0 => l.class = "other")) => NoStray(o)'
                    /\ (Quiet(o) /\ l.cmd = 0) => Quiet(o)'
                    /\ (AllOwn(o) /\ l.cmd \in {0, ccmd}) => AllOwn(o)'
                    /\ (/\ FinalLast(o)
                        /\ \/ inq[o] # <<>> /\ (IsFinal(l) => inq'[o] = <<>>)
                           \/ l.cmd = 0 /\ l.class = "other") => FinalLast(o)'
  OBVIOUS
<1>2. /\ m \in Nat /\ Positions(o)' = Positions(o) \cup {m}
      /\ \A i \in Positions(o) : i \in Nat /\ i < m /\ LineAt(o, i)' = LineAt(o, i)
      /\ LineAt(o, m)' = l
  BY SendLines
<1>3. (NoStray(o) /\ (l.cmd = 0 => l.class = "other")) => NoStray(o)'
  BY <1>2 DEF NoStray
<1>4. (Quiet(o) /\ l.cmd = 0) => Quiet(o)'
  BY <1>2 DEF Quiet
<1>5. (AllOwn(o) /\ l.cmd \in {0, ccmd}) => AllOwn(o)'
  <2>1. Len(<<>>) <= 1
    OBVIOUS
  <2> QED BY <1>2, <2>1 DEF AllOwn
<1>6. ASSUME FinalLast(o),
             \/ inq[o] # <<>> /\ (IsFinal(l) => inq'[o] = <<>>)
             \/ l.cmd = 0 /\ l.class = "other"
      PROVE  FinalLast(o)'
  <2> SUFFICES ASSUME NEW i \in Positions(o)', IsFinal(LineAt(o, i)')
               PROVE  inq'[o] = <<>> /\ \A j \in Positions(o)' : j > i => LineAt(o, j)'.cmd = 0
    BY DEF FinalLast, IsFinal
  <2>1. CASE i = m
    <3>1. IsFinal(l) /\ inq'[o] = <<>>
      BY <1>2, <1>6, <2>1 DEF IsFinal
    <3>2. \A j \in Positions(o)' : ~(j > i)
      BY <1>2, <2>1
    <3> QED BY <3>1, <3>2
  <2>2. CASE i # m
    <3>1. i \in Positions(o) /\ IsFinal(LineAt(o, i))
      BY <1>2, <2>2
    <3>2. inq[o] = <<>> /\ \A j \in Positions(o) : j > i => LineAt(o, j).cmd = 0
      BY <1>6, <3>1 DEF FinalLast
    <3>3. l.cmd = 0 /\ inq'[o] = <<>>
      BY <1>6, <3>2
    <3> QED BY <1>2, <3>2, <3>3
  <2> QED BY <2>1, <2>2
<1> QED BY <1>3, <1>4, <1>5, <1>6

\* The line each of the modem's steps sends.
LEMMA AnswerLine ==
  ASSUME ThreadInv, OwnInv, NEW o \in Opens, ModemAnswer(o)
  PROVE  /\ inq[o] # <<>> /\ o \notin hungup
         /\ \E l \in Line :
              /\ send(o, l.class, l.cmd, l.place) /\ l.cmd = ccmd
              /\ \/ /\ l.class = "prompt" /\ place = 0 /\ place' = 1
                    /\ ctype = "SMS" /\ inq' = inq
                 \/ /\ l.class = interClass(ctype)
                    /\ l.place = place + 1 /\ place' = place + 1 /\ inq' = inq
                    /\ place - promptLines(ctype) < interMax(ctype)
                    /\ ctype = "SMS" => place > 0
                 \/ /\ IsFinal(l) /\ l.place = place + 1 /\ place' = 0
                    /\ (l.class = "success" /\ ctype = "SMS") => place > 0
                    /\ inq' = [inq EXCEPT ![o] = <<>>]
<1>1. inq[o] # <<>> /\ o \notin hungup
  BY DEF ModemAnswer, modemPrompt, modemIntermediate, modemFinal, mayAnswer
<1>2. Head(inq[o]).cmd = ccmd /\ Head(inq[o]).type = ctype /\ Tail(inq[o]) = <<>>
  BY <1>1, AnswersCurrent
<1>3. ccmd \in Nat /\ place \in Nat /\ place + 1 \in Nat
  BY DEF ThreadInv, ChannelType, CommandType, ModemType
<1>4. CASE modemPrompt(o)
  <2> DEFINE l == [class |-> "prompt", cmd |-> ccmd, place |-> 0]
  <2>1. l \in Line
    BY <1>3 DEF Line, Classes
  <2>2. send(o, l.class, l.cmd, l.place)
    BY <1>2, <1>4 DEF modemPrompt
  <2>3. l.cmd = ccmd /\ l.class = "prompt"
    OBVIOUS
  <2>4. place = 0 /\ place' = 1 /\ ctype = "SMS" /\ inq' = inq
    BY <1>2, <1>4 DEF modemPrompt
  <2> HIDE DEF l
  <2> QED BY <1>1, <1>4, <2>1, <2>2, <2>3, <2>4
<1>5. CASE modemIntermediate(o)
  <2> DEFINE l == [class |-> interClass(ctype), cmd |-> ccmd, place |-> place + 1]
  <2>1. l \in Line
    BY <1>3 DEF Line, Classes, interClass
  <2>2. send(o, l.class, l.cmd, l.place)
    BY <1>2, <1>5 DEF modemIntermediate
  <2>3. l.cmd = ccmd /\ l.class = interClass(ctype) /\ l.place = place + 1
    OBVIOUS
  <2>4. place' = place + 1 /\ inq' = inq /\ (ctype = "SMS" => place > 0)
        /\ place - promptLines(ctype) < interMax(ctype)
    BY <1>2, <1>5 DEF modemIntermediate, mayAnswer
  <2> HIDE DEF l
  <2> QED BY <1>1, <1>5, <2>1, <2>2, <2>3, <2>4
<1>6. CASE modemFinal(o)
  <2>1. PICK class \in {"success", "error"} :
          /\ class = "success" => mayAnswer(o)
          /\ send(o, class, Head(inq[o]).cmd, place + 1)
    BY <1>6 DEF modemFinal
  <2> DEFINE l == [class |-> class, cmd |-> ccmd, place |-> place + 1]
  <2>2. l \in Line
    BY <1>3 DEF Line, Classes
  <2>3. send(o, l.class, l.cmd, l.place)
    BY <1>2, <2>1
  <2>4. l.cmd = ccmd /\ IsFinal(l) /\ l.place = place + 1
    BY DEF IsFinal
  <2>5. (l.class = "success" /\ ctype = "SMS") => place > 0
    BY <1>2, <2>1 DEF mayAnswer
  <2>6. place' = 0 /\ inq' = [inq EXCEPT ![o] = <<>>]
    BY <1>2, <1>6 DEF modemFinal
  <2> HIDE DEF l
  <2> QED BY <1>1, <1>6, <2>2, <2>3, <2>4, <2>5, <2>6
<1> QED BY <1>4, <1>5, <1>6 DEF ModemAnswer

\* An unsolicited line, of class "other".
LEMMA UnsolicitedLine ==
  ASSUME Undisturbed, NEW o \in Opens, modemUnsolicited(o)
  PROVE  \E l \in Line : /\ send(o, l.class, l.cmd, l.place)
                         /\ l.cmd = 0 /\ l.class = "other"
<1> DEFINE l == [class |-> "other", cmd |-> 0, place |-> 0]
<1>1. l \in Line
  BY DEF Line, Classes
<1>2. send(o, l.class, l.cmd, l.place)
  BY DEF modemUnsolicited, Undisturbed
<1>3. l.cmd = 0 /\ l.class = "other"
  OBVIOUS
<1> HIDE DEF l
<1> QED BY <1>1, <1>2, <1>3

LEMMA OwnModem ==
  ASSUME ThreadInv, OwnInv, Undisturbed, NEW o \in Opens, ModemStep(o)
  PROVE  OwnInv'
<1>0. UNCHANGED <<s_fd, s_readerClosed, s_commandmutex, pendVars, cmdVars, readVars, mainVars>>
  BY ModemLeavesThreads
<1>1. ClosedInv' /\ HandInv' /\ AnswerIsOwn'
  BY <1>0, HandSame DEF OwnInv, ClosedInv, AnswerIsOwn, Finished
<1>2. \A p \in Opens : Finished(p)' = Finished(p)
  BY <1>0 DEF Finished
<1>3. CASE modemHangup(o)
  <2>1. o = nopen /\ hungup' = hungup \cup {o} /\ UNCHANGED <<inq, wire>>
    BY <1>3 DEF modemHangup
  <2>2. HungupInv'
    <3>1. \A p \in Opens : NoStray(p)'
      BY <1>0, <2>1, SameLines DEF OwnInv, HungupInv
    <3>2. \A p \in Opens : p > nopen => p # o
      BY <2>1, Bounds DEF Opens
    <3> QED BY <1>0, <2>1, <3>1, <3>2 DEF OwnInv, HungupInv
  <2>3. OwnLinesInv' /\ ResponseInv'
    BY <1>0, <2>1, OwnLinesSame, ResponseSame DEF OwnInv, Busy
  <2> QED BY <1>1, <2>2, <2>3 DEF OwnInv
<1>4. ASSUME NEW l \in Line, send(o, l.class, l.cmd, l.place), o = nopen,
             NoStray(o)',
             Busy => AllOwn(o)' /\ FinalLast(o)',
             Quiet(o) => Quiet(o)',
             \A p \in Opens : p # o => inq'[p] = inq[p],
             UNCHANGED hungup
      PROVE  OwnInv'
  <2>1. \A p \in Opens : p # o => wire'[p] = wire[p]
    BY <1>0, <1>4, SendLines
  <2>2. HungupInv'
    <3>1. ASSUME NEW p \in Opens PROVE NoStray(p)'
      <4>1. CASE p = o
        BY <1>4, <4>1
      <4>2. CASE p # o
        BY <1>0, <1>4, <2>1, <4>2, SameLines DEF OwnInv, HungupInv
      <4> QED BY <4>1, <4>2
    <3>2. \A p \in Opens : p > nopen => p # o
      BY <1>4, Bounds DEF Opens
    <3> QED BY <1>0, <1>4, <2>1, <3>1, <3>2 DEF OwnInv, HungupInv
  <2>3. OwnLinesInv'
    BY <1>0, <1>2, <1>4 DEF OwnInv, OwnLinesInv, Busy
  <2>4. ResponseInv'
    BY <1>0, <1>2, <1>4 DEF OwnInv, ResponseInv, Busy
  <2> QED BY <1>1, <2>2, <2>3, <2>4 DEF OwnInv
<1>5. CASE modemUnsolicited(o)
  <2>1. PICK l \in Line : send(o, l.class, l.cmd, l.place) /\ l.cmd = 0 /\ l.class = "other"
    BY <1>5, UnsolicitedLine
  <2>2. o = nopen /\ UNCHANGED <<inq, hungup>>
    BY <1>5 DEF modemUnsolicited
  <2>3. /\ NoStray(o) => NoStray(o)'
        /\ Quiet(o) => Quiet(o)'
        /\ AllOwn(o) => AllOwn(o)'
        /\ FinalLast(o) => FinalLast(o)'
    BY <1>0, <2>1, <2>2, SendKeeps
  <2>4. NoStray(o) /\ (Busy => AllOwn(o) /\ FinalLast(o))
    BY <2>2 DEF OwnInv, HungupInv, OwnLinesInv
  <2> QED BY <1>4, <2>1, <2>2, <2>3, <2>4
<1>6. CASE ModemAnswer(o)
  <2>1. inq[o] # <<>> /\ o \notin hungup
    BY <1>6, AnswerLine
  <2>2. PICK l \in Line :
          /\ send(o, l.class, l.cmd, l.place) /\ l.cmd = ccmd
          /\ \/ l.class = "prompt" /\ inq' = inq
             \/ l.class = interClass(ctype) /\ inq' = inq
             \/ IsFinal(l) /\ inq' = [inq EXCEPT ![o] = <<>>]
    BY <1>6, AnswerLine
  <2>3. o = nopen /\ Busy /\ AllOwn(o) /\ FinalLast(o) /\ ~Quiet(o) /\ ccmd # 0
    BY <2>1, AnswersCurrent
  <2>4. /\ inq'[o] \in {inq[o], <<>>} /\ (IsFinal(l) => inq'[o] = <<>>)
        /\ \A p \in Opens : p # o => inq'[p] = inq[p]
    BY <2>2 DEF IsFinal, interClass, ThreadInv, ChannelType, ModemType
  <2>5. NoStray(o)' /\ AllOwn(o)' /\ FinalLast(o)'
    BY <1>0, <2>1, <2>2, <2>3, <2>4, SendKeeps DEF OwnInv, HungupInv
  <2>6. UNCHANGED hungup
    BY <1>6 DEF ModemAnswer, modemPrompt, modemIntermediate, modemFinal
  <2> QED BY <1>4, <2>2, <2>3, <2>4, <2>5, <2>6
<1> QED BY <1>3, <1>5, <1>6 DEF ModemStep

LEMMA OwnStep ==
  ASSUME ThreadInv, OwnInv, Undisturbed, [Next]_vars
  PROVE  OwnInv'
<1>1. CASE IssueNext
  BY <1>1, OwnIssue DEF IssueNext
<1>2. CASE CommandNext
  BY <1>2, OwnCommand DEF CommandNext
<1>3. CASE MainNext
  BY <1>3, OwnMain DEF MainNext
<1>4. ASSUME NEW o \in Opens, ReaderNext(o) PROVE OwnInv'
  BY <1>4, OwnReader DEF ReaderNext
<1>5. ASSUME NEW o \in Opens, ModemNext(o) PROVE OwnInv'
  BY <1>5, OwnModem DEF ModemNext
<1>6. CASE UNCHANGED vars
  <2>1. HungupInv' /\ OwnLinesInv' /\ ResponseInv' /\ HandInv'
    BY <1>6, HungupSame, OwnLinesSame, ResponseSame, HandSame DEF vars, OwnInv, Busy
  <2> QED BY <1>6, <2>1 DEF vars, OwnInv, ClosedInv, AnswerIsOwn, Finished
<1> QED BY <1>1, <1>2, <1>3, <1>4, <1>5, <1>6 DEF Next

\* If no timed wait times out and unsolicited lines do not look like answers,
\* the answer a command returns consists of the modem's lines for that command,
\* through any number of commands, hang-ups and reopenings of the channel; only
\* a command under which at_open reset the channel, wherever it was between
\* the test of its loop and its return, may come back without a final line.
THEOREM AnswersAreOwn ==
  ASSUME Undisturbed
  PROVE  Spec => []AnswerIsOwn
<1>1. Init => OwnInv
  BY OwnInitially
<1>2. ThreadInv /\ OwnInv /\ [Next]_vars => OwnInv'
  BY OwnStep
<1>3. OwnInv => AnswerIsOwn
  BY DEF OwnInv
<1> QED BY <1>1, <1>2, <1>3, ThreadsSafe, PTL DEF Spec

-----------------------------------------------------------------------------
(* An answer is whole: its lines have consecutive places.                  *)

LEMMA WholeInitially == Init => WholeInv
<1> SUFFICES ASSUME Init PROVE WholeInv
  OBVIOUS
<1>0. \A o \in Opens : o # 0
  BY Bounds DEF Opens
<1>1. PlaceInv
  BY <1>0 DEF Init, PlaceInv
<1>2. ReceivedInv
  BY DEF Init, ReceivedInv
<1>3. AnswerIsWhole
  BY DEF Init, AnswerIsWhole, noResult, noLine
<1> QED BY <1>1, <1>2, <1>3 DEF WholeInv

\* The values the arithmetic is about.
LEMMA CountType ==
  ASSUME ThreadInv
  PROVE  /\ first \in {0, 1} /\ Received \in Nat /\ place \in Nat /\ interMax(ctype) \in Nat
         /\ \A o \in Opens : \A i \in Positions(o) : i \in Nat /\ LineAt(o, i).place \in Nat
<1>1. \A o \in Opens : \A i \in Positions(o) : i \in Nat /\ LineAt(o, i).place \in Nat
  BY LineType DEF ThreadInv, Line
<1>2. Received \in Nat
  BY DEF ThreadInv, ChannelType, CommandType, Responses, Received
<1> QED BY <1>1, <1>2, Bounds DEF first, promptLines, interMax, ThreadInv, ChannelType, ModemType

\* Steps that leave the lines that count, and the number received, alone.
LEMMA CountedSame ==
  ASSUME NEW o \in Opens, ctype' = ctype, Received' = Received,
         \A i : CountedAt(o, i)' = CountedAt(o, i),
         \A i : CountedAt(o, i) => LineAt(o, i)' = LineAt(o, i)
  PROVE  /\ NoGap(o) => NoGap(o)'
         /\ (place' = place /\ LastPlace(o)) => LastPlace(o)'
<1>1. first' = first /\ interClass(ctype)' = interClass(ctype) /\ interMax(ctype)' = interMax(ctype)
  BY DEF first, interClass, interMax, promptLines
<1>2. \A i : CountedAt(o, i) => i \in Positions(o) /\ i \in Positions(o)'
  BY DEF CountedAt
<1>3. ASSUME NoGap(o) PROVE NoGap(o)'
  <2>1. ASSUME NEW i \in Positions(o)', CountedAt(o, i)'
        PROVE  \/ LineAt(o, i)'.place = first + Received + 1
               \/ \E j \in Positions(o)' : /\ j < i /\ CountedAt(o, j)'
                                           /\ LineAt(o, j)'.place = LineAt(o, i)'.place - 1
    <3>1. CountedAt(o, i) /\ i \in Positions(o) /\ LineAt(o, i)' = LineAt(o, i)
      BY <1>2, <2>1
    <3>2. CASE LineAt(o, i).place = first + Received + 1
      BY <3>1, <3>2
    <3>3. CASE \E j \in Positions(o) :
                 j < i /\ CountedAt(o, j) /\ LineAt(o, j).place = LineAt(o, i).place - 1
      <4>1. PICK j \in Positions(o) :
                 j < i /\ CountedAt(o, j) /\ LineAt(o, j).place = LineAt(o, i).place - 1
        BY <3>3
      <4>2. j \in Positions(o)' /\ CountedAt(o, j)' /\ LineAt(o, j)' = LineAt(o, j)
        BY <1>2, <4>1
      <4> QED BY <3>1, <4>1, <4>2
    <3> QED BY <1>3, <3>1, <3>2, <3>3 DEF NoGap
  <2>2. \A i, j \in Positions(o)' : (i < j /\ CountedAt(o, i)' /\ CountedAt(o, j)') =>
          LineAt(o, i)'.place < LineAt(o, j)'.place
    BY <1>2, <1>3 DEF NoGap
  <2>3. \A i \in Positions(o)' : CountedAt(o, i)' =>
          /\ LineAt(o, i)'.place > first + Received
          /\ LineAt(o, i)'.class # "success" =>
               /\ LineAt(o, i)'.class = interClass(ctype)
               /\ LineAt(o, i)'.place <= first + interMax(ctype)
    BY <1>2, <1>3 DEF NoGap
  <2> QED BY <1>1, <2>1, <2>2, <2>3 DEF NoGap
<1>4. ASSUME place' = place, LastPlace(o) PROVE LastPlace(o)'
  <2>1. CASE \A i \in Positions(o) : ~CountedAt(o, i)
    <3>1. \A i \in Positions(o)' : ~CountedAt(o, i)'
      BY <1>2, <2>1
    <3> QED BY <1>1, <1>4, <2>1, <3>1 DEF LastPlace
  <2>2. CASE ~(\A i \in Positions(o) : ~CountedAt(o, i))
    <3>1. /\ place >= first
          /\ \A i \in Positions(o) : CountedAt(o, i) => LineAt(o, i).place <= place
          /\ \/ place = first + Received
             \/ \E i \in Positions(o) : CountedAt(o, i) /\ LineAt(o, i).place = place
      BY <1>4, <2>2 DEF LastPlace
    <3>2. \A i \in Positions(o)' : CountedAt(o, i)' => LineAt(o, i)'.place <= place
      BY <1>2, <3>1
    <3>3. \/ place = first + Received
          \/ \E i \in Positions(o)' : CountedAt(o, i)' /\ LineAt(o, i)'.place = place
      BY <1>2, <3>1
    <3> QED BY <1>1, <1>4, <3>1, <3>2, <3>3 DEF LastPlace
  <2> QED BY <2>1, <2>2
<1> QED BY <1>3, <1>4

LEMMA PlaceSame ==
  ASSUME PlaceInv, UNCHANGED <<wire, rline, inq, nopen, hungup, place>>,
         Waiting' => Waiting /\ ctype' = ctype /\ Received' = Received
  PROVE  PlaceInv'
<1>1. ASSUME NEW o \in Opens, Waiting'
      PROVE  (NoGap(o) => NoGap(o)') /\ (LastPlace(o) => LastPlace(o)')
  <2>1. /\ Positions(o)' = Positions(o)
        /\ \A i : LineAt(o, i)' = LineAt(o, i)
    BY DEF Positions, LineAt
  <2>2. \A i : CountedAt(o, i)' = CountedAt(o, i)
    BY <2>1 DEF CountedAt
  <2> QED BY <1>1, <2>1, <2>2, CountedSame
<1> QED BY <1>1 DEF PlaceInv

\* Steps that add nothing to the response and do not reorder it.
LEMMA ReceivedSame ==
  ASSUME ReceivedInv, sp_response' \in {sp_response, NULL},
         cpc' \in Looping => cpc \in Looping /\ UNCHANGED <<s_type, ctype>>,
         cpc' = "hand" => cpc \in Looping \cup {"hand"} /\ ctype' = ctype,
         cpc' = "give" => cpc = "give" /\ UNCHANGED <<ctype, timed>>,
         cpc' = "reread" => cpc = "reread" /\ UNCHANGED <<ctype, out>>
  PROVE  ReceivedInv'
<1>2. cpc' \in Looping => s_type' = IF ctype' = "SMS" THEN "SINGLELINE" ELSE ctype'
  BY DEF ReceivedInv
<1>3. ASSUME cpc' \in Looping \cup {"hand"}, sp_response' # NULL PROVE Linked(sp_response)'
  <2>1. sp_response' = sp_response /\ ctype' = ctype /\ Linked(sp_response)
    BY <1>3 DEF ReceivedInv
  <2> QED BY <2>1 DEF Linked, first, promptLines
<1>4. ASSUME cpc' = "give", ~timed', sp_response' # NULL PROVE Ordered(sp_response)'
  <2>1. sp_response' = sp_response /\ ctype' = ctype /\ Ordered(sp_response)
    BY <1>4 DEF ReceivedInv
  <2> QED BY <2>1 DEF Ordered, first, promptLines
<1>5. ASSUME cpc' = "reread", out' # NULL PROVE Ordered(out)'
  <2>1. out' = out /\ ctype' = ctype /\ Ordered(out)
    BY <1>5 DEF ReceivedInv
  <2> QED BY <2>1 DEF Ordered, first, promptLines
<1> QED BY <1>2, <1>3, <1>4, <1>5 DEF ReceivedInv

LEMMA WholeIssue ==
  ASSUME WholeInv, at_handshake \/ \E t \in Types : at_send_command(t)
  PROVE  WholeInv'
<1>1. /\ UNCHANGED <<s_fd, s_readerClosed, readVars, mainVars, modemVars>>
      /\ UNCHANGED <<s_commandmutex, pendVars, ccmd, result>>
      /\ cpc = "idle" /\ cpc' = "lock" /\ initialized
  BY IssueLeavesReaders
<1>2. PlaceInv'
  BY <1>1, PlaceSame DEF WholeInv, Waiting
<1>3. ReceivedInv'
  BY <1>1, ReceivedSame DEF WholeInv
<1> QED BY <1>1, <1>2, <1>3 DEF WholeInv, AnswerIsWhole

LEMMA WholeCommand ==
  ASSUME ThreadInv, OwnInv, WholeInv, Undisturbed, CommandStep
  PROVE  WholeInv'
<1>0. UNCHANGED <<s_fd, s_readerClosed, readVars, mainVars, pdus, wire, place, hungup>>
  BY CommandLeavesReaders
<1>1. CASE writeline
  <2>1. cpc = "start" /\ s_fd # NULL /\ ~s_readerClosed /\ cpc' = "written"
        /\ UNCHANGED <<sp_response, ctype, result>>
    BY <1>1 DEF writeline
  <2>2. s_fd = nopen /\ nopen \in Opens
    BY <2>1, FdIsLatest
  <2>3. Quiet(nopen) /\ inq[nopen] = <<>>
    BY <2>1, <2>2 DEF OwnInv, OwnLinesInv, ClosedInv, Busy, Quiet
  <2>4. place = 0 /\ sp_response = NULL
    BY <2>1, <2>2, <2>3 DEF WholeInv, PlaceInv, ThreadInv, CommandInv, PendingInv
  <2>5. ASSUME NEW o \in Opens, o = nopen PROVE NoGap(o)' /\ LastPlace(o)'
    <3>1. \A i : ~CountedAt(o, i)'
      BY <1>0, <2>3, <2>5 DEF CountedAt, Counted, Quiet, Positions, LineAt
    <3>2. Received' = 0 /\ place' = 0
      BY <1>0, <2>1, <2>4 DEF Received
    <3>3. (ctype # "SMS" => first' = 0) /\ ctype' = ctype
      BY <2>1 DEF first, promptLines
    <3>4. NoGap(o)'
      BY <3>1 DEF NoGap
    <3>5. LastPlace(o)'
      BY <3>1, <3>2, <3>3 DEF LastPlace
    <3> QED BY <3>4, <3>5
  <2>6. PlaceInv'
    BY <1>0, <2>4, <2>5 DEF PlaceInv
  <2> QED BY <2>1, <2>6 DEF WholeInv, ReceivedInv, AnswerIsWhole
<1>2. CASE ~writeline
  <2>1. UNCHANGED inq
    BY <1>2 DEF CommandStep, commandLock, writeRefused, writeFailed, armCommand,
           commandLoop, commandClosed, commandWait, commandSpin, commandReverse,
           commandGive, commandReturn, commandCrash, commandWake, commandTimeout,
           handshakeRetry, commandUnlock
  <2>2. CASE commandReverse
    <3>1. cpc = "hand" /\ cpc' = "give" /\ UNCHANGED <<result, ctype, timed>>
      BY <2>2 DEF commandReverse
    <3>2. PlaceInv'
      BY <1>0, <2>1, <3>1, PlaceSame DEF WholeInv, Waiting
    <3>3. ASSUME ~timed PROVE Ordered(sp_response)'
      <4> DEFINE s == sp_response.p_intermediates
      <4>1. sp_response # NULL /\ sp_response \in Responses /\ s \in Seq(Line) /\ Len(s) \in Nat
        BY <2>2, <3>3 DEF commandReverse, ThreadInv, ChannelType, CommandType, Responses
      <4>2. Linked(sp_response)
        BY <3>1, <4>1 DEF WholeInv, ReceivedInv
      <4>3. /\ sp_response'.p_intermediates = Reverse(s) /\ sp_response'.done = sp_response.done
            /\ sp_response'.final = sp_response.final
        BY <2>2, <3>3, <4>1 DEF commandReverse, reverseIntermediates, Responses
      <4>4. /\ \A i \in 1 .. Len(s) : s[Len(s) - i + 1].place = first + i
            /\ (sp_response.done /\ sp_response.final.class = "success") =>
                 sp_response.final.place = first + Len(s) + 1
        BY <4>2 DEF Linked
      <4>5. first' = first
        BY <3>1 DEF first, promptLines
      <4> HIDE DEF s
      <4>6. /\ Reverse(s) \in Seq(Line) /\ Len(Reverse(s)) = Len(s)
            /\ \A i \in 1 .. Len(s) : Reverse(s)[i] = s[Len(s) - i + 1]
        BY <4>1, ReverseType
      <4> QED BY <4>3, <4>4, <4>5, <4>6 DEF Ordered
    <3>4. ReceivedInv'
      BY <3>1, <3>3 DEF ReceivedInv
    <3> QED BY <3>1, <3>2, <3>4 DEF WholeInv, AnswerIsWhole
  <2>7. CASE commandGive
    <3>1. /\ cpc = "give" /\ cpc' = "reread" /\ UNCHANGED <<result, ctype, timed>>
          /\ out' = (IF timed THEN NULL ELSE sp_response)
      BY <2>7 DEF commandGive
    <3>2. PlaceInv'
      BY <1>0, <2>1, <3>1, PlaceSame DEF WholeInv, Waiting
    <3>3. ReceivedInv'
      BY <3>1 DEF WholeInv, ReceivedInv, Ordered, first, promptLines
    <3> QED BY <3>1, <3>2, <3>3 DEF WholeInv, AnswerIsWhole
  <2>8. CASE commandReturn
    <3>1. cpc = "reread" /\ cpc' = "return"
      BY <2>8 DEF commandReturn
    <3>2. PlaceInv' /\ ReceivedInv'
      BY <1>0, <2>1, <3>1, PlaceSame DEF WholeInv, Waiting, ReceivedInv
    <3>3. AnswerIsWhole'
      <4> SUFFICES ASSUME result'.err = "ok", result'.final.class = "success"
                   PROVE  /\ Len(result'.inter) + promptLines(result'.type) + 1
                                = result'.final.place
                          /\ \A i \in DOMAIN result'.inter :
                               result'.inter[i].place = promptLines(result'.type) + i
        BY DEF AnswerIsWhole, promptLines
      <4>1. out # NULL
        BY <2>8 DEF commandReturn, newResponse, noLine
      <4>2. /\ result'.final = out.final /\ result'.inter = out.p_intermediates
            /\ result'.type = ctype
        BY <2>8, <4>1 DEF commandReturn
      <4>3. Ordered(out) /\ Held(out)
        BY <3>1, <4>1 DEF OwnInv, HandInv, WholeInv, ReceivedInv
      <4>4. out.done
        BY <4>2, <4>3 DEF Held, noLine
      <4> DEFINE s == out.p_intermediates
      <4>5. s \in Seq(Line) /\ Len(s) \in Nat
        BY <4>1 DEF ThreadInv, ChannelType, CommandType, Responses
      <4>6. /\ \A i \in 1 .. Len(s) : s[i].place = first + i
            /\ out.final.place = first + Len(s) + 1
        BY <4>2, <4>3, <4>4 DEF Ordered
      <4>7. promptLines(result'.type) = first /\ first \in {0, 1}
        BY <4>2 DEF first, promptLines
      <4> HIDE DEF s
      <4>8. DOMAIN s = 1 .. Len(s) /\ Len(s) + first + 1 = first + Len(s) + 1
        BY <4>5, <4>7
      <4> QED BY <4>2, <4>6, <4>7, <4>8 DEF s
    <3> QED BY <3>2, <3>3 DEF WholeInv
  <2>3. CASE armCommand
    <3>1. cpc = "written" /\ cpc' = "loop" /\ sp_response' = newResponse
          /\ s_type' = (IF ctype = "SMS" THEN "SINGLELINE" ELSE ctype)
          /\ UNCHANGED <<ctype, result>>
      BY <2>3 DEF armCommand
    <3>2. sp_response = NULL /\ newResponse \in Responses
      BY <3>1, NoLineType DEF ThreadInv, CommandInv, PendingInv
    <3>3. newResponse.p_intermediates = <<>> /\ newResponse.done = FALSE
      BY DEF newResponse
    <3>4. Received' = Received
      BY <3>1, <3>2, <3>3 DEF Received
    <3>5. PlaceInv'
      BY <1>0, <2>1, <3>1, <3>4, PlaceSame DEF WholeInv, Waiting
    <3>6. ReceivedInv'
      <4>1. \A i \in 1 .. Len(<<>>) : FALSE
        OBVIOUS
      <4> QED BY <3>1, <3>3, <4>1 DEF ReceivedInv, Linked
    <3> QED BY <3>1, <3>5, <3>6 DEF WholeInv, AnswerIsWhole
  <2>4. CASE writeRefused \/ writeFailed
    <3>1. cpc' = "return" /\ result'.err \in {"closed", "generic"}
      BY <2>4 DEF writeRefused, writeFailed, failCommand, noResult
    <3>2. PlaceInv' /\ ReceivedInv'
      BY <1>0, <2>1, <3>1, PlaceSame DEF WholeInv, Waiting, ReceivedInv
    <3> QED BY <3>1, <3>2 DEF WholeInv, AnswerIsWhole
  <2>5. CASE commandLoop \/ commandClosed \/ commandWait \/ commandSpin \/ commandCrash
             \/ commandWake
    <3>1. /\ UNCHANGED <<sp_response, result, s_type, out, ctype, timed>>
          /\ cpc' \notin {"written"}
          /\ cpc' \in Looping => cpc \in Looping
          /\ cpc' = "hand" => cpc \in Looping \cup {"hand"}
          /\ cpc' \in {"give", "reread"} => cpc' = cpc
      BY <2>5, <1>0 DEF commandLoop, commandClosed, commandWait, commandSpin, commandCrash,
                        commandWake, ThreadInv, CommandInv, PendingInv
    <3>2. PlaceInv'
      BY <1>0, <2>1, <3>1, PlaceSame DEF WholeInv, Waiting, Received
    <3>3. ReceivedInv'
      BY <3>1, ReceivedSame DEF WholeInv
    <3> QED BY <3>1, <3>2, <3>3 DEF WholeInv, AnswerIsWhole
  <2>9. CASE commandLock \/ handshakeRetry \/ commandUnlock
    <3>1. /\ UNCHANGED <<sp_response, result>>
          /\ cpc' \notin {"written", "hand", "give", "reread"} \cup Looping
      BY <2>9, <1>0 DEF commandLock, handshakeRetry, commandUnlock
    <3>2. PlaceInv'
      BY <1>0, <2>1, <3>1, PlaceSame DEF WholeInv, Waiting
    <3>3. ReceivedInv'
      BY <3>1 DEF ReceivedInv
    <3> QED BY <3>1, <3>2, <3>3 DEF WholeInv, AnswerIsWhole
  <2>6. ~commandTimeout
    BY DEF Undisturbed, commandTimeout
  <2> QED BY <1>2, <2>2, <2>3, <2>4, <2>5, <2>6, <2>7, <2>8, <2>9 DEF CommandStep
<1> QED BY <1>1, <1>2

LEMMA WholeMain ==
  ASSUME ThreadInv, OwnInv, WholeInv, MainStep
  PROVE  WholeInv'
<1>0. /\ UNCHANGED <<s_commandmutex, s_type, cmdVars, rline, modemVars>>
      /\ sp_response' \in {sp_response, NULL}
  BY MainLeavesCommand
<1>1. ReceivedInv' /\ AnswerIsWhole'
  BY <1>0, ReceivedSame DEF WholeInv, AnswerIsWhole
<1>2. CASE mainOpen
  <2>1. mpc = "open" /\ nopen' = nopen + 1 /\ nopen \in Nat /\ nopen' \in Opens
        /\ (nopen # 0 => nopen \in Opens)
    BY <1>2, Bounds DEF mainOpen, Opens, ThreadInv, ChannelType, ReaderType
  <2>2. place = 0
    BY <2>1 DEF ThreadInv, ReaderInv, ThreadsInv, OwnInv, HungupInv, Over, WholeInv, PlaceInv
  <2>3. inq[nopen'] = <<>> /\ wire[nopen'] = <<>> /\ rline[nopen'] = noLine
    <3>1. nopen' > nopen
      BY <2>1
    <3> QED BY <2>1, <3>1 DEF ThreadInv, ReaderInv, ThreadsInv, OwnInv, HungupInv
  <2>4. ASSUME NEW o \in Opens, o = nopen' PROVE NoGap(o)'
    <3>1. Positions(o)' = {0} /\ LineAt(o, 0)' = noLine
      <4>1. 0 .. 0 = {0} /\ Len(<<>>) = 0
        OBVIOUS
      <4> QED BY <1>0, <2>3, <2>4, <4>1 DEF Positions, LineAt
    <3>2. \A i : ~CountedAt(o, i)'
      BY <3>1 DEF CountedAt, Counted, noLine
    <3> QED BY <3>2 DEF NoGap
  <2>5. PlaceInv'
    BY <1>0, <2>2, <2>3, <2>4 DEF PlaceInv
  <2> QED BY <1>1, <2>5 DEF WholeInv
<1>3. CASE ~mainOpen
  <2>1. nopen' = nopen
    BY <1>3 DEF MainStep, at_openFd, at_openFlag, at_openPending, at_openCreate, waitForClose
  <2>2. Waiting' => Waiting /\ Received' = Received
    BY <1>0 DEF Waiting, Received, ThreadInv, CommandInv, PendingInv
  <2>3. PlaceInv'
    BY <1>0, <2>1, <2>2, PlaceSame DEF WholeInv
  <2> QED BY <1>1, <2>3 DEF WholeInv
<1> QED BY <1>2, <1>3

\* A line that does not count, such as a prompt, an error or an unsolicited one.
LEMMA SendUncounted ==
  ASSUME ThreadInv, NEW o \in Opens, NEW l \in Line, ~Counted(l),
         send(o, l.class, l.cmd, l.place), UNCHANGED rline
  PROVE  /\ \A i : CountedAt(o, i)' = CountedAt(o, i)
         /\ \A i : CountedAt(o, i) => LineAt(o, i)' = LineAt(o, i)
<1> SUFFICES ASSUME NEW m, m = Len(wire[o]) + 1
             PROVE  /\ \A i : CountedAt(o, i)' = CountedAt(o, i)
                    /\ \A i : CountedAt(o, i) => LineAt(o, i)' = LineAt(o, i)
  OBVIOUS
<1>1. /\ m \notin Positions(o) /\ Positions(o)' = Positions(o) \cup {m}
      /\ \A i \in Positions(o) : LineAt(o, i)' = LineAt(o, i)
      /\ LineAt(o, m)' = l
  BY SendLines
<1>2. ASSUME NEW i PROVE CountedAt(o, i)' = CountedAt(o, i)
  <2>1. CASE i \in Positions(o)
    BY <1>1, <2>1 DEF CountedAt, Counted
  <2>2. CASE i = m
    BY <1>1, <2>2 DEF CountedAt, Counted
  <2>3. CASE i \notin Positions(o) /\ i # m
    BY <1>1, <2>3 DEF CountedAt, Counted
  <2> QED BY <2>1, <2>2, <2>3
<1> QED BY <1>1, <1>2 DEF CountedAt

\* A line that counts follows on the last one sent.
LEMMA SendCounted ==
  ASSUME ThreadInv, NEW o \in Opens, NEW l \in Line, Counted(l),
         send(o, l.class, l.cmd, l.place), UNCHANGED <<rline, ctype, sp_response>>,
         NoGap(o), LastPlace(o), l.place = place + 1, ctype = "SMS" => place > 0,
         l.class # "success" =>
           l.class = interClass(ctype) /\ place + 1 <= first + interMax(ctype)
  PROVE  NoGap(o)' /\ (place' = place + 1 => LastPlace(o)')
<1> SUFFICES ASSUME NEW m, m = Len(wire[o]) + 1
             PROVE  NoGap(o)' /\ (place' = place + 1 => LastPlace(o)')
  OBVIOUS
<1>0. /\ first \in {0, 1} /\ Received \in Nat /\ place \in Nat /\ interMax(ctype) \in Nat
      /\ \A i \in Positions(o) : i \in Nat /\ LineAt(o, i).place \in Nat
  BY CountType
<1>1. /\ m \in Nat /\ m \notin Positions(o) /\ Positions(o)' = Positions(o) \cup {m}
      /\ \A i \in Positions(o) : i < m /\ LineAt(o, i)' = LineAt(o, i)
      /\ LineAt(o, m)' = l
  BY SendLines
<1>2. /\ CountedAt(o, m)'
      /\ \A i \in Positions(o) : CountedAt(o, i)' = CountedAt(o, i)
  <2>1. CountedAt(o, m)'
    BY <1>1 DEF CountedAt, Counted
  <2> QED BY <1>1, <2>1 DEF CountedAt, Counted
<1>3. first' = first /\ Received' = Received
      /\ interClass(ctype)' = interClass(ctype) /\ interMax(ctype)' = interMax(ctype)
  BY DEF first, Received, interClass, interMax, promptLines
<1>4. /\ place >= first
      /\ \A i \in Positions(o) : CountedAt(o, i) => LineAt(o, i).place <= place
      /\ \/ place = first + Received
         \/ \E i \in Positions(o) : CountedAt(o, i) /\ LineAt(o, i).place = place
  BY <1>0 DEF LastPlace
<1>5. place >= first + Received
  <2>1. \A i \in Positions(o) : CountedAt(o, i) => LineAt(o, i).place > first + Received
    BY DEF NoGap
  <2> QED BY <1>0, <1>4, <2>1
<1>6. ASSUME NEW i \in Positions(o)', CountedAt(o, i)'
      PROVE  \/ LineAt(o, i)'.place = first + Received + 1
             \/ \E j \in Positions(o)' : /\ j < i /\ CountedAt(o, j)'
                                         /\ LineAt(o, j)'.place = LineAt(o, i)'.place - 1
  <2>1. CASE i = m
    <3>1. LineAt(o, i)'.place = place + 1
      BY <1>1, <2>1
    <3>2. CASE place = first + Received
      BY <3>1, <3>2
    <3>3. CASE \E j \in Positions(o) : CountedAt(o, j) /\ LineAt(o, j).place = place
      <4>1. PICK j \in Positions(o) : CountedAt(o, j) /\ LineAt(o, j).place = place
        BY <3>3
      <4>2. j \in Positions(o)' /\ j < i /\ CountedAt(o, j)' /\ LineAt(o, j)'.place = place
        BY <1>1, <1>2, <2>1, <4>1
      <4>3. place = LineAt(o, i)'.place - 1
        BY <1>0, <3>1
      <4> QED BY <4>2, <4>3
    <3> QED BY <1>4, <3>2, <3>3
  <2>2. CASE i # m
    <3>1. i \in Positions(o) /\ CountedAt(o, i) /\ LineAt(o, i)' = LineAt(o, i)
      BY <1>1, <1>2, <1>6, <2>2
    <3>2. CASE LineAt(o, i).place = first + Received + 1
      BY <3>1, <3>2
    <3>3. CASE \E j \in Positions(o) :
                 j < i /\ CountedAt(o, j) /\ LineAt(o, j).place = LineAt(o, i).place - 1
      <4>1. PICK j \in Positions(o) :
                 j < i /\ CountedAt(o, j) /\ LineAt(o, j).place = LineAt(o, i).place - 1
        BY <3>3
      <4>2. j \in Positions(o)' /\ CountedAt(o, j)' /\ LineAt(o, j)' = LineAt(o, j)
        BY <1>1, <1>2, <4>1
      <4> QED BY <3>1, <4>1, <4>2
    <3> QED BY <3>1, <3>2, <3>3 DEF NoGap
  <2> QED BY <2>1, <2>2
<1>7. ASSUME NEW i \in Positions(o)', NEW j \in Positions(o)', i < j,
             CountedAt(o, i)', CountedAt(o, j)'
      PROVE  LineAt(o, i)'.place < LineAt(o, j)'.place
  <2>1. i # m
    BY <1>0, <1>1, <1>7
  <2>2. i \in Positions(o) /\ CountedAt(o, i) /\ LineAt(o, i)' = LineAt(o, i)
    BY <1>1, <1>2, <1>7, <2>1
  <2>3. CASE j = m
    BY <1>0, <1>1, <1>4, <2>2, <2>3
  <2>4. CASE j # m
    <3>1. j \in Positions(o) /\ CountedAt(o, j) /\ LineAt(o, j)' = LineAt(o, j)
      BY <1>1, <1>2, <1>7, <2>4
    <3> QED BY <1>7, <2>2, <3>1 DEF NoGap
  <2> QED BY <2>3, <2>4
<1>8. ASSUME NEW i \in Positions(o)', CountedAt(o, i)'
      PROVE  /\ LineAt(o, i)'.place > first + Received
             /\ LineAt(o, i)'.class # "success" =>
                  /\ LineAt(o, i)'.class = interClass(ctype)
                  /\ LineAt(o, i)'.place <= first + interMax(ctype)
  <2>1. CASE i = m
    BY <1>0, <1>1, <1>5, <2>1
  <2>2. CASE i # m
    <3>1. i \in Positions(o) /\ CountedAt(o, i) /\ LineAt(o, i)' = LineAt(o, i)
      BY <1>1, <1>2, <1>8, <2>2
    <3> QED BY <3>1 DEF NoGap
  <2> QED BY <2>1, <2>2
<1>9. NoGap(o)'
  BY <1>3, <1>6, <1>7, <1>8 DEF NoGap
<1>10. ASSUME place' = place + 1 PROVE LastPlace(o)'
  <2>1. place' >= first
    BY <1>0, <1>4, <1>10
  <2>2. ASSUME NEW i \in Positions(o)', CountedAt(o, i)' PROVE LineAt(o, i)'.place <= place'
    <3>1. CASE i = m
      BY <1>0, <1>1, <1>10, <3>1
    <3>2. CASE i # m
      <4>1. i \in Positions(o) /\ CountedAt(o, i) /\ LineAt(o, i)' = LineAt(o, i)
        BY <1>1, <1>2, <2>2, <3>2
      <4> QED BY <1>0, <1>4, <1>10, <4>1
    <3> QED BY <3>1, <3>2
  <2>3. \E i \in Positions(o)' : CountedAt(o, i)' /\ LineAt(o, i)'.place = place'
    BY <1>1, <1>2, <1>10
  <2> QED BY <1>3, <2>1, <2>2, <2>3 DEF LastPlace
<1> QED BY <1>9, <1>10

LEMMA WholeModem ==
  ASSUME ThreadInv, OwnInv, WholeInv, Undisturbed, NEW o \in Opens, ModemStep(o)
  PROVE  WholeInv'
<1>0. UNCHANGED <<s_fd, s_readerClosed, s_commandmutex, pendVars, cmdVars, readVars, mainVars>>
  BY ModemLeavesThreads
<1>1. ReceivedInv' /\ AnswerIsWhole'
  BY <1>0, ReceivedSame DEF WholeInv, AnswerIsWhole
<1>2. Waiting' = Waiting /\ Received' = Received
  BY <1>0 DEF Waiting, Received
<1>3. o = nopen => nopen # 0
  BY Bounds DEF Opens
<1>4. CASE modemHangup(o)
  <2>1. o = nopen /\ hungup' = hungup \cup {o} /\ place' = 0 /\ UNCHANGED <<inq, wire>>
    BY <1>4 DEF modemHangup
  <2>2. NoGap(o) => NoGap(o)'
    <3>1. \A i : CountedAt(o, i)' = CountedAt(o, i) /\ LineAt(o, i)' = LineAt(o, i)
      BY <1>0, <2>1 DEF CountedAt, Positions, LineAt
    <3> QED BY <1>0, <1>2, <3>1, CountedSame
  <2>3. PlaceInv'
    BY <1>0, <1>2, <1>3, <2>1, <2>2 DEF WholeInv, PlaceInv
  <2> QED BY <1>1, <2>3 DEF WholeInv
<1>5. CASE modemUnsolicited(o)
  <2>1. PICK l \in Line : send(o, l.class, l.cmd, l.place) /\ l.cmd = 0 /\ l.class = "other"
    BY <1>5, UnsolicitedLine
  <2>2. o = nopen /\ UNCHANGED <<inq, hungup, place>>
    BY <1>5 DEF modemUnsolicited
  <2>3. (NoGap(o) => NoGap(o)') /\ (LastPlace(o) => LastPlace(o)')
    BY <1>0, <1>2, <2>1, <2>2, SendUncounted, CountedSame DEF Counted
  <2>4. PlaceInv'
    BY <1>0, <1>2, <2>2, <2>3 DEF WholeInv, PlaceInv
  <2> QED BY <1>1, <2>4 DEF WholeInv
<1>6. CASE ModemAnswer(o)
  <2>1. inq[o] # <<>> /\ o \notin hungup
    BY <1>6, AnswerLine
  <2>2. o = nopen /\ ccmd # 0
    BY <2>1, AnswersCurrent
  <2>3. Waiting => NoGap(o) /\ LastPlace(o)
    BY <2>1, <2>2 DEF WholeInv, PlaceInv
  <2>4. PICK l \in Line :
          /\ send(o, l.class, l.cmd, l.place) /\ l.cmd = ccmd
          /\ \/ /\ l.class = "prompt" /\ place = 0 /\ place' = 1
                /\ ctype = "SMS" /\ inq' = inq
             \/ /\ l.class = interClass(ctype)
                /\ l.place = place + 1 /\ place' = place + 1 /\ inq' = inq
                /\ place - promptLines(ctype) < interMax(ctype)
                /\ ctype = "SMS" => place > 0
             \/ /\ IsFinal(l) /\ l.place = place + 1 /\ place' = 0
                /\ (l.class = "success" /\ ctype = "SMS") => place > 0
                /\ inq' = [inq EXCEPT ![o] = <<>>]
    BY <1>6, AnswerLine
  <2>5. hungup' = hungup
    BY <1>6 DEF ModemAnswer, modemPrompt, modemIntermediate, modemFinal
  <2>6. /\ first \in {0, 1} /\ Received \in Nat /\ place \in Nat /\ interMax(ctype) \in Nat
        /\ \A i \in Positions(o) : i \in Nat /\ LineAt(o, i).place \in Nat
    BY CountType
  <2>7. CASE /\ l.class = "prompt" /\ place = 0 /\ place' = 1
             /\ ctype = "SMS" /\ inq' = inq
    <3>1. l.class = "prompt" /\ place = 0 /\ place' = 1 /\ ctype = "SMS" /\ inq' = inq
      BY <2>7
    <3>2. /\ \A i : CountedAt(o, i)' = CountedAt(o, i)
          /\ \A i : CountedAt(o, i) => LineAt(o, i)' = LineAt(o, i)
      BY <1>0, <2>4, <3>1, SendUncounted DEF Counted
    <3>3. NoGap(o) => NoGap(o)'
      BY <1>0, <1>2, <3>2, CountedSame
    <3>4. ASSUME LastPlace(o) PROVE LastPlace(o)'
      <4>1. first = 1 /\ first' = 1
        BY <1>0, <3>1 DEF first, promptLines
      <4>2. Received = 0 /\ \A i \in Positions(o) : ~CountedAt(o, i)
        BY <3>1, <3>4, <4>1 DEF LastPlace
      <4>3. \A i \in Positions(o)' : ~CountedAt(o, i)'
        BY <3>2, <4>2 DEF CountedAt
      <4>4. place' >= first' /\ place' = first' + Received'
        BY <1>2, <3>1, <4>1, <4>2
      <4> QED BY <4>3, <4>4 DEF LastPlace
    <3>5. PlaceInv'
      BY <1>0, <1>2, <1>3, <2>1, <2>2, <2>3, <2>5, <3>1, <3>3, <3>4 DEF PlaceInv
    <3> QED BY <1>1, <3>5 DEF WholeInv
  <2>8. CASE /\ l.class = interClass(ctype)
             /\ l.place = place + 1 /\ place' = place + 1 /\ inq' = inq
             /\ place - promptLines(ctype) < interMax(ctype)
             /\ ctype = "SMS" => place > 0
    <3>1. l.class = interClass(ctype) /\ l.place = place + 1 /\ place' = place + 1
          /\ inq' = inq /\ (ctype = "SMS" => place > 0)
          /\ place - promptLines(ctype) < interMax(ctype)
      BY <2>8
    <3>2. Counted(l)
      BY <2>2, <2>4, <3>1 DEF Counted, interClass
    <3>3. place + 1 <= first + interMax(ctype)
      BY <2>6, <3>1 DEF first
    <3>4. Waiting => NoGap(o)' /\ LastPlace(o)'
      BY <1>0, <2>3, <2>4, <3>1, <3>2, <3>3, SendCounted
    <3>5. PlaceInv'
      BY <1>0, <1>2, <1>3, <2>1, <2>2, <2>5, <3>1, <3>4 DEF PlaceInv
    <3> QED BY <1>1, <3>5 DEF WholeInv
  <2>9. CASE /\ IsFinal(l) /\ l.place = place + 1 /\ place' = 0
             /\ (l.class = "success" /\ ctype = "SMS") => place > 0
             /\ inq' = [inq EXCEPT ![o] = <<>>]
    <3>1. place' = 0 /\ inq' = [inq EXCEPT ![o] = <<>>]
          /\ IsFinal(l) /\ l.place = place + 1
          /\ ((l.class = "success" /\ ctype = "SMS") => place > 0)
      BY <2>9
    <3>2. ASSUME Waiting PROVE NoGap(o)'
      <4>1. CASE l.class = "success"
        <5>1. Counted(l)
          BY <2>2, <2>4, <4>1 DEF Counted
        <5> QED BY <1>0, <2>3, <2>4, <3>1, <3>2, <4>1, <5>1, SendCounted
      <4>2. CASE l.class = "error"
        <5>1. ~Counted(l)
          BY <4>2 DEF Counted
        <5> QED BY <1>0, <1>2, <2>3, <2>4, <3>2, <5>1, SendUncounted, CountedSame
      <4> QED BY <3>1, <4>1, <4>2 DEF IsFinal
    <3>3. inq'[o] = <<>>
      BY <3>1 DEF ThreadInv, ChannelType, ModemType
    <3>4. PlaceInv'
      BY <1>0, <1>2, <1>3, <2>2, <2>5, <3>1, <3>2, <3>3 DEF PlaceInv
    <3> QED BY <1>1, <3>4 DEF WholeInv
  <2> QED BY <2>4, <2>7, <2>8, <2>9
<1> QED BY <1>4, <1>5, <1>6 DEF ModemStep

\* readline: the lines that count move up with the others.
LEMMA WholeRead ==
  ASSUME ThreadInv, OwnInv, WholeInv, NEW o \in Opens, readline(o)
  PROVE  WholeInv'
<1>0. UNCHANGED <<cmdVars, sp_response, s_type, nopen, inq, hungup, place>> /\ rpc[o] = "read"
  BY DEF readline
<1>1. ReceivedInv' /\ AnswerIsWhole'
  BY <1>0, ReceivedSame DEF WholeInv, AnswerIsWhole
<1>2. Waiting' = Waiting /\ Received' = Received /\ first' = first
      /\ interClass(ctype)' = interClass(ctype) /\ interMax(ctype)' = interMax(ctype)
  BY <1>0 DEF Waiting, Received, first, promptLines, interClass, interMax
<1>3. /\ o = nopen
      /\ \A i \in Positions(o)' : i \in Nat /\ i + 1 \in Positions(o)
      /\ \A i \in Positions(o)' : LineAt(o, i)' = LineAt(o, i + 1)
      /\ \A i \in Positions(o) : i = 0 \/ (i \in Nat /\ i - 1 \in Positions(o)')
  BY ReadShift
<1>4. ~CountedAt(o, 0)
  BY <1>0 DEF CountedAt, Counted, LineAt, noLine, OwnInv, HungupInv
<1>5. \A i \in Positions(o)' : CountedAt(o, i)' => CountedAt(o, i + 1)
  BY <1>3 DEF CountedAt, Counted
<1>6. \A i \in Positions(o) : CountedAt(o, i) =>
        /\ i \in Nat /\ i - 1 \in Positions(o)' /\ CountedAt(o, i - 1)'
        /\ LineAt(o, i - 1)' = LineAt(o, i)
  <2> SUFFICES ASSUME NEW i \in Positions(o), CountedAt(o, i), NEW k, k = i - 1
               PROVE  i \in Nat /\ k \in Positions(o)' /\ CountedAt(o, k)' /\ LineAt(o, k)' = LineAt(o, i)
    OBVIOUS
  <2>1. i \in Nat /\ k \in Positions(o)'
    BY <1>3, <1>4
  <2>2. k + 1 = i
    BY <2>1
  <2>3. LineAt(o, k)' = LineAt(o, i)
    BY <1>3, <2>1, <2>2
  <2> QED BY <2>1, <2>3 DEF CountedAt, Counted
<1>7. /\ first \in {0, 1} /\ Received \in Nat /\ place \in Nat /\ interMax(ctype) \in Nat
      /\ \A i \in Positions(o) : i \in Nat /\ LineAt(o, i).place \in Nat
  BY CountType
<1>8. ASSUME NoGap(o) PROVE NoGap(o)'
  <2>1. ASSUME NEW i \in Positions(o)', CountedAt(o, i)'
        PROVE  \/ LineAt(o, i)'.place = first + Received + 1
               \/ \E j \in Positions(o)' : /\ j < i /\ CountedAt(o, j)'
                                           /\ LineAt(o, j)'.place = LineAt(o, i)'.place - 1
    <3>1. i \in Nat /\ i + 1 \in Positions(o) /\ CountedAt(o, i + 1)
          /\ LineAt(o, i)' = LineAt(o, i + 1)
      BY <1>3, <1>5, <2>1
    <3>2. CASE LineAt(o, i + 1).place = first + Received + 1
      BY <3>1, <3>2
    <3>3. CASE \E j \in Positions(o) : j < i + 1 /\ CountedAt(o, j)
                 /\ LineAt(o, j).place = LineAt(o, i + 1).place - 1
      <4>1. PICK j \in Positions(o) : j < i + 1 /\ CountedAt(o, j)
                 /\ LineAt(o, j).place = LineAt(o, i + 1).place - 1
        BY <3>3
      <4>2. j \in Nat /\ j - 1 \in Positions(o)' /\ CountedAt(o, j - 1)'
            /\ LineAt(o, j - 1)' = LineAt(o, j)
        BY <1>6, <4>1
      <4>3. j - 1 < i
        BY <3>1, <4>1, <4>2
      <4> QED BY <3>1, <4>1, <4>2, <4>3
    <3> QED BY <1>8, <3>1, <3>2, <3>3 DEF NoGap
  <2>2. ASSUME NEW i \in Positions(o)', NEW j \in Positions(o)', i < j,
               CountedAt(o, i)', CountedAt(o, j)'
        PROVE  LineAt(o, i)'.place < LineAt(o, j)'.place
    <3>1. /\ i + 1 \in Positions(o) /\ CountedAt(o, i + 1) /\ LineAt(o, i)' = LineAt(o, i + 1)
          /\ j + 1 \in Positions(o) /\ CountedAt(o, j + 1) /\ LineAt(o, j)' = LineAt(o, j + 1)
      BY <1>3, <1>5, <2>2
    <3>2. i + 1 < j + 1
      BY <1>3, <2>2
    <3> QED BY <1>8, <3>1, <3>2 DEF NoGap
  <2>3. ASSUME NEW i \in Positions(o)', CountedAt(o, i)'
        PROVE  /\ LineAt(o, i)'.place > first + Received
               /\ LineAt(o, i)'.class # "success" =>
                    /\ LineAt(o, i)'.class = interClass(ctype)
                    /\ LineAt(o, i)'.place <= first + interMax(ctype)
    BY <1>3, <1>5, <1>8, <2>3 DEF NoGap
  <2> QED BY <1>2, <2>1, <2>2, <2>3 DEF NoGap
<1>9. ASSUME LastPlace(o) PROVE LastPlace(o)'
  <2>1. CASE \A i \in Positions(o) : ~CountedAt(o, i)
    <3>1. \A i \in Positions(o)' : ~CountedAt(o, i)'
      BY <1>3, <1>5, <2>1
    <3> QED BY <1>0, <1>2, <1>9, <2>1, <3>1 DEF LastPlace
  <2>2. CASE ~(\A i \in Positions(o) : ~CountedAt(o, i))
    <3>1. /\ place >= first
          /\ \A i \in Positions(o) : CountedAt(o, i) => LineAt(o, i).place <= place
          /\ \/ place = first + Received
             \/ \E i \in Positions(o) : CountedAt(o, i) /\ LineAt(o, i).place = place
      BY <1>9, <2>2 DEF LastPlace
    <3>2. \A i \in Positions(o)' : CountedAt(o, i)' => LineAt(o, i)'.place <= place
      BY <1>3, <1>5, <3>1
    <3>3. \/ place = first + Received
          \/ \E i \in Positions(o)' : CountedAt(o, i)' /\ LineAt(o, i)'.place = place
      <4>1. CASE \E i \in Positions(o) : CountedAt(o, i) /\ LineAt(o, i).place = place
        <5>1. PICK i \in Positions(o) : CountedAt(o, i) /\ LineAt(o, i).place = place
          BY <4>1
        <5> QED BY <1>6, <5>1
      <4> QED BY <3>1, <4>1
    <3> QED BY <1>0, <1>2, <3>1, <3>2, <3>3 DEF LastPlace
  <2> QED BY <2>1, <2>2
<1>10. PlaceInv'
  BY <1>0, <1>2, <1>3, <1>8, <1>9 DEF WholeInv, PlaceInv
<1> QED BY <1>1, <1>10 DEF WholeInv

\* processLine: the line that counts is the next one, and it is taken.
LEMMA WholeProcess ==
  ASSUME ThreadInv, OwnInv, WholeInv, NEW o \in Opens, processLine(o)
  PROVE  WholeInv'
<1>0. /\ UNCHANGED <<cmdVars, s_type, nopen, inq, hungup, place>>
      /\ rpc[o] = "line" /\ s_commandmutex = Free
  BY DEF processLine
<1>1. AnswerIsWhole' /\ first' = first
  BY <1>0 DEF WholeInv, AnswerIsWhole, first, promptLines
<1>2. /\ o = nopen /\ Positions(o)' = Positions(o) /\ LineAt(o, 0)' = noLine
      /\ \A i \in Positions(o) : i # 0 => LineAt(o, i)' = LineAt(o, i)
  BY ProcessLines
<1>3. cpc # "written" /\ ~Finished(o)
  BY <1>0 DEF ThreadInv, CommandInv, MutexInv, Locked, Free, Command, Finished, Over
<1>4. CASE sp_response' = NULL
  <2>1. ~Waiting'
    BY <1>0, <1>3, <1>4 DEF Waiting
  <2>2. PlaceInv'
    BY <1>0, <2>1 DEF WholeInv, PlaceInv
  <2> QED BY <1>0, <1>1, <1>4, <2>2, ReceivedSame DEF WholeInv
<1>5. CASE sp_response' # NULL
  <2> DEFINE l == rline[o]
             s == sp_response.p_intermediates
  <2>0. sp_response # NULL
    BY <1>5, ReaderLeavesCommand DEF ReaderStep
  <2>1. /\ sp_response \in Responses /\ cpc \in Looping /\ Waiting /\ Busy
        /\ l \in Line /\ 0 \in Positions(o) /\ LineAt(o, 0) = l
    <3>1. sp_response \in Responses /\ cpc \in Looping
      BY <1>0, <2>0 DEF ThreadInv, ChannelType, CommandType, CommandInv, PendingInv, MutexInv,
                        Locked, Free, Command
    <3>2. l \in Line /\ 0 \in Positions(o) /\ LineAt(o, 0) = l
      BY LineType DEF ThreadInv, LineAt
    <3> QED BY <2>0, <3>1, <3>2 DEF Waiting, Busy
  <2>2. s \in Seq(Line) /\ Len(s) \in Nat /\ Received = Len(s)
    BY <2>0, <2>1 DEF Responses, Received
  <2>3. /\ first \in {0, 1} /\ Received \in Nat /\ place \in Nat /\ interMax(ctype) \in Nat
        /\ \A i \in Positions(o) : i \in Nat /\ LineAt(o, i).place \in Nat
    BY CountType
  <2>4. /\ AllOwn(o) /\ FinalLast(o) /\ NoStray(o) /\ NoGap(o)
        /\ sp_response.done => Quiet(o)
        /\ (inq[o] # <<>> /\ o \notin hungup) => LastPlace(o)
    BY <1>2, <1>3, <2>0, <2>1
       DEF OwnInv, OwnLinesInv, HungupInv, ResponseInv, WholeInv, PlaceInv
  <2>5. /\ s_type = IF ctype = "SMS" THEN "SINGLELINE" ELSE ctype
        /\ \A i \in 1 .. Len(s) : s[Len(s) - i + 1].place = first + i
        /\ (sp_response.done /\ sp_response.final.class = "success") =>
             sp_response.final.place = first + Len(s) + 1
    BY <2>0, <2>1 DEF WholeInv, ReceivedInv, Linked, s
  <2>6. Counted(l) => /\ l.place = first + Received + 1
                      /\ ~sp_response.done
                      /\ CountedAt(o, 0)
    <3>1. ASSUME Counted(l) PROVE ~sp_response.done
      BY <2>1, <2>4, <3>1 DEF Quiet, Counted
    <3>2. ASSUME Counted(l) PROVE l.place = first + Received + 1 /\ CountedAt(o, 0)
      <4>1. CountedAt(o, 0)
        BY <2>1, <3>2 DEF CountedAt
      <4>2. \A j \in Positions(o) : ~(j < 0)
        BY <2>3
      <4> QED BY <2>1, <2>4, <4>1, <4>2 DEF NoGap
    <3> QED BY <3>1, <3>2
  <2>7. l.class # "other" => l.cmd # 0
    BY <2>1, <2>4 DEF NoStray
  <2>8. \A i : i # 0 => /\ CountedAt(o, i)' = CountedAt(o, i)
                        /\ CountedAt(o, i) => LineAt(o, i)' = LineAt(o, i)
    BY <1>2 DEF CountedAt, Counted
  <2>9. ~CountedAt(o, 0)'
    BY <1>2 DEF CountedAt, Counted, noLine
  <2>10. \/ isFinalResponse(l) /\ finalLine(l)
         \/ promptLine(l) /\ l.class = "prompt"
         \/ isIntermediate(l) /\ intermediateLine(l) /\ ~isFinalResponse(l)
         \/ unsolicitedLine /\ ~isIntermediate(l) /\ ~isFinalResponse(l)
         \/ unsolicitedLine /\ l.class = "prompt"
    BY <2>0 DEF processLine
  <2> HIDE DEF l, s
  <2>11. CASE Counted(l) /\ l.class = "success"
    <3>1. finalLine(l)
      BY <2>10, <2>11 DEF isFinalResponse, isIntermediate
    <3>2. sp_response' = [sp_response EXCEPT !.final = l, !.done = TRUE]
      BY <3>1 DEF finalLine
    <3>3. sp_response'.p_intermediates = s /\ sp_response'.final = l
      BY <2>1, <3>2 DEF Responses, s
    <3>4. inq[o] = <<>> /\ \A j \in Positions(o) : j > 0 => LineAt(o, j).cmd = 0
      BY <2>1, <2>4, <2>11 DEF FinalLast, IsFinal
    <3>5. \A i : ~CountedAt(o, i)'
      <4> SUFFICES ASSUME NEW i, i # 0, CountedAt(o, i) PROVE FALSE
        BY <2>8, <2>9
      <4> QED BY <2>3, <3>4 DEF CountedAt, Counted
    <3>6. NoGap(o)'
      BY <3>5 DEF NoGap
    <3>7. PlaceInv'
      BY <1>0, <1>2, <3>4, <3>6 DEF WholeInv, PlaceInv
    <3>8. ReceivedInv'
      BY <1>0, <1>1, <2>1, <2>2, <2>5, <2>6, <2>11, <3>3 DEF ReceivedInv, Linked
    <3> QED BY <1>1, <3>7, <3>8 DEF WholeInv
  <2>12. CASE Counted(l) /\ l.class # "success"
    <3>1. l.class = interClass(ctype) /\ l.place <= first + interMax(ctype)
      BY <2>1, <2>4, <2>6, <2>12 DEF NoGap
    <3>2. Len(s) + 1 <= interMax(ctype)
      BY <2>2, <2>3, <2>6, <2>12, <3>1
    <3>3. (Len(s) = 0 => s = <<>>) /\ ctype \in ATTypes
      BY <2>2 DEF ThreadInv, ChannelType, CommandType
    <3>4. isIntermediate(l)
      <4>1. CASE ctype = "MULTILINE"
        BY <2>5, <3>1, <4>1 DEF isIntermediate, interClass
      <4>2. CASE ctype # "MULTILINE"
        <5>1. ctype # "NO_RESULT" /\ s = <<>>
          BY <2>2, <3>2, <3>3, <4>2 DEF interMax
        <5> QED BY <2>5, <3>1, <3>3, <4>2, <5>1 DEF isIntermediate, interClass, ATTypes, s
      <4> QED BY <4>1, <4>2
    <3>5. intermediateLine(l)
      BY <2>10, <3>1, <3>4 DEF isFinalResponse, interClass
    <3> DEFINE t == <<l>> \o s
    <3>6. /\ t \in Seq(Line) /\ Len(t) = Len(s) + 1 /\ t[1] = l
          /\ \A i \in 1 .. Len(s) : t[i + 1] = s[i]
      BY <2>1, <2>2, PrependType
    <3>7. sp_response' = [sp_response EXCEPT !.p_intermediates = t]
      BY <3>5 DEF intermediateLine, s
    <3> HIDE DEF t
    <3>8. sp_response'.p_intermediates = t /\ sp_response'.done = sp_response.done
      BY <2>1, <3>7 DEF Responses
    <3>9. Received' = Received + 1
      BY <1>5, <2>2, <3>6, <3>8 DEF Received
    <3>10. ReceivedInv'
      <4>1. ASSUME NEW i \in 1 .. Len(t) PROVE t[Len(t) - i + 1].place = first + i
        <5>1. CASE i = Len(t)
          <6>1. Len(t) - i + 1 = 1 /\ first + Received + 1 = first + i
            BY <2>2, <2>3, <3>6, <5>1
          <6> QED BY <2>6, <2>12, <3>6, <6>1
        <5>2. CASE i # Len(t)
          <6>1. i \in 1 .. Len(s) /\ Len(s) - i + 1 \in 1 .. Len(s)
            BY <2>2, <3>6, <5>2
          <6>2. Len(t) - i + 1 = (Len(s) - i + 1) + 1
            BY <2>2, <3>6
          <6>3. t[(Len(s) - i + 1) + 1] = s[Len(s) - i + 1]
            BY <3>6, <6>1
          <6> QED BY <2>5, <6>1, <6>2, <6>3
        <5> QED BY <5>1, <5>2
      <4> QED BY <1>0, <1>1, <2>1, <2>5, <2>6, <2>12, <3>8, <4>1 DEF ReceivedInv, Linked
    <3>11. \A i \in Positions(o) : (i # 0 /\ CountedAt(o, i)) =>
             LineAt(o, i).place > first + Received + 1
      <4> SUFFICES ASSUME NEW i \in Positions(o), i # 0, CountedAt(o, i)
                   PROVE  LineAt(o, i).place > first + Received + 1
        OBVIOUS
      <4>1. 0 < i
        BY <2>3
      <4>2. LineAt(o, 0).place < LineAt(o, i).place
        BY <2>1, <2>4, <2>6, <2>12, <4>1 DEF NoGap
      <4> QED BY <2>1, <2>3, <2>6, <2>12, <4>2
    <3>12. NoGap(o)'
      <4>1. ASSUME NEW i \in Positions(o)', CountedAt(o, i)'
            PROVE  \/ LineAt(o, i)'.place = first + Received' + 1
                   \/ \E j \in Positions(o)' : /\ j < i /\ CountedAt(o, j)'
                                               /\ LineAt(o, j)'.place = LineAt(o, i)'.place - 1
        <5>1. i # 0 /\ i \in Positions(o) /\ CountedAt(o, i) /\ LineAt(o, i)' = LineAt(o, i)
          BY <1>2, <2>8, <2>9, <4>1
        <5>2. LineAt(o, i).place # first + Received + 1
          BY <2>3, <3>11, <5>1
        <5>3. PICK j \in Positions(o) :
                j < i /\ CountedAt(o, j) /\ LineAt(o, j).place = LineAt(o, i).place - 1
          BY <2>4, <5>1, <5>2 DEF NoGap
        <5>4. CASE j = 0
          <6>1. LineAt(o, i).place - 1 = first + Received + 1
            BY <2>1, <2>6, <2>12, <5>3, <5>4
          <6>2. LineAt(o, i).place = first + (Received + 1) + 1
            BY <2>3, <5>1, <6>1
          <6> QED BY <3>9, <5>1, <6>2
        <5>5. CASE j # 0
          BY <1>2, <2>8, <5>1, <5>3, <5>5
        <5> QED BY <5>4, <5>5
      <4>2. ASSUME NEW i \in Positions(o)', NEW j \in Positions(o)', i < j,
                   CountedAt(o, i)', CountedAt(o, j)'
            PROVE  LineAt(o, i)'.place < LineAt(o, j)'.place
        <5>1. /\ i \in Positions(o) /\ CountedAt(o, i) /\ LineAt(o, i)' = LineAt(o, i)
              /\ j \in Positions(o) /\ CountedAt(o, j) /\ LineAt(o, j)' = LineAt(o, j)
          BY <1>2, <2>8, <2>9, <4>2
        <5> QED BY <2>4, <4>2, <5>1 DEF NoGap
      <4>3. ASSUME NEW i \in Positions(o)', CountedAt(o, i)'
            PROVE  /\ LineAt(o, i)'.place > first + Received'
                   /\ LineAt(o, i)'.class # "success" =>
                        /\ LineAt(o, i)'.class = interClass(ctype)
                        /\ LineAt(o, i)'.place <= first + interMax(ctype)
        <5>1. i # 0 /\ i \in Positions(o) /\ CountedAt(o, i) /\ LineAt(o, i)' = LineAt(o, i)
          BY <1>2, <2>8, <2>9, <4>3
        <5>2. LineAt(o, i).place > first + (Received + 1)
          BY <2>3, <3>11, <5>1
        <5> QED BY <2>4, <3>9, <5>1, <5>2 DEF NoGap
      <4>4. interClass(ctype)' = interClass(ctype) /\ interMax(ctype)' = interMax(ctype)
        BY <1>0 DEF interClass, interMax
      <4> QED BY <1>1, <4>1, <4>2, <4>3, <4>4 DEF NoGap
    <3>13. ASSUME LastPlace(o) PROVE LastPlace(o)'
      <4>1. /\ place >= first
            /\ \A i \in Positions(o) : CountedAt(o, i) => LineAt(o, i).place <= place
            /\ \/ place = first + Received
               \/ \E i \in Positions(o) : CountedAt(o, i) /\ LineAt(o, i).place = place
        BY <2>1, <2>6, <2>12, <3>13 DEF LastPlace
      <4>2. \A i \in Positions(o)' : CountedAt(o, i)' => LineAt(o, i)'.place <= place
        BY <1>2, <2>8, <2>9, <4>1
      <4>3. place # first + Received
        <5>1. l.place <= place
          BY <2>1, <2>6, <2>12, <4>1
        <5> QED BY <2>3, <2>6, <2>12, <5>1
      <4>4. PICK i \in Positions(o) : CountedAt(o, i) /\ LineAt(o, i).place = place
        BY <4>1, <4>3
      <4>5. \/ place = first + Received'
            \/ \E j \in Positions(o)' : CountedAt(o, j)' /\ LineAt(o, j)'.place = place
        <5>1. CASE i = 0
          <6>1. place = first + Received + 1
            BY <2>1, <2>6, <2>12, <4>4, <5>1
          <6>2. place = first + (Received + 1)
            BY <2>3, <6>1
          <6> QED BY <3>9, <6>2
        <5>2. CASE i # 0
          BY <1>2, <2>8, <4>4, <5>2
        <5> QED BY <5>1, <5>2
      <4> QED BY <1>0, <1>1, <4>1, <4>2, <4>5 DEF LastPlace
    <3>14. PlaceInv'
      BY <1>0, <1>2, <2>4, <3>12, <3>13 DEF WholeInv, PlaceInv
    <3> QED BY <1>1, <3>10, <3>14 DEF WholeInv
  <2>13. CASE ~Counted(l)
    <3>1. l.class \notin {"success", "digit", "prefix"}
      BY <2>7, <2>13 DEF Counted
    <3>2. ~isIntermediate(l)
      BY <3>1 DEF isIntermediate
    <3>3. /\ sp_response'.p_intermediates = s
          /\ \/ sp_response' = sp_response
             \/ sp_response'.final.class = "error"
      <4>1. CASE finalLine(l) /\ isFinalResponse(l)
        <5>1. sp_response' = [sp_response EXCEPT !.final = l, !.done = TRUE]
          BY <4>1 DEF finalLine
        <5>2. l.class = "error"
          BY <3>1, <4>1 DEF isFinalResponse
        <5> QED BY <2>1, <5>1, <5>2 DEF Responses, s
      <4>2. CASE promptLine(l) \/ unsolicitedLine
        BY <4>2 DEF promptLine, unsolicitedLine, s
      <4> QED BY <2>10, <3>2, <4>1, <4>2
    <3>4. Received' = Received
      BY <1>5, <2>2, <3>3 DEF Received
    <3>5. ~CountedAt(o, 0)
      BY <2>1, <2>13 DEF CountedAt
    <3>6. /\ \A i : CountedAt(o, i)' = CountedAt(o, i)
          /\ \A i : CountedAt(o, i) => LineAt(o, i)' = LineAt(o, i)
      <4>1. ASSUME NEW i PROVE CountedAt(o, i)' = CountedAt(o, i)
        <5>1. CASE i = 0
          BY <2>9, <3>5, <5>1 DEF CountedAt
        <5>2. CASE i # 0
          BY <2>8, <5>2
        <5> QED BY <5>1, <5>2
      <4> QED BY <2>8, <3>5, <4>1
    <3>7. NoGap(o)' /\ (LastPlace(o) => LastPlace(o)')
      BY <1>0, <2>4, <3>4, <3>6, CountedSame
    <3>8. PlaceInv'
      BY <1>0, <1>2, <2>4, <3>7 DEF WholeInv, PlaceInv
    <3>9. ReceivedInv'
      BY <1>0, <1>1, <2>1, <2>5, <3>3 DEF ReceivedInv, Linked
    <3> QED BY <1>1, <3>8, <3>9 DEF WholeInv
  <2> QED BY <2>11, <2>12, <2>13
<1> QED BY <1>4, <1>5

LEMMA WholeStep ==
  ASSUME ThreadInv, OwnInv, WholeInv, Undisturbed, [Next]_vars
  PROVE  WholeInv'
<1>1. CASE IssueNext
  BY <1>1, WholeIssue DEF IssueNext
<1>2. CASE CommandNext
  BY <1>2, WholeCommand DEF CommandNext
<1>3. CASE MainNext
  BY <1>3, WholeMain DEF MainNext
<1>4. ASSUME NEW o \in Opens, ReaderNext(o) PROVE WholeInv'
  <2>1. CASE readline(o)
    BY <2>1, WholeRead
  <2>2. CASE processLine(o)
    BY <2>2, WholeProcess
  <2>3. CASE ~readline(o) /\ ~processLine(o)
    <3>1. UNCHANGED <<wire, rline, inq, nopen, hungup, place, pendVars, cmdVars>>
      BY <1>4, <2>3 DEF ReaderNext, ReaderStep, readlineEof, readerCheck, readerSetClosed,
                        at_closeFd, at_closeFlag, onATReaderClosed
    <3>2. PlaceInv' /\ ReceivedInv'
      BY <3>1, PlaceSame, ReceivedSame DEF WholeInv, Waiting, Received
    <3> QED BY <3>1, <3>2 DEF WholeInv, AnswerIsWhole
  <2> QED BY <2>1, <2>2, <2>3
<1>5. ASSUME NEW o \in Opens, ModemNext(o) PROVE WholeInv'
  BY <1>5, WholeModem DEF ModemNext
<1>6. CASE UNCHANGED vars
  <2>1. PlaceInv' /\ ReceivedInv'
    BY <1>6, PlaceSame, ReceivedSame DEF vars, WholeInv, Waiting, Received
  <2> QED BY <1>6, <2>1 DEF vars, WholeInv, AnswerIsWhole
<1> QED BY <1>1, <1>2, <1>3, <1>4, <1>5, <1>6 DEF Next

\* Under the same conditions a successful answer is whole: every intermediate
\* line the modem sent before the final one, in the order it sent them.
THEOREM AnswersAreWhole ==
  ASSUME Undisturbed
  PROVE  Spec => []AnswerIsWhole
<1>1. Init => OwnInv /\ WholeInv
  BY OwnInitially, WholeInitially
<1>2. ThreadInv /\ OwnInv /\ WholeInv /\ [Next]_vars => OwnInv' /\ WholeInv'
  BY OwnStep, WholeStep
<1>3. WholeInv => AnswerIsWhole
  BY DEF WholeInv
<1> QED BY <1>1, <1>2, <1>3, ThreadsSafe, PTL DEF Spec

=============================================================================
