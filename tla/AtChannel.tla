----------------------------- MODULE AtChannel -----------------------------
(***************************************************************************)
(* The AT channel of reference-ril (reference-ril/atchannel.c): one        *)
(* command thread (libril's dispatch thread, on which every request and    *)
(* timed callback runs) writes commands and waits on s_commandcond; a      *)
(* reader thread, one for each at_open, gets lines from the modem and      *)
(* either adds them to the pending response or passes them on as           *)
(* unsolicited; mainLoop of reference-ril.c opens the channel, again after *)
(* each end of file.                                                       *)
(*                                                                         *)
(* s_commandmutex covers the pending command, except that at_open resets   *)
(* it without the lock.  A line is its class (what processLine tells       *)
(* apart), the command it answers (0 for none) and its place in the        *)
(* answer.  The modem is external.                                         *)
(***************************************************************************)
EXTENDS Integers, Sequences, FiniteSets, SequencesExt

CONSTANTS
  Types,                  \* commands the RIL issues, see ATTypes
  MaxCmds,                \* bound: commands written or refused
  MaxOpens,               \* bound: times the device can be opened
  MaxInter,               \* bound: intermediate lines of one answer
  MaxUnsol,               \* bound: unsolicited lines
  Unsols,                 \* classes of unsolicited lines
  Handshakes,             \* bound: calls of at_handshake
  HANDSHAKE_RETRY_COUNT,
  HANDSHAKE_TIMEOUT_MSEC,
  Usecs,                  \* microsecond parts gettimeofday may return
  Hangups,                \* whether the modem side may close
  Timeouts,               \* whether a timed wait may time out
  NULL

\* at_send_command (NO_RESULT), _numeric, _singleline, _multiline and _sms.
ATTypes == {"NO_RESULT", "NUMERIC", "SINGLELINE", "MULTILINE", "SMS"}
Classes == {"success", "error", "prompt", "digit", "prefix", "other"}
Opens == 1 .. MaxOpens
Cmds == 1 .. MaxCmds
Free == "free"
Command == "command"

ASSUME TypesAssumption == Types \subseteq ATTypes /\ Unsols \subseteq Classes
ASSUME AtBoundsAssumption ==
  /\ MaxCmds \in Nat /\ MaxOpens \in Nat /\ MaxInter \in Nat /\ MaxUnsol \in Nat
  /\ Handshakes \in Nat /\ HANDSHAKE_RETRY_COUNT \in Nat \ {0}
  /\ HANDSHAKE_TIMEOUT_MSEC \in Nat
ASSUME AtUsecsAssumption == Usecs \subseteq 0 .. 999999
ASSUME AtFlagsAssumption == Hangups \in BOOLEAN /\ Timeouts \in BOOLEAN
ASSUME AtNullAssumption == NULL \notin Opens

VARIABLES
  s_fd,           \* the open the descriptor is from, NULL for -1
  s_readerClosed,
  s_commandmutex,
  s_type,         \* type of the pending command
  s_smsPDU,       \* a PDU waits for the "> " prompt
  sp_response,    \* NULL, or [final, done, p_intermediates]
  woken,          \* s_commandcond was signalled while the command thread waited
  cpc, ccmd, ctype, timed, tries, tsValid,    \* the command thread
  out,            \* *pp_outResponse of its caller
  result,         \* what the latest command returned
  ncmd, nhand,    \* commands and handshakes so far
  rpc, rline,     \* reader threads: control point and the line being processed
  mpc, nopen, s_closed,    \* mainLoop
  overtaken,      \* history: commands under way when at_open reset the channel
  inq,            \* open -> commands the modem has to answer
  pdus,           \* open -> PDUs written after a prompt: the command each is for
  wire,           \* open -> lines on their way to the reader
  place,          \* lines of the current answer already sent
  hungup,         \* opens whose modem side has closed
  nunsol,
  crashed         \* a thread dereferenced a NULL sp_response

pendVars == <<s_type, s_smsPDU, sp_response>>
cmdVars == <<cpc, ccmd, ctype, timed, tries, tsValid, out, result, ncmd, nhand>>
readVars == <<rpc, rline>>
mainVars == <<mpc, nopen, s_closed, overtaken>>
modemVars == <<inq, pdus, wire, place, hungup, nunsol>>
vars == <<s_fd, s_readerClosed, s_commandmutex, pendVars, woken, cmdVars, readVars,
          mainVars, modemVars, crashed>>

noLine == [class |-> "other", cmd |-> 0, place |-> 0]
noResult == [cmd |-> 0, err |-> "ok", final |-> noLine, inter |-> <<>>,
             type |-> "NO_RESULT", handshake |-> FALSE]

Init ==
  /\ s_fd = NULL /\ s_readerClosed = FALSE /\ s_commandmutex = Free
  /\ s_type = "NO_RESULT" /\ s_smsPDU = FALSE /\ sp_response = NULL /\ woken = FALSE
  /\ cpc = "idle" /\ ccmd = 0 /\ ctype = "NO_RESULT" /\ timed = FALSE
  /\ tries = 0 /\ tsValid = TRUE /\ out = NULL /\ result = noResult
  /\ ncmd = 0 /\ nhand = 0
  /\ rpc = [o \in Opens |-> "none"] /\ rline = [o \in Opens |-> noLine]
  /\ mpc = "open" /\ nopen = 0 /\ s_closed = FALSE /\ overtaken = {}
  /\ inq = [o \in Opens |-> <<>>] /\ pdus = [o \in Opens |-> <<>>]
  /\ wire = [o \in Opens |-> <<>>] /\ place = 0 /\ hungup = {} /\ nunsol = 0
  /\ crashed = FALSE

-----------------------------------------------------------------------------
(* The command thread.                                                     *)

\* mainLoop asks for initializeCallback after its first at_open; before that
\* the radio is unavailable and no handler issues a command.  Later on, one
\* that has begun goes on while the channel is closed and opened again.
initialized == \E o \in Opens : rpc[o] # "none"

\* at_send_command and its variants: a command with no timeout.
at_send_command(t) ==
  /\ cpc = "idle" /\ initialized /\ ncmd < MaxCmds
  /\ cpc' = "lock" /\ ctype' = t /\ timed' = FALSE /\ tries' = 1
  /\ UNCHANGED <<s_fd, s_readerClosed, s_commandmutex, pendVars, woken, ccmd, tsValid,
                 result, ncmd, nhand, out, readVars, mainVars, modemVars, crashed>>

\* at_handshake: up to HANDSHAKE_RETRY_COUNT times ATE0Q0V1.
at_handshake ==
  /\ cpc = "idle" /\ initialized /\ ncmd < MaxCmds /\ nhand < Handshakes
  /\ nhand' = nhand + 1
  /\ cpc' = "lock" /\ ctype' = "NO_RESULT" /\ timed' = TRUE
  /\ tries' = HANDSHAKE_RETRY_COUNT
  /\ UNCHANGED <<s_fd, s_readerClosed, s_commandmutex, pendVars, woken, ccmd, tsValid,
                 result, ncmd, out, readVars, mainVars, modemVars, crashed>>

commandLock ==
  /\ cpc = "lock" /\ s_commandmutex = Free
  /\ s_commandmutex' = Command
  /\ cpc' = "start"
  /\ UNCHANGED <<s_fd, s_readerClosed, pendVars, woken, ccmd, ctype, timed, tries,
                 tsValid, result, ncmd, nhand, out, readVars, mainVars, modemVars, crashed>>

\* Mutant: the pending response is left behind.
clearPendingCommand_kept ==
  sp_response' = sp_response /\ s_smsPDU' = FALSE

\* Frees the response and forgets the PDU.
clearPendingCommand ==
  sp_response' = NULL /\ s_smsPDU' = FALSE

\* at_send_command_full_nolock returns err without an answer.
failCommand(n, err) ==
  /\ result' = [noResult EXCEPT !.cmd = n, !.err = err, !.type = ctype,
                                !.handshake = timed]
  /\ clearPendingCommand
  /\ cpc' = "return"

\* writeline refuses: the channel is closed.
writeRefused ==
  /\ cpc = "start"
  /\ s_fd = NULL \/ s_readerClosed
  /\ ncmd' = ncmd + 1
  /\ failCommand(ncmd + 1, "closed")
  /\ UNCHANGED <<s_fd, s_readerClosed, s_commandmutex, s_type, woken, ccmd, ctype, timed,
                 tries, tsValid, nhand, out, readVars, mainVars, modemVars, crashed>>

\* write() fails: the other side is gone and the reader has not seen it yet.
writeFailed ==
  /\ cpc = "start"
  /\ s_fd # NULL /\ ~s_readerClosed /\ s_fd \in hungup
  /\ ncmd' = ncmd + 1
  /\ failCommand(ncmd + 1, "generic")
  /\ UNCHANGED <<s_fd, s_readerClosed, s_commandmutex, s_type, woken, ccmd, ctype, timed,
                 tries, tsValid, nhand, out, readVars, mainVars, modemVars, crashed>>

writeline ==
  /\ cpc = "start"
  /\ s_fd # NULL /\ ~s_readerClosed /\ s_fd \notin hungup
  /\ ncmd' = ncmd + 1 /\ ccmd' = ncmd + 1
  /\ inq' = [inq EXCEPT ![s_fd] = Append(@, [cmd |-> ncmd + 1, type |-> ctype])]
  /\ cpc' = "written"
  /\ UNCHANGED <<s_fd, s_readerClosed, s_commandmutex, pendVars, woken, ctype, timed,
                 tries, tsValid, result, nhand, out, readVars, mainVars, pdus, wire, place,
                 hungup, nunsol, crashed>>

newResponse == [final |-> noLine, done |-> FALSE, p_intermediates |-> <<>>]

\* setTimespecRelative puts the whole sum in tv_nsec; a value of a second or
\* more is not a valid timespec.
validTimespec(usec) ==
  (usec + (HANDSHAKE_TIMEOUT_MSEC % 1000) * 1000) < 1000000

\* The pending command is set up; a timed one fixes its deadline.
armCommand ==
  /\ cpc = "written"
  /\ s_type' = IF ctype = "SMS" THEN "SINGLELINE" ELSE ctype
  /\ s_smsPDU' = (ctype = "SMS")
  /\ sp_response' = newResponse
  /\ \E usec \in Usecs : tsValid' = (timed => validTimespec(usec))
  /\ cpc' = "loop"
  /\ UNCHANGED <<s_fd, s_readerClosed, s_commandmutex, woken, ccmd, ctype, timed, tries,
                 result, ncmd, nhand, out, readVars, mainVars, modemVars, crashed>>

\* Mutant: the intermediate lines stay in the order of the list.
reverseIntermediates_none(s) == s

reverseIntermediates(s) == Reverse(s)

\* at_send_command_singleline, _numeric and _sms: success without an
\* intermediate line.
isInvalidResponse(r) ==
  /\ ctype \in {"NUMERIC", "SINGLELINE", "SMS"}
  /\ r.final.class = "success" /\ r.p_intermediates = <<>>

\* The end of at_send_command_full_nolock is a step for each access it makes to
\* what at_open may reset meanwhile.  The loop first asks for the final
\* response...
commandLoop ==
  /\ cpc = "loop" /\ sp_response # NULL
  /\ cpc' = IF sp_response.done THEN "hand" ELSE "test"
  /\ UNCHANGED <<s_fd, s_readerClosed, s_commandmutex, pendVars, woken, ccmd, ctype, timed,
                 tries, tsValid, out, result, ncmd, nhand, readVars, mainVars, modemVars,
                 crashed>>

\* ...then whether the channel has closed...
commandClosed ==
  /\ cpc = "test" /\ s_readerClosed
  /\ cpc' = "hand"
  /\ UNCHANGED <<s_fd, s_readerClosed, s_commandmutex, pendVars, woken, ccmd, ctype, timed,
                 tries, tsValid, out, result, ncmd, nhand, readVars, mainVars, modemVars,
                 crashed>>

\* ...and waits, which gives up the mutex.
commandWait ==
  /\ cpc = "test" /\ ~s_readerClosed
  /\ timed => tsValid
  /\ s_commandmutex' = Free /\ woken' = FALSE
  /\ cpc' = "wait"
  /\ UNCHANGED <<s_fd, s_readerClosed, pendVars, ccmd, ctype, timed, tries, tsValid,
                 out, result, ncmd, nhand, readVars, mainVars, modemVars, crashed>>

\* With an invalid timespec pthread_cond_timedwait returns EINVAL at once and
\* keeps the mutex; the loop takes no notice of it.
commandSpin ==
  /\ cpc = "test" /\ ~s_readerClosed
  /\ timed /\ ~tsValid
  /\ cpc' = "loop"
  /\ UNCHANGED <<s_fd, s_readerClosed, s_commandmutex, pendVars, woken, ccmd, ctype, timed,
                 tries, tsValid, out, result, ncmd, nhand, readVars, mainVars, modemVars,
                 crashed>>

\* The lines are put in order where they are; at_handshake wants no response.
commandReverse ==
  /\ cpc = "hand" /\ (sp_response # NULL \/ timed)
  /\ sp_response' = IF timed THEN sp_response
                    ELSE [sp_response EXCEPT !.p_intermediates = reverseIntermediates(@)]
  /\ cpc' = "give"
  /\ UNCHANGED <<s_fd, s_readerClosed, s_commandmutex, s_type, s_smsPDU, woken, ccmd, ctype,
                 timed, tries, tsValid, out, result, ncmd, nhand, readVars, mainVars,
                 modemVars, crashed>>

\* *pp_outResponse = sp_response, which may be gone by now.
commandGive ==
  /\ cpc = "give"
  /\ out' = IF timed THEN NULL ELSE sp_response
  /\ sp_response' = NULL
  /\ cpc' = "reread"
  /\ UNCHANGED <<s_fd, s_readerClosed, s_commandmutex, s_type, s_smsPDU, woken, ccmd, ctype,
                 timed, tries, tsValid, result, ncmd, nhand, readVars, mainVars, modemVars,
                 crashed>>

\* A caller that wants a response looks into it when the command succeeds.
noneGiven == out = NULL /\ ~timed /\ ~s_readerClosed

\* Whether the channel has closed is asked again: an error or a success.
commandReturn ==
  /\ cpc = "reread" /\ ~noneGiven
  /\ LET r == IF out = NULL THEN newResponse ELSE out
     IN result' = [cmd |-> ccmd,
                   err |-> IF s_readerClosed THEN "closed"
                           ELSE IF isInvalidResponse(r) THEN "invalid" ELSE "ok",
                   final |-> r.final, inter |-> r.p_intermediates,
                   type |-> ctype, handshake |-> timed]
  /\ clearPendingCommand
  /\ out' = NULL
  /\ cpc' = "return"
  /\ UNCHANGED <<s_fd, s_readerClosed, s_commandmutex, s_type, woken, ccmd, ctype, timed,
                 tries, tsValid, ncmd, nhand, readVars, mainVars, modemVars, crashed>>

\* sp_response, or the response of a caller, is NULL where it is looked into.
commandCrash ==
  /\ \/ cpc = "loop" /\ sp_response = NULL
     \/ cpc = "hand" /\ sp_response = NULL /\ ~timed
     \/ cpc = "reread" /\ noneGiven
  /\ crashed' = TRUE
  /\ UNCHANGED <<s_fd, s_readerClosed, s_commandmutex, pendVars, woken, cmdVars, readVars,
                 mainVars, modemVars>>

commandWake ==
  /\ cpc = "wait" /\ woken /\ s_commandmutex = Free
  /\ s_commandmutex' = Command
  /\ cpc' = "loop"
  /\ UNCHANGED <<s_fd, s_readerClosed, pendVars, woken, ccmd, ctype, timed, tries, tsValid,
                 result, ncmd, nhand, out, readVars, mainVars, modemVars, crashed>>

\* ETIMEDOUT, whatever has arrived in the meantime.
commandTimeout ==
  /\ cpc = "wait" /\ timed /\ Timeouts /\ s_commandmutex = Free
  /\ s_commandmutex' = Command
  /\ failCommand(ccmd, "timeout")
  /\ UNCHANGED <<s_fd, s_readerClosed, s_type, woken, ccmd, ctype, timed, tries, tsValid,
                 ncmd, nhand, out, readVars, mainVars, modemVars, crashed>>

\* i < HANDSHAKE_RETRY_COUNT
moreTries == tries > 1

\* at_handshake tries again, with the mutex held.
handshakeRetry ==
  /\ cpc = "return" /\ timed /\ result.err # "ok" /\ moreTries /\ ncmd < MaxCmds
  /\ tries' = tries - 1
  /\ cpc' = "start"
  /\ UNCHANGED <<s_fd, s_readerClosed, s_commandmutex, pendVars, woken, ccmd, ctype, timed,
                 tsValid, result, ncmd, nhand, out, readVars, mainVars, modemVars, crashed>>

\* The caller unlocks, at_handshake after a sleep with the mutex held.
commandUnlock ==
  /\ cpc = "return"
  /\ timed => (result.err = "ok" \/ ~moreTries \/ ncmd = MaxCmds)
  /\ s_commandmutex' = Free
  /\ cpc' = "idle" /\ ccmd' = 0 /\ timed' = FALSE /\ tries' = 0
  /\ tsValid' = TRUE /\ ctype' = "NO_RESULT"
  /\ UNCHANGED <<s_fd, s_readerClosed, pendVars, woken, result, ncmd, nhand, out, readVars,
                 mainVars, modemVars, crashed>>

CommandStep ==
  \/ commandLock \/ writeRefused \/ writeFailed \/ writeline \/ armCommand
  \/ commandLoop \/ commandClosed \/ commandWait \/ commandSpin \/ commandReverse
  \/ commandGive \/ commandReturn \/ commandCrash \/ commandWake \/ commandTimeout
  \/ handshakeRetry \/ commandUnlock

-----------------------------------------------------------------------------
(* The reader threads.                                                     *)

\* readline: the next line of whatever channel s_fd is now.
readline(o) ==
  /\ rpc[o] = "read" /\ s_fd # NULL /\ wire[s_fd] # <<>>
  /\ rline' = [rline EXCEPT ![o] = Head(wire[s_fd])]
  /\ wire' = [wire EXCEPT ![s_fd] = Tail(@)]
  /\ rpc' = [rpc EXCEPT ![o] = "line"]
  /\ UNCHANGED <<s_fd, s_readerClosed, s_commandmutex, pendVars, woken, cmdVars, mainVars,
                 inq, pdus, place, hungup, nunsol, crashed>>

\* End of file, or a descriptor that is no longer one.
readlineEof(o) ==
  /\ rpc[o] = "read"
  /\ s_fd # NULL => wire[s_fd] = <<>> /\ s_fd \in hungup
  /\ rpc' = [rpc EXCEPT ![o] = "eof"]
  /\ UNCHANGED <<s_fd, s_readerClosed, s_commandmutex, pendVars, woken, cmdVars, rline,
                 mainVars, modemVars, crashed>>

\* pthread_cond_signal: nobody but the command thread waits.
signalled == woken \/ cpc = "wait"

\* processLine, one definition per branch; the mutex is held throughout.
finalLine(l) ==
  /\ sp_response' = [sp_response EXCEPT !.final = l, !.done = TRUE]
  /\ woken' = signalled
  /\ UNCHANGED <<s_smsPDU, pdus>>

\* writeCtrlZ, if the channel is still open; s_smsPDU = NULL in any case.
promptLine(l) ==
  /\ s_smsPDU' = FALSE
  /\ pdus' = IF s_fd = NULL \/ s_readerClosed \/ s_fd \in hungup THEN pdus
             ELSE [pdus EXCEPT ![s_fd] = Append(@, ccmd)]
  /\ UNCHANGED <<sp_response, woken>>

\* The lines the switch on s_type adds to the response; strStartsWith looks at
\* the prefix alone, whoever the line is for.
isIntermediate(l) ==
  \/ s_type = "NUMERIC" /\ l.class = "digit" /\ sp_response.p_intermediates = <<>>
  \/ s_type = "SINGLELINE" /\ l.class = "prefix" /\ sp_response.p_intermediates = <<>>
  \/ s_type = "MULTILINE" /\ l.class = "prefix"

\* addIntermediate puts the line at the head of the list.
intermediateLine(l) ==
  /\ sp_response' = [sp_response EXCEPT !.p_intermediates = <<l>> \o @]
  /\ UNCHANGED <<s_smsPDU, pdus, woken>>

\* handleUnsolicited: the handler of reference-ril changes nothing here.
unsolicitedLine == UNCHANGED <<sp_response, s_smsPDU, pdus, woken>>

\* Mutant: a numeric line is taken for a final response.
isFinalResponse_digit(l) == l.class \in {"success", "error", "digit"}

isFinalResponse(l) == l.class \in {"success", "error"}

processLine(o) ==
  LET l == rline[o]
      pending == sp_response # NULL
      final == pending /\ isFinalResponse(l)
      prompt == pending /\ ~final /\ s_smsPDU /\ l.class = "prompt"
      inter == pending /\ ~final /\ ~prompt /\ isIntermediate(l)
  IN
  /\ rpc[o] = "line" /\ s_commandmutex = Free
  /\ \/ final /\ finalLine(l)
     \/ prompt /\ promptLine(l)
     \/ inter /\ intermediateLine(l)
     \/ ~final /\ ~prompt /\ ~inter /\ unsolicitedLine
  /\ rpc' = [rpc EXCEPT ![o] = "read"]
  /\ rline' = [rline EXCEPT ![o] = noLine]
  /\ UNCHANGED <<s_fd, s_readerClosed, s_commandmutex, s_type, cmdVars, mainVars, inq,
                 wire, place, hungup, nunsol, crashed>>

\* onReaderClosed looks at s_readerClosed before it locks.
readerCheck(o) ==
  /\ rpc[o] = "eof"
  /\ rpc' = [rpc EXCEPT ![o] = IF s_readerClosed THEN "done" ELSE "setClosed"]
  /\ UNCHANGED <<s_fd, s_readerClosed, s_commandmutex, pendVars, woken, cmdVars, rline,
                 mainVars, modemVars, crashed>>

\* Mutant: a waiting command is not told that the channel has closed.
closedSignal_none == woken

closedSignal == signalled

readerSetClosed(o) ==
  /\ rpc[o] = "setClosed" /\ s_commandmutex = Free
  /\ s_readerClosed' = TRUE /\ woken' = closedSignal
  /\ rpc' = [rpc EXCEPT ![o] = "closeFd"]
  /\ UNCHANGED <<s_fd, s_commandmutex, pendVars, cmdVars, rline, mainVars, modemVars,
                 crashed>>

\* onATReaderClosed calls at_close: close(s_fd), s_fd = -1, then the lock.
at_closeFd(o) ==
  /\ rpc[o] = "closeFd"
  /\ s_fd' = NULL
  /\ rpc' = [rpc EXCEPT ![o] = "closeFlag"]
  /\ UNCHANGED <<s_readerClosed, s_commandmutex, pendVars, woken, cmdVars, rline, mainVars,
                 modemVars, crashed>>

at_closeFlag(o) ==
  /\ rpc[o] = "closeFlag" /\ s_commandmutex = Free
  /\ s_readerClosed' = TRUE /\ woken' = closedSignal
  /\ rpc' = [rpc EXCEPT ![o] = "notify"]
  /\ UNCHANGED <<s_fd, s_commandmutex, pendVars, cmdVars, rline, mainVars, modemVars,
                 crashed>>

\* s_closed = 1 and the broadcast of setRadioState; the thread ends.
onATReaderClosed(o) ==
  /\ rpc[o] = "notify"
  /\ s_closed' = TRUE
  /\ rpc' = [rpc EXCEPT ![o] = "done"]
  /\ UNCHANGED <<s_fd, s_readerClosed, s_commandmutex, pendVars, woken, cmdVars, rline,
                 mpc, nopen, overtaken, modemVars, crashed>>

ReaderStep(o) ==
  \/ readline(o) \/ readlineEof(o) \/ processLine(o) \/ readerCheck(o)
  \/ readerSetClosed(o) \/ at_closeFd(o) \/ at_closeFlag(o) \/ onATReaderClosed(o)

-----------------------------------------------------------------------------
(* mainLoop and at_open, none of it under s_commandmutex.                  *)

mainOpen ==
  /\ mpc = "open" /\ nopen < MaxOpens
  /\ nopen' = nopen + 1 /\ s_closed' = FALSE
  /\ mpc' = "fd"
  /\ UNCHANGED <<s_fd, s_readerClosed, s_commandmutex, pendVars, woken, cmdVars, readVars,
                 overtaken, modemVars, crashed>>

at_openFd ==
  /\ mpc = "fd"
  /\ s_fd' = nopen
  /\ mpc' = "flag"
  /\ UNCHANGED <<s_readerClosed, s_commandmutex, pendVars, woken, cmdVars, readVars, nopen,
                 s_closed, overtaken, modemVars, crashed>>

\* The command under way, if any, that this at_open resets the channel under.
resetUnder ==
  overtaken' = overtaken \cup
    IF cpc \in {"loop", "test", "wait", "hand", "give", "reread"} THEN {ccmd} ELSE {}

at_openFlag ==
  /\ mpc = "flag"
  /\ s_readerClosed' = FALSE
  /\ resetUnder
  /\ mpc' = "pending"
  /\ UNCHANGED <<s_fd, s_commandmutex, pendVars, woken, cmdVars, readVars, nopen,
                 s_closed, modemVars, crashed>>

at_openPending ==
  /\ mpc = "pending"
  /\ s_smsPDU' = FALSE /\ sp_response' = NULL
  /\ resetUnder
  /\ mpc' = "create"
  /\ UNCHANGED <<s_fd, s_readerClosed, s_commandmutex, s_type, woken, cmdVars, readVars,
                 nopen, s_closed, modemVars, crashed>>

at_openCreate ==
  /\ mpc = "create"
  /\ rpc' = [rpc EXCEPT ![nopen] = "read"]
  /\ mpc' = "waitForClose"
  /\ UNCHANGED <<s_fd, s_readerClosed, s_commandmutex, pendVars, woken, cmdVars, rline,
                 nopen, s_closed, overtaken, modemVars, crashed>>

\* Mutant: mainLoop does not wait for the reader to be done with the channel.
closeSeen_eager == s_readerClosed

\* while (s_closed == 0)
closeSeen == s_closed

waitForClose ==
  /\ mpc = "waitForClose" /\ closeSeen
  /\ mpc' = "open"
  /\ UNCHANGED <<s_fd, s_readerClosed, s_commandmutex, pendVars, woken, cmdVars, readVars,
                 nopen, s_closed, overtaken, modemVars, crashed>>

MainStep ==
  mainOpen \/ at_openFd \/ at_openFlag \/ at_openPending \/ at_openCreate \/ waitForClose

-----------------------------------------------------------------------------
(* The modem: it answers commands in order, in its own time.               *)

send(o, class, n, k) ==
  wire' = [wire EXCEPT ![o] = Append(@, [class |-> class, cmd |-> n, place |-> k])]

\* The class of the intermediate lines a command is answered with, and how
\* many there may be.
interClass(t) == IF t = "NUMERIC" THEN "digit" ELSE "prefix"
interMax(t) == IF t = "NO_RESULT" THEN 0 ELSE IF t = "MULTILINE" THEN MaxInter ELSE 1

\* An SMS command is first answered with the prompt; the rest waits for a PDU.
modemPrompt(o) ==
  /\ inq[o] # <<>> /\ o \notin hungup
  /\ Head(inq[o]).type = "SMS" /\ place = 0
  /\ send(o, "prompt", Head(inq[o]).cmd, 0)
  /\ place' = 1
  /\ UNCHANGED <<s_fd, s_readerClosed, s_commandmutex, pendVars, woken, cmdVars, readVars,
                 mainVars, inq, pdus, hungup, nunsol, crashed>>

\* Lines sent before the intermediate ones, and whether they may follow.
promptLines(t) == IF t = "SMS" THEN 1 ELSE 0
mayAnswer(o) ==
  /\ inq[o] # <<>> /\ o \notin hungup
  /\ Head(inq[o]).type = "SMS" => place > 0 /\ pdus[o] # <<>>

modemIntermediate(o) ==
  LET c == Head(inq[o]) IN
  /\ mayAnswer(o)
  /\ place - promptLines(c.type) < interMax(c.type)
  /\ send(o, interClass(c.type), c.cmd, place + 1)
  /\ place' = place + 1
  /\ UNCHANGED <<s_fd, s_readerClosed, s_commandmutex, pendVars, woken, cmdVars, readVars,
                 mainVars, inq, pdus, hungup, nunsol, crashed>>

\* The final line: success, or an error at any point.
modemFinal(o) ==
  /\ mayAnswer(o) \/ (inq[o] # <<>> /\ o \notin hungup /\ place = 0)
  /\ \E class \in {"success", "error"} :
       /\ class = "success" => mayAnswer(o)
       /\ send(o, class, Head(inq[o]).cmd, place + 1)
  /\ inq' = [inq EXCEPT ![o] = Tail(@)]
  /\ pdus' = [pdus EXCEPT ![o] = <<>>]
  /\ place' = 0
  /\ UNCHANGED <<s_fd, s_readerClosed, s_commandmutex, pendVars, woken, cmdVars, readVars,
                 mainVars, hungup, nunsol, crashed>>

modemUnsolicited(o) ==
  /\ o = nopen /\ o \notin hungup /\ nunsol < MaxUnsol
  /\ \E class \in Unsols : send(o, class, 0, 0)
  /\ nunsol' = nunsol + 1
  /\ UNCHANGED <<s_fd, s_readerClosed, s_commandmutex, pendVars, woken, cmdVars, readVars,
                 mainVars, inq, pdus, place, hungup, crashed>>

modemHangup(o) ==
  /\ Hangups /\ o = nopen /\ o \notin hungup
  /\ hungup' = hungup \cup {o}
  /\ place' = 0
  /\ UNCHANGED <<s_fd, s_readerClosed, s_commandmutex, pendVars, woken, cmdVars, readVars,
                 mainVars, inq, pdus, wire, nunsol, crashed>>

ModemAnswer(o) == modemPrompt(o) \/ modemIntermediate(o) \/ modemFinal(o)
ModemStep(o) == ModemAnswer(o) \/ modemUnsolicited(o) \/ modemHangup(o)

-----------------------------------------------------------------------------
CommandNext == ~crashed /\ CommandStep
IssueNext == ~crashed /\ (at_handshake \/ \E t \in Types : at_send_command(t))
ReaderNext(o) == ~crashed /\ ReaderStep(o)
MainNext == ~crashed /\ MainStep
ModemNext(o) == ~crashed /\ ModemStep(o)

Next ==
  \/ IssueNext \/ CommandNext \/ MainNext
  \/ \E o \in Opens : ReaderNext(o) \/ ModemNext(o)

Spec == Init /\ [][Next]_vars

\* The threads run when they can and the modem answers what it has received.
FairSpec ==
  /\ Spec
  /\ WF_vars(CommandNext) /\ WF_vars(MainNext)
  /\ \A o \in Opens : WF_vars(ReaderNext(o))
  /\ \A o \in Opens : WF_vars(~crashed /\ ModemAnswer(o))

-----------------------------------------------------------------------------
(* Properties.                                                             *)

\* A command never finds another one pending, on any path of timeouts, errors
\* and reopenings: AT_ERROR_COMMAND_PENDING does not occur with one command
\* thread (at_send_command_full_nolock, clearPendingCommand).
NoCommandPending == cpc = "start" => sp_response = NULL

\* The answer a command returns is the modem's answer to that command: its
\* final line and every intermediate line (processLine and the hand-over in
\* at_send_command_full_nolock).  Only a command under which at_open reset the
\* channel may succeed with no final line at all: it left its loop because
\* s_readerClosed was set, and found it clear again.  The tries of a handshake
\* are all alike, so that any OK will do for them.
\* Assumed: no try times out (its late OK is taken for the answer of the next
\* command), and no unsolicited line looks like part of an answer (NO CARRIER,
\* which isFinalResponseError takes for a final response "sometimes!", or a
\* +CREG: that arrives while +CREG? is pending).
AnswerIsOwn ==
  (result.cmd # 0 /\ ~result.handshake /\ result.err \in {"ok", "invalid"}) =>
    /\ \/ result.final.cmd = result.cmd
       \/ result.final = noLine /\ result.cmd \in overtaken
    /\ \A i \in DOMAIN result.inter : result.inter[i].cmd = result.cmd

\* A successful answer is whole: all intermediate lines the modem sent before
\* the final one, in the order it sent them (addIntermediate,
\* reverseIntermediates, processLine).
AnswerIsWhole ==
  (result.err = "ok" /\ result.final.class = "success") =>
    LET first == promptLines(result.type) IN
    /\ Len(result.inter) + first + 1 = result.final.place
    /\ \A i \in DOMAIN result.inter : result.inter[i].place = first + i

\* readline's assumption of exclusive access to the descriptor: at most one
\* reader thread has the channel, from its start to the end of its at_close,
\* and it is the one of the latest open.
OneReader ==
  \A o \in Opens :
    rpc[o] \in {"read", "line", "eof", "setClosed", "closeFd", "closeFlag"} =>
      o = nopen /\ (s_fd = o \/ rpc[o] = "closeFlag")

\* Every command returns, or the RIL crashes on it: no answer, error, timeout
\* or end of file leaves the command thread waiting on s_commandcond (or the
\* whole RIL is lost).  Two kinds of command may never return, and are named:
\* one under which at_open reset the channel, which clears the s_readerClosed
\* it was to see and takes away its response; and a handshake whose deadline
\* setTimespecRelative made invalid, which spins with the mutex held.
CommandEnds ==
  cpc # "idle" ~> (cpc = "idle" \/ crashed \/ ccmd \in overtaken \/ ~tsValid)

=============================================================================
