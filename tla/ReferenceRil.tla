---------------------------- MODULE ReferenceRil ----------------------------
(* The vendor RIL of reference-ril/reference-ril.c: the main loop that opens   *)
(* the AT channel again and again, the radio state it shares with the reader  *)
(* threads of the channel and with the thread of libril's event loop, and the *)
(* request handlers, which run on that thread and wait for the modem.         *)
(* The channel itself is in AtChannel: here it is up or down, and a command   *)
(* is answered, refused, or fails because the channel goes away. The modem    *)
(* has one line for calls; the client polls the calls when it is told to.     *)
(* The build is the tree's own: nothing in it defines USE_TI_COMMANDS, so the *)
(* two workarounds and the commands that depend on it are not there.          *)
EXTENDS Naturals, Sequences

CONSTANTS MaxOpens,   \* channels the device offers at most
          Scenarios   \* what the surroundings do: see scenario

ASSUME OpensAssumption == MaxOpens \in Nat

VARIABLES scenario,   \* requests sent, channels offered one after the other,
                      \* whether they close, changes of the modem's call
          sState,     \* the radio state
          s_closed,
          main,       \* where mainLoop is
          chan, up,   \* the channel opened last, and whether it works
          reader,     \* reader thread of each channel: where onATReaderClosed is
          oldState,   \* its oldState of setRadioState
          parcel,     \* the state in the report it is about to send
          disp,       \* the event loop's thread
          timers,     \* callbacks requested and not run yet
          reported,   \* history: the radio state has been sent to the client
                      \* since it changed last
          calls,      \* the call in the modem
          events,     \* changes of it so far
          view,       \* the call list the client was given last
          poll,       \* the client is to send GET_CURRENT_CALLS
          swallowed,  \* a NO CARRIER ended a command instead of being reported
          overtaken   \* a reader thread set the state after the next open

vars == <<scenario, sState, s_closed, main, chan, up, reader, oldState, parcel, disp,
          timers, reported, calls, events, view, poll, swallowed, overtaken>>

radioVars == <<scenario, sState, s_closed, main, reported, overtaken>>

channelVars == <<chan, up, reader, oldState, parcel>>

callVars == <<calls, events, view, poll, swallowed>>

Channels == 1..MaxOpens

UNAVAILABLE == "UNAVAILABLE"

OFF == "OFF"

SIM_NOT_READY == "SIM_NOT_READY"

SIM_READY == "SIM_READY"

RadioStates == {UNAVAILABLE, OFF, SIM_NOT_READY, SIM_READY}

CallStates == {"nocall", "dialing", "alerting", "active", "incoming"}

-----------------------------------------------------------------------------
(* What the thread of the event loop still has to do, in order: set the radio *)
(* state, test it, read it for a report, send the report, complete the        *)
(* request, ask for a timer.                                                  *)
Set(s) == [op |-> "set", to |-> s]

Test(s) == [op |-> "test", to |-> s]

Report == [op |-> "report", to |-> ""]

SendReport(s) == [op |-> "send", to |-> s]

(* onRadioPowerOn, if the radio is on but the SIM not ready.                  *)
PowerOn == [op |-> "powerOn", to |-> ""]

Complete(e) == [op |-> "complete", to |-> e]

(* Completes GET_CURRENT_CALLS with a call list.                              *)
Deliver(c) == [op |-> "deliver", to |-> c]

Repoll == [op |-> "repoll", to |-> ""]

(* A NULL pointer is read or an array on the stack is overrun.                *)
Crash == [op |-> "crash", to |-> ""]

(* A handler, given the answers it has had, sends a command or is done.       *)
Do(todo) == [send |-> "no", todo |-> todo]

Send(kind) == [send |-> kind, todo |-> <<>>]

SUCCESS == <<Complete("SUCCESS")>>

FAILURE == <<Complete("GENERIC_FAILURE")>>

(* The answers: "closed" is an error of at_send_command, "error" a final      *)
(* response that is not OK, "zero" the error +CME ERROR: 0; after OK no line  *)
(* ("none"), a line that does not parse ("bad"), one that does ("ok"), and    *)
(* for the handlers with a fixed array one with more fields than the array    *)
(* has places ("long").                                                       *)
AnswersTo(kind) ==
    CASE kind = "ignored" -> {"any"}
      [] kind = "plain"   -> {"closed", "error", "ok"}
      [] kind = "line"    -> {"closed", "error", "none", "bad", "ok"}
      [] kind = "fields"  -> {"closed", "error", "none", "bad", "ok", "long"}
      [] kind = "cme"     -> {"any", "zero"}
      [] kind = "no"      -> {}
      [] kind = "calls"   -> {"closed", "error"} \cup CallStates

(* err < 0 || p_response->success == 0: for a command that expects a line,    *)
(* OK without one is the error AT_ERROR_INVALID_RESPONSE.                     *)
Failed(x) == x \in {"closed", "error", "none"}

(* The handlers that send one command and do not look at its result.          *)
Ignoring(a) == IF a = <<>> THEN Send("ignored") ELSE Do(SUCCESS)

requestDial(a) == Ignoring(a)

requestHangup(a) == Ignoring(a)

requestNdisDial(a) == Ignoring(a)

(* UDUB, ANSWER, CONFERENCE, DTMF and the three HANGUP_ and SWITCH_ requests. *)
callControl(a) == Ignoring(a)

separateConnection(party, a) == IF party = 1 THEN Ignoring(a) ELSE Do(FAILURE)

(* One line, of which a few fields are read.                                  *)
OneLine(a) ==
    IF a = <<>> THEN Send("line")
    ELSE Do(IF Failed(a[1]) \/ a[1] = "bad" THEN FAILURE ELSE SUCCESS)

requestQueryNetworkSelectionMode(a) == OneLine(a)

(* Mutant: a failed command completes the request and goes to the error exit. *)
requestSIM_IO_twice(a) ==
    IF a = <<>> THEN Send("line")
    ELSE Do(IF Failed(a[1]) THEN FAILURE \o FAILURE ELSE SUCCESS)

requestSIM_IO(a) == OneLine(a)

(* GET_IMSI, GET_IMEI and CANCEL_USSD: a numeric line, taken as it is.        *)
numericLine(a) ==
    IF a = <<>> THEN Send("line")
    ELSE Do(IF Failed(a[1]) THEN FAILURE ELSE SUCCESS)

requestSendSMS(a) == numericLine(a)

requestWriteSmsToSim(a) == numericLine(a)

deleteSmsOnSim(a) ==
    IF a = <<>> THEN Send("plain")
    ELSE Do(IF Failed(a[1]) THEN FAILURE ELSE SUCCESS)

(* A failed command completes the request before the error exit does it.      *)
requestSignalStrength(a) ==
    IF a = <<>> THEN Send("line")
    ELSE Do(CASE Failed(a[1])  -> FAILURE \o FAILURE
              [] a[1] = "bad" -> FAILURE
              [] OTHER        -> SUCCESS)

(* Twenty places for lines, none of which is parsed.                          *)
requestPortList(a) ==
    IF a = <<>> THEN Send("fields")
    ELSE Do(CASE a[1] \in {"closed", "error"} -> FAILURE \o FAILURE
              [] a[1] = "long"               -> <<Crash>>
              [] OTHER                       -> SUCCESS)

(* Ten places for fields.                                                     *)
tenFields(a) ==
    IF a = <<>> THEN Send("fields")
    ELSE Do(CASE Failed(a[1])   -> FAILURE \o FAILURE
              [] a[1] = "bad"  -> FAILURE
              [] a[1] = "long" -> <<Crash>>
              [] OTHER         -> SUCCESS)

requestPdpAddr(a) == tenFields(a)

requestDhcpInfo(a) == tenFields(a)

(* Without a response the command is sent again as one that has no line; if   *)
(* that fails too, the message printed reads the response that is not there.  *)
requestPsCsStat(a) ==
    CASE a = <<>> \/ (Len(a) = 1 /\ a[1] = "error") -> tenFields(a)
      [] Len(a) = 1 /\ a[1] \in {"bad", "long", "ok"} -> tenFields(a)
      [] Len(a) = 1 /\ a[1] \in {"closed", "none"} -> Send("plain")
      [] OTHER -> Do(CASE a[2] = "closed" -> <<Crash>>
                       [] a[2] = "error"  -> FAILURE
                       [] OTHER           -> SUCCESS)

(* Only err is looked at: the line of a command that was refused is read.     *)
requestRegistrationState(a) ==
    IF a = <<>> THEN Send("line")
    ELSE Do(CASE a[1] = "error"                    -> <<Crash>>
              [] a[1] \in {"closed", "none", "bad"} -> FAILURE
              [] OTHER                             -> SUCCESS)

(* Three places for lines; a refused command has none, which is a failure.    *)
requestOperator(a) ==
    IF a = <<>> THEN Send("fields")
    ELSE Do(CASE a[1] = "ok"   -> SUCCESS
              [] a[1] = "long" -> <<Crash>>
              [] OTHER        -> FAILURE)

(* The two successes of one exit; the label of the other follows.             *)
requestSMSAcknowledge(ack, a) ==
    IF ack \in {0, 1}
    THEN IF a = <<>> THEN Send("ignored") ELSE Do(SUCCESS \o FAILURE)
    ELSE Do(FAILURE)

(* Five commands whose result is ignored and the one that starts the data     *)
(* call; or, when there is a /dev/qmi (via), the waiting on that device.      *)
requestSetupDataCall(via, a) ==
    CASE via # 0    -> Do(IF via = 1 THEN SUCCESS ELSE FAILURE)
      [] OTHER -> IF Len(a) < 5 THEN Send("ignored")
                  ELSE IF Len(a) = 5 THEN Send("plain")
                  ELSE Do(IF Failed(a[6]) THEN FAILURE ELSE SUCCESS)

(* One string, two, or a number of them that is not accepted. OK without a    *)
(* +CPIN: line counts as a failure.                                           *)
requestEnterSimPin(strings, a) ==
    CASE strings = 0            -> Do(<<Complete("PASSWORD_INCORRECT")>>)
      [] strings > 0 /\ a = <<>> -> Send("line")
      [] OTHER -> Do(IF Failed(a[1]) THEN <<Complete("PASSWORD_INCORRECT")>>
                     ELSE SUCCESS)

(* Two lists; a request is completed, the timer's call sends the list.        *)
requestOrSendDataCallList(t, a) ==
    LET fail == Do(IF t THEN FAILURE ELSE <<>>)
    IN CASE a = <<>> -> Send("line")
         [] Len(a) \in 1..2 /\ a[Len(a)] \in {"closed", "error", "bad"} -> fail
         [] Len(a) = 1 /\ a[1] \in {"none", "ok"} -> Send("line")
         [] OTHER -> Do(IF t THEN SUCCESS ELSE <<>>)

(* Mutant: a call that rings is not looked at again.                          *)
needRepoll_ringing(c) == c \in {"dialing", "alerting"}

(* A call that is neither active nor held is looked at again after a while.   *)
needRepoll(c) == c \in {"dialing", "alerting", "incoming"}

requestGetCurrentCalls(a) ==
    IF a = <<>> THEN Send("calls")
    ELSE Do(IF Failed(a[1]) THEN FAILURE
            ELSE <<Deliver(a[1])>> \o (IF needRepoll(a[1]) THEN <<Repoll>> ELSE <<>>))

(* st is the radio state the handler reads. Whatever CFUN=1 answers, the      *)
(* radio counts as on (isRadioOn is 1 in this build).                         *)
requestRadioPower(onOff, st, a) ==
    CASE onOff = 0 /\ st # OFF ->
           (IF a = <<>> THEN Send("plain")
            ELSE Do(IF Failed(a[1]) THEN FAILURE ELSE <<Set(OFF)>> \o SUCCESS))
      [] onOff = 1 /\ st = OFF ->
           (IF a = <<>> THEN Send("ignored")
            ELSE Do(<<Set(SIM_NOT_READY)>> \o SUCCESS))
      [] OTHER -> Do(SUCCESS)

(* Asks for the SIM only when the radio is on. Every answer, an error too, is *)
(* a SIM status, which is left out; but the error "+CME ERROR: 0" is          *)
(* CME_SUCCESS, and a line there is not is read.                              *)
getSIMStatus(st, a) ==
    CASE st \in {OFF, UNAVAILABLE} -> Do(<<>>)
      [] st \notin {OFF, UNAVAILABLE} /\ a = <<>> -> Send("cme")
      [] OTHER -> Do(IF a[1] = "zero" THEN <<Crash>> ELSE <<>>)

(* Whatever the status is, the request is completed with it.                  *)
getCardStatus(st, a) ==
    LET status == getSIMStatus(st, a)
    IN IF status = Do(<<>>) THEN Do(SUCCESS) ELSE status

requestSendUSSD == Do(<<Complete("REQUEST_NOT_SUPPORTED")>>)

(* The requests, each with the values of its data that make a difference.     *)
Requests ==
    [GET_SIM_STATUS |-> {0}, GET_CURRENT_CALLS |-> {0}, DIAL |-> {0},
     HANGUP |-> {0}, ANSWER |-> {0}, CALL_CONTROL |-> {0},
     SEPARATE_CONNECTION |-> {0, 1}, SIGNAL_STRENGTH |-> {0},
     REGISTRATION_STATE |-> {0}, OPERATOR |-> {0}, RADIO_POWER |-> {0, 1},
     SEND_SMS |-> {0}, SETUP_DATA_CALL |-> {0, 1, 2},
     SMS_ACKNOWLEDGE |-> {0, 1, 2}, GET_IMSI |-> {0}, SIM_IO |-> {0},
     SEND_USSD |-> {0}, SET_NETWORK_SELECTION_AUTOMATIC |-> {0},
     DATA_CALL_LIST |-> {0}, QUERY_NETWORK_SELECTION_MODE |-> {0},
     OEM_HOOK |-> {0}, WRITE_SMS_TO_SIM |-> {0}, DELETE_SMS_ON_SIM |-> {0},
     ENTER_SIM_PIN |-> {0, 1}, SUPPORT_PORTS |-> {0}, PSCS_BIND_STATE |-> {0},
     NDIS_DIAL |-> {0}, PDP_ADDR |-> {0}, DHCP_INFO |-> {0}, OTHER_CODE |-> {0}]

(* The switch of onRequest; SET_NETWORK_SELECTION_AUTOMATIC completes nothing.*)
Handler(r, v, st, a) ==
    CASE r = "GET_SIM_STATUS"      -> getCardStatus(st, a)
      [] r = "GET_CURRENT_CALLS"   -> requestGetCurrentCalls(a)
      [] r = "DIAL"                -> requestDial(a)
      [] r = "HANGUP"              -> requestHangup(a)
      [] r \in {"ANSWER", "CALL_CONTROL"} -> callControl(a)
      [] r = "SEPARATE_CONNECTION" -> separateConnection(v, a)
      [] r = "SIGNAL_STRENGTH"     -> requestSignalStrength(a)
      [] r = "REGISTRATION_STATE"  -> requestRegistrationState(a)
      [] r = "OPERATOR"            -> requestOperator(a)
      [] r = "RADIO_POWER"         -> requestRadioPower(v, st, a)
      [] r = "SEND_SMS"            -> requestSendSMS(a)
      [] r = "SETUP_DATA_CALL"     -> requestSetupDataCall(v, a)
      [] r = "SMS_ACKNOWLEDGE"     -> requestSMSAcknowledge(v, a)
      [] r = "GET_IMSI"            -> numericLine(a)
      [] r = "SIM_IO"              -> requestSIM_IO(a)
      [] r = "SEND_USSD"           -> requestSendUSSD
      [] r = "SET_NETWORK_SELECTION_AUTOMATIC" ->
           IF a = <<>> THEN Send("ignored") ELSE Do(<<>>)
      [] r = "DATA_CALL_LIST"      -> requestOrSendDataCallList(TRUE, a)
      [] r = "onDataCallListChanged" -> requestOrSendDataCallList(FALSE, a)
      [] r = "QUERY_NETWORK_SELECTION_MODE" ->
           requestQueryNetworkSelectionMode(a)
      [] r = "OEM_HOOK"            -> Do(SUCCESS)
      [] r = "WRITE_SMS_TO_SIM"    -> requestWriteSmsToSim(a)
      [] r = "DELETE_SMS_ON_SIM"   -> deleteSmsOnSim(a)
      [] r = "ENTER_SIM_PIN"       -> requestEnterSimPin(v, a)
      [] r = "SUPPORT_PORTS"       -> requestPortList(a)
      [] r = "PSCS_BIND_STATE"     -> requestPsCsStat(a)
      [] r = "NDIS_DIAL"           -> requestNdisDial(a)
      [] r = "PDP_ADDR"            -> requestPdpAddr(a)
      [] r = "DHCP_INFO"           -> requestDhcpInfo(a)
      [] r = "OTHER_CODE"          -> Do(<<Complete("REQUEST_NOT_SUPPORTED")>>)

-----------------------------------------------------------------------------
Idle == [pc |-> "idle", req |-> "", val |-> 0, st |-> UNAVAILABLE, a |-> <<>>,
         todo |-> <<>>, on |-> 0, count |-> 0]

Init ==
    /\ scenario \in Scenarios
    /\ sState = UNAVAILABLE
    /\ s_closed = 0
    /\ main = "open"
    /\ chan = 0
    /\ up = FALSE
    /\ reader = [c \in Channels |-> "none"]
    /\ oldState = [c \in Channels |-> UNAVAILABLE]
    /\ parcel = [c \in Channels |-> UNAVAILABLE]
    /\ disp = Idle
    /\ timers = [init |-> 0, calls |-> FALSE, data |-> FALSE]
    /\ reported = TRUE
    /\ calls = "nocall"
    /\ events = 0
    /\ view = "nocall"
    /\ poll = FALSE
    /\ swallowed = FALSE
    /\ overtaken = FALSE

(* Mutants: the state is set although the channel is closed; whoever waits is *)
(* woken only by a change of the state.                                       *)
stateToSet_anyway(s) == s

wakes_changed(s) == sState # s

(* Inside the mutex of setRadioState: while closed the state stays            *)
(* unavailable, and whoever waits for the close is woken.                     *)
stateToSet(s) == IF s_closed > 0 THEN UNAVAILABLE ELSE s

wakes(s) == sState # s \/ s_closed > 0

setRadioState(s) ==
    LET new == stateToSet(s)
    IN /\ sState' = new
       /\ reported' = (reported /\ new = sState)
       /\ main' = IF wakes(new) /\ main = "wait" THEN "check" ELSE main

(* RADIO_STATE_CHANGED goes out with the state s that libril read, perhaps a  *)
(* while ago, when it built the response; when the radio is ready the client  *)
(* looks at the calls.                                                        *)
sendResponse(s) ==
    /\ reported' = (reported \/ s = sState)
    /\ poll' = (poll \/ s = SIM_READY)

-----------------------------------------------------------------------------
(* mainLoop. *)

(* Mutant: s_closed stays set.                                                *)
mainOpen_closed == /\ main = "open"
                   /\ chan < scenario.opens
                   /\ main' = "at_open"
                   /\ UNCHANGED <<scenario, sState, s_closed, reported, overtaken>>
                   /\ UNCHANGED <<disp, timers, channelVars, callVars>>

mainOpen == /\ main = "open"
            /\ chan < scenario.opens
            /\ s_closed' = 0
            /\ main' = "at_open"
            /\ UNCHANGED <<scenario, sState, reported, overtaken, disp, timers>>
            /\ UNCHANGED <<channelVars, callVars>>

mainAtOpen == /\ main = "at_open"
              /\ chan' = chan + 1
              /\ up' = TRUE
              /\ reader' = [reader EXCEPT ![chan + 1] = "read"]
              /\ main' = "timer"
              /\ UNCHANGED <<scenario, sState, s_closed, reported, overtaken, oldState,
                             parcel, disp, timers, callVars>>

mainTimer == /\ main = "timer"
             /\ timers' = [timers EXCEPT !.init = @ + 1]
             /\ main' = "check"
             /\ UNCHANGED <<scenario, sState, s_closed, reported, overtaken, disp>>
             /\ UNCHANGED <<channelVars, callVars>>

(* After the sleep, and whenever woken.                                       *)
waitForClose == /\ main = "check"
                /\ main' = IF s_closed = 0 THEN "wait" ELSE "open"
                /\ UNCHANGED <<scenario, sState, s_closed, reported, overtaken, disp, timers>>
                /\ UNCHANGED <<channelVars, callVars>>

-----------------------------------------------------------------------------
(* The reader thread of a channel. *)

(* End of file on the device: the reader thread calls at_close.               *)
readerEof(c) == /\ reader[c] = "read"
                /\ scenario.closes
                /\ reader' = [reader EXCEPT ![c] = "eof"]
                /\ up' = FALSE
                /\ UNCHANGED <<radioVars, chan, oldState, parcel, disp, timers, callVars>>

(* onATReaderClosed. *)
readerClosed(c) == /\ reader[c] = "eof"
                   /\ reader' = [reader EXCEPT ![c] = "set"]
                   /\ s_closed' = 1
                   /\ UNCHANGED <<scenario, sState, main, reported, overtaken, chan, up>>
                   /\ UNCHANGED <<oldState, parcel, disp, timers, callVars>>

readerSet(c) == /\ reader[c] = "set"
                /\ reader' = [reader EXCEPT ![c] = "test"]
                /\ oldState' = [oldState EXCEPT ![c] = sState]
                /\ setRadioState(UNAVAILABLE)
                /\ overtaken' = (overtaken \/ chan # c \/ main = "at_open")
                /\ UNCHANGED <<scenario, s_closed, chan, up, parcel, disp, timers>>
                /\ UNCHANGED callVars

(* Mutant: the reader thread does not report.                                 *)
readerTest_silent(c) == /\ reader[c] = "test"
                        /\ reader' = [reader EXCEPT ![c] = "gone"]
                        /\ UNCHANGED <<radioVars, chan, up, oldState, parcel, disp, timers>>
                        /\ UNCHANGED callVars

readerTest(c) == /\ reader[c] = "test"
                 /\ reader' = [reader EXCEPT ![c] =
                                 IF sState # oldState[c] THEN "report" ELSE "gone"]
                 /\ oldState' = [oldState EXCEPT ![c] = UNAVAILABLE]
                 /\ UNCHANGED <<radioVars, chan, up, parcel, disp, timers>>
                 /\ UNCHANGED callVars

(* RIL_onUnsolicitedResponse reads the state; sendResponse comes later, once  *)
(* it has s_writeMutex.                                                       *)
readerReport(c) == /\ reader[c] = "report"
                   /\ reader' = [reader EXCEPT ![c] = "send"]
                   /\ parcel' = [parcel EXCEPT ![c] = sState]
                   /\ UNCHANGED <<radioVars, chan, up, oldState, disp, timers>>
                   /\ UNCHANGED callVars

readerSend(c) == /\ reader[c] = "send"
                 /\ reader' = [reader EXCEPT ![c] = "sent"]
                 /\ parcel' = [parcel EXCEPT ![c] = UNAVAILABLE]
                 /\ sendResponse(parcel[c])
                 /\ UNCHANGED <<scenario, sState, s_closed, main, overtaken, chan, up>>
                 /\ UNCHANGED <<oldState, disp, timers, calls, events, view, swallowed>>

(* The state is looked at again: when the channel was opened again meanwhile, *)
(* it may be one that makes setRadioState call onRadioPowerOn on this thread. *)
readerSent(c) == /\ reader[c] = "sent"
                 /\ reader' = [reader EXCEPT ![c] =
                                 IF sState = SIM_NOT_READY THEN "powerOn" ELSE "gone"]
                 /\ UNCHANGED <<radioVars, chan, up, oldState, parcel, disp, timers>>
                 /\ UNCHANGED callVars

(* onRadioPowerOn, pollSIMState, setRadioState.                               *)
readerPowerOn(c) == /\ reader[c] = "powerOn"
                    /\ reader' = [reader EXCEPT ![c] = "test"]
                    /\ oldState' = [oldState EXCEPT ![c] = sState]
                    /\ setRadioState(SIM_READY)
                    /\ UNCHANGED <<scenario, s_closed, overtaken, chan, up, parcel>>
                    /\ UNCHANGED <<disp, timers, callVars>>

-----------------------------------------------------------------------------
(* The thread of the event loop. *)

Enter(r, v) == [Idle EXCEPT !.pc = "enter", !.req = r, !.val = v]

(* The first two tests of onRequest.                                          *)
refused(r) ==
    \/ sState = UNAVAILABLE /\ r # "GET_SIM_STATUS"
    \/ sState = OFF /\ r \notin {"RADIO_POWER", "GET_SIM_STATUS"}

onRequest(r, v) ==
    /\ disp.pc = "idle"
    /\ r \in scenario.requests
    /\ r = "GET_CURRENT_CALLS" => poll
    /\ poll' = (poll /\ r # "GET_CURRENT_CALLS")
    /\ disp' = IF refused(r)
               THEN [Idle EXCEPT !.pc = "todo", !.req = r, !.val = v,
                                 !.todo = <<Complete("RADIO_NOT_AVAILABLE")>>]
               ELSE Enter(r, v)
    /\ UNCHANGED <<radioVars, channelVars, timers, calls, events, view>>
    /\ UNCHANGED swallowed

(* The handler goes as far as its next command, or to its end.                *)
Resume(d) ==
    LET h == Handler(d.req, d.val, d.st, d.a)
    IN IF h.send = "no" THEN [d EXCEPT !.pc = "todo", !.todo = h.todo]
       ELSE [d EXCEPT !.pc = "command", !.on = chan]

begin == /\ disp.pc = "enter"
         /\ disp' = Resume([disp EXCEPT !.st = sState])
         /\ UNCHANGED <<radioVars, channelVars, timers, callVars>>

Pending == IF disp.pc = "command"
           THEN Handler(disp.req, disp.val, disp.st, disp.a).send
           ELSE "no"

(* The channel the command was written to, or would be, has gone.             *)
ChannelGone == ~up \/ disp.on # chan

(* What the modem does for a command it accepts.                              *)
modemDoes(r) ==
    CASE r = "DIAL" /\ calls = "nocall"     -> "dialing"
      [] r = "HANGUP"                       -> "nocall"
      [] r = "ANSWER" /\ calls = "incoming" -> "active"
      [] OTHER                              -> calls

(* AT+CLCC lists the call as it is at that moment.                            *)
answer(x) ==
    LET acts == modemDoes(disp.req) # calls /\ events < scenario.events
    IN /\ disp.pc = "command"
       /\ x \in AnswersTo(Pending)
       /\ IF ChannelGone THEN x \in {"closed", "any"} ELSE x # "closed"
       /\ x \in CallStates => x = calls
       /\ disp' = Resume([disp EXCEPT !.a = Append(@, x)])
       /\ IF acts /\ ~ChannelGone
          THEN calls' = modemDoes(disp.req) /\ events' = events + 1
          ELSE UNCHANGED <<calls, events>>
       /\ UNCHANGED <<radioVars, channelVars, timers, view, poll, swallowed>>

-----------------------------------------------------------------------------
(* One thing of what is left to do. *)

Doing(op) == disp.pc = "todo" /\ disp.todo # <<>> /\ Head(disp.todo).op = op

Then(items) == disp' = [disp EXCEPT !.todo = items \o Tail(@)]

doSet == /\ Doing("set")
         /\ setRadioState(Head(disp.todo).to)
         /\ Then(<<Test(sState)>>)
         /\ UNCHANGED <<scenario, s_closed, overtaken, channelVars, timers>>
         /\ UNCHANGED callVars

(* The state may have changed again since it was set.                         *)
doTest == /\ Doing("test")
          /\ Then(IF sState # Head(disp.todo).to THEN <<Report, PowerOn>> ELSE <<>>)
          /\ UNCHANGED <<radioVars, channelVars, timers, callVars>>

doReport == /\ Doing("report")
            /\ Then(<<SendReport(sState)>>)
            /\ UNCHANGED <<radioVars, channelVars, timers, callVars>>

doSend == /\ Doing("send")
          /\ sendResponse(Head(disp.todo).to)
          /\ Then(<<>>)
          /\ UNCHANGED <<scenario, sState, s_closed, main, overtaken, channelVars, timers>>
          /\ UNCHANGED <<calls, events, view, swallowed>>

(* onRadioPowerOn calls pollSIMState, which does not look at the SIM in this  *)
(* build; onSIMReady does nothing.                                            *)
pollSIMState == /\ Doing("powerOn")
                /\ Then(IF sState = SIM_NOT_READY THEN <<Set(SIM_READY)>> ELSE <<>>)
                /\ UNCHANGED <<radioVars, channelVars, timers, callVars>>

(* "It will call GET_CURRENT_CALLS and determine success that way", says the  *)
(* code of the upper layer; that also polls again when a poll failed, and     *)
(* when the radio is not available waits for it to be.                        *)
pollsAfter(r, e) ==
    \/ r \in {"DIAL", "HANGUP", "ANSWER", "CALL_CONTROL"}
    \/ r = "GET_CURRENT_CALLS" /\ e = "GENERIC_FAILURE"

doComplete == /\ \/ Doing("complete")
                 \/ Doing("deliver")
              /\ disp' = [disp EXCEPT !.todo = Tail(@), !.count = @ + 1]
              /\ view' = IF Doing("deliver") THEN Head(disp.todo).to ELSE view
              /\ poll' = (poll \/ pollsAfter(disp.req, Head(disp.todo).to))
              /\ UNCHANGED <<radioVars, channelVars, timers, calls, events>>
              /\ UNCHANGED swallowed

doRepoll == /\ Doing("repoll")
            /\ Then(<<>>)
            /\ timers' = [timers EXCEPT !.calls = TRUE]
            /\ UNCHANGED <<radioVars, channelVars, callVars>>

crash == /\ Doing("crash")
         /\ disp' = [disp EXCEPT !.pc = "crashed"]
         /\ UNCHANGED <<radioVars, channelVars, timers, callVars>>

Returned == disp.pc = "todo" /\ disp.todo = <<>>

return == /\ Returned
          /\ disp' = Idle
          /\ UNCHANGED <<radioVars, channelVars, timers, callVars>>

-----------------------------------------------------------------------------
(* The callbacks of the timers, on the same thread. *)

initializeCallback ==
    /\ disp.pc = "idle"
    /\ timers.init > 0
    /\ timers' = [timers EXCEPT !.init = @ - 1]
    /\ disp' = [Idle EXCEPT !.pc = "todo", !.req = "initializeCallback",
                            !.todo = <<Set(OFF), Set(SIM_NOT_READY)>>]
    /\ UNCHANGED <<radioVars, channelVars, callVars>>

(* CALL_STATE_CHANGED: the client will look at the calls.                     *)
sendCallStateChanged ==
    /\ disp.pc = "idle"
    /\ timers.calls
    /\ timers' = [timers EXCEPT !.calls = FALSE]
    /\ poll' = TRUE
    /\ UNCHANGED <<radioVars, channelVars, disp, calls, events, view, swallowed>>

onDataCallListChanged ==
    /\ disp.pc = "idle"
    /\ timers.data
    /\ timers' = [timers EXCEPT !.data = FALSE]
    /\ disp' = Enter("onDataCallListChanged", 0)
    /\ UNCHANGED <<radioVars, channelVars, callVars>>

-----------------------------------------------------------------------------
(* The modem, and onUnsolicited on the reader thread for the lines it sends.  *)

Listening == up /\ disp.pc # "crashed" /\ sState # UNAVAILABLE

(* The call changes and the modem says nothing.                               *)
callMoves == /\ events < scenario.events
             /\ disp.pc # "crashed"
             /\ events' = events + 1
             /\ \/ calls = "dialing"  /\ calls' = "alerting"
                \/ calls = "alerting" /\ calls' = "active"
                \/ calls = "incoming" /\ calls' = "nocall"
             /\ UNCHANGED <<radioVars, channelVars, disp, timers, view, poll, swallowed>>

(* What onUnsolicited does about a call's line: CALL_STATE_CHANGED.           *)
tellsOfCall == poll' = (poll \/ Listening)

(* RING, +CRING: or +CCWA.                                                    *)
ring == /\ events < scenario.events
        /\ disp.pc # "crashed"
        /\ calls = "nocall"
        /\ calls' = "incoming"
        /\ events' = events + 1
        /\ tellsOfCall
        /\ UNCHANGED <<radioVars, channelVars, disp, timers, view, swallowed>>

(* NO CARRIER is a final response: a pending command ends with it, and then   *)
(* nobody is told.                                                            *)
takenForAnswer == disp.pc = "command" /\ ~ChannelGone

noCarrier ==
    /\ events < scenario.events
    /\ disp.pc # "crashed"
    /\ calls = "active"
    /\ calls' = "nocall"
    /\ events' = events + 1
    /\ IF takenForAnswer
       THEN /\ \E x \in AnswersTo(Pending) \cap {"any", "error"} :
                  disp' = Resume([disp EXCEPT !.a = Append(@, x)])
            /\ swallowed' = TRUE
            /\ UNCHANGED poll
       ELSE /\ tellsOfCall
            /\ UNCHANGED <<disp, swallowed>>
    /\ UNCHANGED <<radioVars, channelVars, timers, view>>

(* +CGEV. AT commands may not be sent on this thread, hence the timer;        *)
(* another one due before it makes no difference.                             *)
dataCallEvent == /\ Listening
                 /\ "onDataCallListChanged" \in scenario.requests
                 /\ ~timers.data
                 /\ timers' = [timers EXCEPT !.data = TRUE]
                 /\ UNCHANGED <<radioVars, channelVars, disp, callVars>>

-----------------------------------------------------------------------------
Alive(A) == disp.pc # "crashed" /\ A

mainLoop == mainOpen \/ mainAtOpen \/ mainTimer \/ waitForClose

onATReaderClosed(c) ==
    \/ readerClosed(c) \/ readerSet(c) \/ readerTest(c) \/ readerReport(c)
    \/ readerSend(c) \/ readerSent(c) \/ readerPowerOn(c)

handling == \/ begin
            \/ \E x \in AnswersTo(Pending) : answer(x)
            \/ doSet \/ doTest \/ doReport \/ doSend \/ pollSIMState
            \/ doComplete \/ doRepoll \/ return

Next == \/ Alive(mainLoop)
        \/ \E c \in Channels : Alive(readerEof(c)) \/ Alive(onATReaderClosed(c))
        \/ \E r \in DOMAIN Requests : \E v \in Requests[r] : onRequest(r, v)
        \/ handling
        \/ crash
        \/ initializeCallback
        \/ sendCallStateChanged
        \/ onDataCallListChanged
        \/ callMoves
        \/ ring
        \/ noCarrier
        \/ dataCallEvent

(* The threads run, the event loop serves its timers and the client whatever  *)
(* else there is to do, and the modem does not refuse AT+CLCC for ever.       *)
Fairness ==
    /\ WF_vars(Alive(mainLoop))
    /\ \A c \in Channels : WF_vars(Alive(onATReaderClosed(c)))
    /\ WF_vars(handling)
    /\ SF_vars(initializeCallback)
    /\ SF_vars(sendCallStateChanged)
    /\ SF_vars(onRequest("GET_CURRENT_CALLS", 0))
    /\ SF_vars(\E x \in CallStates : answer(x))

Spec == Init /\ [][Next]_vars /\ Fairness

-----------------------------------------------------------------------------
(* Properties.                                                                *)

(* "If we're closed, the only reasonable state is RADIO_STATE_UNAVAILABLE":   *)
(* once the reader thread has set it after a close, no later setRadioState of *)
(* the dispatch thread, whatever it was about to set, undoes it until the     *)
(* channel is opened again.                                                   *)
ClosedMeansUnavailable ==
    s_closed = 1 /\ (\A c \in Channels : reader[c] # "set") =>
        sState = UNAVAILABLE

(* The two threads that set the state compare it and report it after the      *)
(* mutex is released, and the state that goes out is read before the lock     *)
(* that orders the reports. Still, whatever the interleaving, no change goes  *)
(* untold: when neither thread is about to, the state as it is has been sent  *)
(* since it changed last. (A stale report of the other thread may have come   *)
(* after that, and then nobody corrects it.)                                  *)
EveryChangeReported ==
    \/ reported
    \/ Doing("test") \/ Doing("report") \/ Doing("send")
    \/ \E c \in Channels : reader[c] \in {"test", "report", "send"}

(* What a handler does to its request on the answers it had, where it is not  *)
(* the one completion onRequest owes: a request nobody completes, requests    *)
(* completed twice when the command failed or the SMS was acknowledged, and   *)
(* the answers that bring the daemon down.                                    *)
NeverCompleted == {"SET_NETWORK_SELECTION_AUTOMATIC"}

Twice(r, v, a) ==
    \/ r = "SMS_ACKNOWLEDGE" /\ v \in {0, 1}
    \/ r \in {"SIGNAL_STRENGTH", "SUPPORT_PORTS", "PDP_ADDR", "DHCP_INFO"}
         /\ a # <<>> /\ Failed(a[1])
    \/ r = "PSCS_BIND_STATE" /\ a = <<"error">>

CrashesOn(r, a) ==
    \/ r = "REGISTRATION_STATE" /\ a = <<"error">>
    \/ r = "GET_SIM_STATUS" /\ a = <<"zero">>
    \/ r = "PSCS_BIND_STATE" /\ Len(a) = 2 /\ a[2] = "closed"
    \/ r \in {"OPERATOR", "SUPPORT_PORTS", "PSCS_BIND_STATE", "PDP_ADDR",
               "DHCP_INFO"} /\ a = <<"long">>

(* Every other request is completed exactly once, by whatever way its handler *)
(* is left and whatever the modem answers or the channel does on the way.     *)
CompletedOnce ==
    /\ Returned /\ disp.req \in DOMAIN Requests =>
         CASE disp.todo = <<>> /\ disp.count = 0 -> disp.req \in NeverCompleted
           [] disp.count = 2 -> Twice(disp.req, disp.val, disp.a)
           [] OTHER -> disp.count = 1
    /\ disp.pc = "crashed" => CrashesOn(disp.req, disp.a)

(* A closed channel is opened again (while the device offers one): the wake   *)
(* of waitForClose is not lost although s_closed is set outside the mutex.    *)
Reopened ==
    s_closed = 1 /\ chan < scenario.opens ~> s_closed = 0 \/ disp.pc = "crashed"

(* A channel that stays open gets the radio out of the unavailable state,     *)
(* unless the reader thread of an earlier channel was so late with its        *)
(* setRadioState that the channel was already open again.                     *)
AvailableWhenOpen ==
    <>[](up /\ disp.pc # "crashed") =>
        \/ <>overtaken
        \/ <>[](sState # UNAVAILABLE)

(* Between polls the call changes without a word from the modem. When it has  *)
(* come to rest and the radio is ready, the client gets to know how it is,    *)
(* unless a NO CARRIER was taken for the answer of a command.                 *)
CallsConverge ==
    <>[](sState = SIM_READY /\ up /\ disp.pc # "crashed") =>
        \/ <>swallowed
        \/ <>[](view = calls)
=============================================================================
