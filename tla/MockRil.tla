------------------------------- MODULE MockRil -------------------------------
(***************************************************************************)
(* mock-ril: a vendor RIL whose radio, SIM card and control server are     *)
(* JavaScript (js/*.js) run by V8.  A request of the framework goes        *)
(* through RilRequestWorkerQueue (cpp/requests.cpp) and onRilRequest to    *)
(* the worker of the component that answers it; a command of a test        *)
(* program comes in over the socket of CtrlServerThread                    *)
(* (cpp/ctrl_server.cpp).  Every thread holds the V8 lock while it runs    *)
(* JavaScript, so a handler is one step; the control server also holds it  *)
(* while it waits for the rest of a message.                               *)
(*                                                                         *)
(* A queue hands over what was added to it, in order, until Process gets   *)
(* another pointer than the one taken (WorkerQueue!ProcessedAsTaken fails: *)
(* worker.cpp:181-184 reads the record after its release).  That is the    *)
(* step mishand; what the program does after it is not modelled, and the   *)
(* liveness properties promise nothing then.                               *)
(***************************************************************************)
EXTENDS Integers, Sequences, MockMessages

CONSTANTS
  maxNumberActiveCalls,    \* 7
  maxConnectionsPerCall,   \* 5
  Scenarios,               \* what framework and control client may do: which
                           \* request first, which next, and so on; whether the
                           \* framework waits for one answer before it goes on
  MaxRequests,             \* the most requests of any scenario
  MaxCommands              \* the most control commands of any scenario

ASSUME CallLimits ==
  maxNumberActiveCalls \in Nat \ {0} /\ maxConnectionsPerCall \in Nat \ {0}

ASSUME ScenarioLimits ==
  \A s \in Scenarios : Len(s.ril) <= MaxRequests /\ Len(s.ctrl) <= MaxCommands

VARIABLES
  scenario,     \* the scenario of this behaviour; never changes
  radio,        \* the variables of Radio()
  lastReq,      \* the last request number below 200
  gRadioState,
  rilQ,         \* RilRequestWorkerQueue
  radioQ,       \* simulatedRadioWorker: what is ready, in order
  delayedQ,     \* and what is delayed, by the time that is left
  iccQ,         \* simulatedIccWorker
  ctrlQ,        \* ctrlWorker
  ctrlpc,       \* CtrlServerThread::Worker: "accept", "client" or "reading"
  conn,         \* the clients accepted so far
  incoming,     \* the message being read
  sent,         \* [ril, ctrl]: requests and commands sent so far
  answers,      \* [ril, ctrl]: how often each of them was answered
  told,         \* what the framework was told in the last step
  mishanded     \* Process of a queue got another pointer than the one taken

queueVars == <<rilQ, radioQ, delayedQ, iccQ, ctrlQ>>
ctrlVars == <<ctrlpc, conn, incoming>>
vars == <<scenario, mishanded, radio, lastReq, gRadioState, queueVars, ctrlVars, sent, answers,
          told>>

-----------------------------------------------------------------------------
(* The calls of the simulated radio.  Whether a call has been announced    *)
(* (rung) is history.                                                      *)

Indices == 1 .. maxNumberActiveCalls
undefined == [state |-> "none", rung |-> FALSE]
RilCallOf(state) == [state |-> state, rung |-> FALSE]
CallStates == {"ACTIVE", "HOLDING", "DIALING", "ALERTING", "INCOMING", "WAITING"}

Present(r) == {i \in Indices : r.calls[i] # undefined}
Least(S) == CHOOSE i \in S : \A j \in S : i <= j
getCallsInState(r, state) == {i \in Indices : r.calls[i].state = state}

\* The index of the call that addCall makes: none when there are too many, 0
\* when every element is taken.
newIndex(r) ==
  IF r.numberActiveCalls >= maxNumberActiveCalls THEN -1
  ELSE IF Present(r) = Indices THEN 0 ELSE Least(Indices \ Present(r))

addCall(r, state) ==
  [r EXCEPT !.numberActiveCalls = IF newIndex(r) = -1 THEN @ ELSE @ + 1,
            !.calls = [i \in Indices |-> IF i = newIndex(r) THEN RilCallOf(state) ELSE @[i]]]

\* Mutant: removeCall forgets to count.
removeCalls_uncounted(r, S) ==
  [r EXCEPT !.calls = [i \in Indices |-> IF i \in S THEN undefined ELSE @[i]]]

\* removeCall for each of S.
removeCalls(r, S) ==
  [r EXCEPT !.numberActiveCalls = @ - Cardinality(S),
            !.calls = [i \in Indices |-> IF i \in S THEN undefined ELSE @[i]]]

removable(r, i) == r.numberActiveCalls > 0 /\ i \in Present(r)

setState(r, S, state) ==
  [r EXCEPT !.calls = [i \in Indices |-> IF i \in S THEN [@[i] EXCEPT !.state = state] ELSE @[i]]]

\* The loops over the calls stop at the first one of S in none of the given states;
\* those before it have been changed by then.
Stops(r, S, states) == {i \in Present(r) \cap S : r.calls[i].state \notin states}
Reached(r, S, states, from) ==
  {i \in Present(r) \cap S : /\ r.calls[i].state \in from
                             /\ \A j \in Stops(r, S, states) : i < j}

-----------------------------------------------------------------------------
(* What a handler leaves: the radio, the error code and the data of the    *)
(* answer, the commands it adds for the radio itself and the delayed ones. *)

\* A request has a token, a command of the control client also a connection.
Cmd(num, arg, next) == [num |-> num, arg |-> arg, next |-> next, token |-> 0, conn |-> 0]
CMD_UNSOL_CALL_STATE_CHANGED == Cmd("CMD_UNSOL_CALL_STATE_CHANGED", 0, "none")
CMD_UNSOL_CALL_RING == Cmd("CMD_UNSOL_CALL_RING", 0, "none")
CMD_UNSOL_SIGNAL_STRENGTH == Cmd("CMD_UNSOL_SIGNAL_STRENGTH", 0, "none")
CMD_CALL_STATE_CHANGE(index, next) == Cmd("CMD_CALL_STATE_CHANGE", index, next)

Delayed(cmd, seconds) == [cmd |-> cmd, left |-> seconds]

Result(r, err, add, addDelayed) ==
  [radio |-> r, rilErrCode |-> err, responseProtobuf |-> emptyProtobuf,
   add |-> add, addDelayed |-> addDelayed]

Success(r) == Result(r, "SUCCESS", <<>>, <<>>)
Failure(r) == Result(r, "GENERIC_FAILURE", <<>>, <<>>)
SuccessReported(r) == Result(r, "SUCCESS", <<CMD_UNSOL_CALL_STATE_CHANGED>>, <<>>)
FailureReported(r) == Result(r, "GENERIC_FAILURE", <<CMD_UNSOL_CALL_STATE_CHANGED>>, <<>>)
SuccessWith(r, protobuf) == [Success(r) EXCEPT !.responseProtobuf = protobuf]

CTRL_STATUS_OK == "OK"
CTRL_STATUS_ERR == "ERR"

-----------------------------------------------------------------------------
(* The request handlers of Radio.                                          *)

rilRequestGetCurrentCalls(r) ==
  SuccessWith(r, serialize("RspGetCurrentCalls", IF Present(r) = {} THEN {} ELSE RadioCall))

rilRequestDial(r) ==
  LET index == newIndex(r) IN
  IF index = -1 THEN Failure(r)
  ELSE Result(addCall(r, "DIALING"), "SUCCESS",
              <<CMD_CALL_STATE_CHANGE(index, "DIALING")>>,
              IF r.callTransitionFlag THEN <<>>
              ELSE <<Delayed(CMD_CALL_STATE_CHANGE(index, "ALERTING"), 1),
                     Delayed(CMD_CALL_STATE_CHANGE(index, "ACTIVE"), 2)>>)

rilRequestHangUp(r, index) ==
  IF removable(r, index) THEN Success(removeCalls(r, {index})) ELSE Failure(r)

rilRequestHangupWaitingOrBackground(r) ==
  LET ends == {"HOLDING", "WAITING", "INCOMING"}
      ended == Reached(r, Indices, ends, ends)
      after == [removeCalls(r, ended) EXCEPT !.incomingCallIsProcessed = @ \/ ended # {}]
  IN IF r.numberActiveCalls <= 0 THEN FailureReported(r)
     ELSE IF Stops(r, Indices, ends) # {} THEN Failure(after) ELSE SuccessReported(after)

rilRequestHangUpForegroundResumeBackground(r) ==
  LET known == {"ACTIVE", "HOLDING", "WAITING"}
      after == removeCalls(setState(r, Reached(r, Indices, known, {"HOLDING", "WAITING"}), "ACTIVE"),
                           Reached(r, Indices, known, {"ACTIVE"}))
  IN IF r.numberActiveCalls <= 0 THEN FailureReported(r)
     ELSE IF Stops(r, Indices, known) # {} THEN Failure(after) ELSE SuccessReported(after)

\* The second of two in a row does nothing.
rilRequestSwitchWaitingOrHoldingAndActive(r, last) ==
  LET known == {"ACTIVE", "HOLDING", "WAITING"}
      after == setState(setState(r, Reached(r, Indices, known, {"HOLDING", "WAITING"}), "ACTIVE"),
                        Reached(r, Indices, known, {"ACTIVE"}), "HOLDING")
  IN IF last = "SWITCH_WAITING_OR_HOLDING_AND_ACTIVE" THEN Success(r)
     ELSE IF r.numberActiveCalls <= 0 THEN FailureReported(r)
     ELSE IF Stops(r, Indices, known) # {} THEN Failure(after) ELSE SuccessReported(after)

rilRequestConference(r) ==
  IF r.numberActiveCalls <= 0 \/ r.numberActiveCalls > maxConnectionsPerCall THEN Failure(r)
  ELSE IF Stops(r, Indices, {"ACTIVE", "HOLDING"}) # {} THEN Failure(r)
  ELSE SuccessReported(setState(r, Present(r), "ACTIVE"))

rilRequestLastCallFailCause(r) == SuccessWith(r, serialize("RspIntegers", 0 .. 0))

rilRequestSignalStrength(r) == SuccessWith(r, serialize("RspSignalStrength", RILSignalStrength))

rilRequestRegistrationState(r) == SuccessWith(r, serialize("RspStrings", 0 .. 14))

rilRequestGprsRegistrationState(r) == SuccessWith(r, serialize("RspStrings", 0 .. 3))

\* The only call is answered, or hung up when it is not an incoming one.
rilRequestAnswer(r) ==
  IF r.numberActiveCalls # 1 THEN Failure(r)
  ELSE IF Present(r) \ getCallsInState(r, "INCOMING") # {} THEN Failure(removeCalls(r, Present(r)))
  ELSE Success([setState(r, Present(r), "ACTIVE") EXCEPT !.incomingCallIsProcessed = TRUE])

rilRequestQueryNeworkSelectionMode(r) == SuccessWith(r, serialize("RspIntegers", 0 .. 0))

rilRequestSetNeworkSelectionAutomatic(r) == Success(r)

rilRequestBaseBandVersion(r) == SuccessWith(r, serialize("RspStrings", 0 .. 0))

rilReqestSeparateConnection(r, index) ==
  LET others == Indices \ {index}
      after == setState(r, Reached(r, others, {"ACTIVE"}, {"ACTIVE"}), "HOLDING")
  IN IF r.numberActiveCalls <= 0 \/ index \notin getCallsInState(r, "ACTIVE") THEN Failure(r)
     ELSE IF Stops(r, others, {"ACTIVE"}) # {} THEN Failure(after) ELSE SuccessReported(after)

rilRequestSetMute(r, state) ==
  IF state = "UNAVAILABLE" THEN Result(r, "RADIO_NOT_AVAILABLE", <<>>, <<>>) ELSE Success(r)

rilRequestScreenState(r) == Success(r)

-----------------------------------------------------------------------------
(* The commands the radio gives itself; none is answered.                  *)

cmdUnsolSignalStrength(r) == SuccessWith(r, serialize("RspSignalStrength", RILSignalStrength))

cmdUnsolCallStateChanged(r) == Success(r)

\* Whatever call is at callIndex now.
cmdCallStateChange(r, index, next) ==
  SuccessReported(setState(r, {index} \cap Present(r), next))

cmdUnsolCallRing(r) ==
  IF r.incomingCallIsProcessed THEN Success(r)
  ELSE Result([r EXCEPT !.calls = [i \in Indices |->
                 IF @[i].state \in {"INCOMING", "WAITING"} THEN [@[i] EXCEPT !.rung = TRUE] ELSE @[i]]],
              "SUCCESS", <<>>, <<Delayed(CMD_UNSOL_CALL_RING, 3)>>)

-----------------------------------------------------------------------------
(* The commands of the control client that the radio executes.             *)

\* Mutant: the flag of the call before is left as it is.
ringAnew_left(r) == r

ringAnew(r) == [r EXCEPT !.incomingCallIsProcessed = FALSE]

\* The call may not have been added when there are too many.
ctrlServerCmdStartInComingCall(r) ==
  IF r.numberActiveCalls > 0 /\ Stops(r, Indices, {"ACTIVE", "HOLDING"}) # {}
  THEN Result(r, CTRL_STATUS_ERR, <<>>, <<>>)
  ELSE Result(ringAnew(addCall(r, IF r.numberActiveCalls <= 0 THEN "INCOMING" ELSE "WAITING")),
              CTRL_STATUS_OK, <<CMD_UNSOL_CALL_RING>>, <<>>)

ctrlServerCmdHangupConnRemote(r, index) ==
  IF ~removable(r, index) THEN Result(r, CTRL_STATUS_ERR, <<>>, <<>>)
  ELSE Result([removeCalls(r, {index}) EXCEPT !.incomingCallIsProcessed =
                 @ \/ r.calls[index].state \in {"INCOMING", "WAITING"}],
              CTRL_STATUS_OK, <<CMD_UNSOL_CALL_STATE_CHANGED>>, <<>>)

ctrlServerCmdSetCallTransitionFlag(r, flag) ==
  Result([r EXCEPT !.callTransitionFlag = flag], CTRL_STATUS_OK, <<>>, <<>>)

\* The one call in state "from".
controlledTransition(r, from, to) ==
  IF /\ r.callTransitionFlag /\ r.numberActiveCalls > 0
     /\ Cardinality(getCallsInState(r, from)) = 1
  THEN Result(setState(r, getCallsInState(r, from), to), CTRL_STATUS_OK,
              <<CMD_UNSOL_CALL_STATE_CHANGED>>, <<>>)
  ELSE Result(r, CTRL_STATUS_ERR, <<>>, <<>>)

ctrlServerCmdSetCallAlert(r) == controlledTransition(r, "DIALING", "ALERTING")

ctrlServerCmdSetCallActive(r) == controlledTransition(r, "ALERTING", "ACTIVE")

ctrlServerCmdAddDialingCall(r) ==
  IF getCallsInState(r, "DIALING") = {}
  THEN Result(addCall(r, "DIALING"), CTRL_STATUS_OK, <<>>, <<>>)
  ELSE Result(r, CTRL_STATUS_ERR, <<>>, <<>>)

-----------------------------------------------------------------------------
(* Radio.process: radioDispatchTable, then the answer.                     *)

radioDispatch(q) ==
  LET n == q.num IN
  CASE n = "GET_CURRENT_CALLS" -> rilRequestGetCurrentCalls(radio)
    [] n = "DIAL" -> rilRequestDial(radio)
    [] n = "HANGUP" -> rilRequestHangUp(radio, q.arg)
    [] n = "HANGUP_WAITING_OR_BACKGROUND" -> rilRequestHangupWaitingOrBackground(radio)
    [] n = "HANGUP_FOREGROUND_RESUME_BACKGROUND" -> rilRequestHangUpForegroundResumeBackground(radio)
    [] n = "SWITCH_WAITING_OR_HOLDING_AND_ACTIVE" ->
         rilRequestSwitchWaitingOrHoldingAndActive(radio, lastReq)
    [] n = "CONFERENCE" -> rilRequestConference(radio)
    [] n = "LAST_CALL_FAIL_CAUSE" -> rilRequestLastCallFailCause(radio)
    [] n = "SIGNAL_STRENGTH" -> rilRequestSignalStrength(radio)
    [] n = "REGISTRATION_STATE" -> rilRequestRegistrationState(radio)
    [] n = "GPRS_REGISTRATION_STATE" -> rilRequestGprsRegistrationState(radio)
    [] n = "ANSWER" -> rilRequestAnswer(radio)
    [] n = "QUERY_NETWORK_SELECTION_MODE" -> rilRequestQueryNeworkSelectionMode(radio)
    [] n = "SET_NETWORK_SELECTION_AUTOMATIC" -> rilRequestSetNeworkSelectionAutomatic(radio)
    [] n = "BASEBAND_VERSION" -> rilRequestBaseBandVersion(radio)
    [] n = "SEPARATE_CONNECTION" -> rilReqestSeparateConnection(radio, q.arg)
    [] n = "SET_MUTE" -> rilRequestSetMute(radio, gRadioState)
    [] n = "SCREEN_STATE" -> rilRequestScreenState(radio)
    [] n = "CTRL_CMD_SET_MT_CALL" -> ctrlServerCmdStartInComingCall(radio)
    [] n = "CTRL_CMD_HANGUP_CONN_REMOTE" -> ctrlServerCmdHangupConnRemote(radio, q.arg)
    [] n = "CTRL_CMD_SET_CALL_TRANSITION_FLAG" -> ctrlServerCmdSetCallTransitionFlag(radio, q.arg = 1)
    [] n = "CTRL_CMD_SET_CALL_ALERT" -> ctrlServerCmdSetCallAlert(radio)
    [] n = "CTRL_CMD_SET_CALL_ACTIVE" -> ctrlServerCmdSetCallActive(radio)
    [] n = "CTRL_CMD_ADD_DIALING_CALL" -> ctrlServerCmdAddDialingCall(radio)
    [] n = "CMD_UNSOL_SIGNAL_STRENGTH" -> cmdUnsolSignalStrength(radio)
    [] n = "CMD_UNSOL_CALL_STATE_CHANGED" -> cmdUnsolCallStateChanged(radio)
    [] n = "CMD_CALL_STATE_CHANGE" -> cmdCallStateChange(radio, q.arg, q.next)
    [] n = "CMD_UNSOL_CALL_RING" -> cmdUnsolCallRing(radio)
    [] OTHER -> Result(radio, "REQUEST_NOT_SUPPORTED", <<>>, <<>>)

-----------------------------------------------------------------------------
(* SendRilRequestComplete: the conversion of responses.cpp for the request *)
(* number, and what the framework is told.                                 *)

rilRspConversionMap(num, protobuf) ==
  CASE num = "GET_SIM_STATUS" -> RspGetSimStatus(protobuf)
    [] num = "ENTER_SIM_PIN" -> RspEnterSimPinData(protobuf)
    [] num = "GET_CURRENT_CALLS" -> RspGetCurrentCalls(protobuf)
    [] num \in {"GET_IMSI", "GET_IMEI", "GET_IMEISV", "BASEBAND_VERSION"} -> RspString(protobuf)
    [] num \in {"LAST_CALL_FAIL_CAUSE", "QUERY_NETWORK_SELECTION_MODE"} -> RspIntegers(protobuf)
    [] num = "SIGNAL_STRENGTH" -> RspSignalStrength(protobuf)
    [] num \in {"REGISTRATION_STATE", "GPRS_REGISTRATION_STATE"} -> RspStrings(protobuf)
    [] num = "OPERATOR" -> RspOperator(protobuf)
    [] OTHER -> RspWithNoData(protobuf)

\* Mutant: HANGUP has no entry either.
unconverted_hangup == {"DIAL", "HANGUP"}

\* Requests with an answer and no entry in rilRspConversionMap.
unconverted == {"DIAL"}

\* "Nothing to convert" is success, whatever the handler said.
SendRilRequestComplete(num, err, protobuf) ==
  [num |-> num, said |-> err,
   code |-> IF num \notin unconverted THEN err
            ELSE IF protobuf.fields = {} THEN "SUCCESS" ELSE "REQUEST_NOT_SUPPORTED",
   data |-> rilRspConversionMap(num, protobuf)]

\* unsolRilRspConversionMap has the signal strength; the others have no data.
SendRilUnsolicitedResponse(num, protobuf) ==
  [num |-> num, said |-> "SUCCESS", code |-> "SUCCESS",
   data |-> IF num = "CMD_UNSOL_SIGNAL_STRENGTH" THEN UnsolRspSignalStrength(protobuf)
                                                 ELSE RspWithNoData(protobuf)]

nothingTold == [num |-> "", said |-> "", code |-> "", data |-> RspWithNoData(emptyProtobuf)]

OnRequestComplete(q, what) ==
  /\ told' = what
  /\ answers' = [answers EXCEPT !.ril[q.token] = @ + 1]

complete(q, err, protobuf) == OnRequestComplete(q, SendRilRequestComplete(q.num, err, protobuf))

\* To the client of the moment, if there is one: the length, the header and
\* the data on end, under the V8 lock.
WriteMessage(q) ==
  answers' = IF ctrlpc # "accept" /\ q.conn = conn
             THEN [answers EXCEPT !.ctrl[q.token] = @ + 1] ELSE answers

\* SendCtrlRequestComplete
ctrlComplete(q) == WriteMessage(q) /\ told' = nothingTold

-----------------------------------------------------------------------------
(* The framework's requests: onRequest, AddRequest, Process, onRilRequest. *)

IccRequests ==
  {"GET_SIM_STATUS", "ENTER_SIM_PIN", "GET_IMSI", "OPERATOR", "GET_IMEI", "GET_IMEISV"}

RadioRequests ==
  {"GET_CURRENT_CALLS", "DIAL", "HANGUP", "HANGUP_WAITING_OR_BACKGROUND",
   "HANGUP_FOREGROUND_RESUME_BACKGROUND", "SWITCH_WAITING_OR_HOLDING_AND_ACTIVE",
   "CONFERENCE", "LAST_CALL_FAIL_CAUSE", "SIGNAL_STRENGTH", "REGISTRATION_STATE",
   "GPRS_REGISTRATION_STATE", "ANSWER", "QUERY_NETWORK_SELECTION_MODE",
   "SET_NETWORK_SELECTION_AUTOMATIC", "BASEBAND_VERSION", "SEPARATE_CONNECTION",
   "SET_MUTE", "SCREEN_STATE"}

\* Mutant: SCREEN_STATE goes to both workers.
dispatchTable_both(num) ==
  [icc |-> num \in IccRequests \cup {"SCREEN_STATE"}, radio |-> num \in RadioRequests]

\* onRilRequest: dispatchTable[reqNum].components.
dispatchTable(num) == [icc |-> num \in IccRequests, radio |-> num \in RadioRequests]

rilReqConversionMap(num, long) ==
  CASE num = "ENTER_SIM_PIN" -> ReqEnterSimPin(long)
    [] num = "DIAL" -> ReqDial(long)
    [] num = "HANGUP" -> ReqHangUp(long)
    [] num = "SEPARATE_CONNECTION" -> ReqSeparateConnection(long)
    [] num = "SET_MUTE" -> ReqSetMute(long)
    [] num = "SCREEN_STATE" -> ReqScreenState(long)
    [] num \in IccRequests \cup RadioRequests -> ReqWithNoData(long)
    [] OTHER -> [status |-> "UNSUPPORTED_REQUEST", buffer |-> emptyProtobuf]

\* No thread holds the V8 lock across a wait.
V8Free == ctrlpc # "reading" /\ ~mishanded

\* onRequest on the dispatch thread of libril; arg is the first int of the
\* data, or -1 for data that is too short.
onRequest(num, arg) ==
  LET q == [Cmd(num, arg, "none") EXCEPT !.token = sent.ril + 1]
      status == rilReqConversionMap(num, arg # -1).status
  IN /\ V8Free
     /\ scenario.patient => \A t \in 1 .. sent.ril : answers.ril[t] > 0
     /\ sent' = [sent EXCEPT !.ril = @ + 1]
     /\ \/ /\ status = "OK"
           /\ rilQ' = Append(rilQ, q)
           /\ told' = nothingTold /\ UNCHANGED answers
        \/ /\ status # "OK"
           /\ LET err == IF status = "UNSUPPORTED_REQUEST" THEN "REQUEST_NOT_SUPPORTED"
                                                           ELSE "GENERIC_FAILURE"
              IN OnRequestComplete(q, [nothingTold EXCEPT !.num = num, !.said = err, !.code = err])
           /\ UNCHANGED rilQ
     /\ UNCHANGED <<scenario, mishanded, radio, lastReq, gRadioState, radioQ, delayedQ, iccQ, ctrlQ, ctrlVars>>

\* RilRequestWorkerQueue::Process and onRilRequest.
onRilRequest ==
  /\ V8Free /\ rilQ # <<>>
  /\ LET q == Head(rilQ)
         to == dispatchTable(q.num)
     IN /\ rilQ' = Tail(rilQ)
        /\ iccQ' = IF to.icc THEN Append(iccQ, q) ELSE iccQ
        /\ radioQ' = IF to.radio THEN Append(radioQ, q) ELSE radioQ
  /\ told' = nothingTold
  /\ UNCHANGED <<scenario, mishanded, radio, lastReq, gRadioState, delayedQ, ctrlQ, ctrlVars, sent, answers>>

\* The handlers of Icc answer with their objects.
rilRequestGetSimStatus == serialize("RspGetSimStatus", RilCardStatus \cup IccAppStatus)
rilRequestEnterSimPin == serialize("RspEnterSimPin", {"retries_remaining"})
rilRequestOperator == serialize("RspOperator", {"long_alpha_ons", "short_alpha_ons", "mcc_mnc"})
rilRequestGetImsi == serialize("RspStrings", 0 .. 0)
rilRequestGetImei == serialize("RspStrings", 0 .. 0)
rilRequestGetImeisv == serialize("RspStrings", 0 .. 0)

simDispatchTable(num) ==
  CASE num = "GET_SIM_STATUS" -> rilRequestGetSimStatus
    [] num = "ENTER_SIM_PIN" -> rilRequestEnterSimPin
    [] num = "GET_IMSI" -> rilRequestGetImsi
    [] num = "OPERATOR" -> rilRequestOperator
    [] num = "GET_IMEI" -> rilRequestGetImei
    [] num = "GET_IMEISV" -> rilRequestGetImeisv
    [] OTHER -> emptyProtobuf

\* Icc.process
iccProcess ==
  /\ V8Free /\ iccQ # <<>>
  /\ LET q == Head(iccQ)
         protobuf == simDispatchTable(q.num)
     IN complete(q, IF q.num \in IccRequests THEN "SUCCESS" ELSE "REQUEST_NOT_SUPPORTED", protobuf)
  /\ iccQ' = Tail(iccQ)
  /\ UNCHANGED <<scenario, mishanded, radio, lastReq, gRadioState, rilQ, radioQ, delayedQ, ctrlQ, ctrlVars,
                 sent>>

-----------------------------------------------------------------------------
(* The radio's worker.                                                     *)

\* addDelayed keeps the delayed commands in the order of their times.
insert(s, d) ==
  LET before == Cardinality({i \in DOMAIN s : s[i].left <= d.left})
  IN SubSeq(s, 1, before) \o <<d>> \o SubSeq(s, before + 1, Len(s))

insertAll(s, ds) ==
  IF ds = <<>> THEN s
  ELSE IF Len(ds) = 1 THEN insert(s, ds[1]) ELSE insert(insert(s, ds[1]), ds[2])

\* RIL_UNSOL_RESPONSE_CALL_STATE_CHANGED is sent.
reports(q) ==
  \/ q.num = "CMD_UNSOL_CALL_STATE_CHANGED"
  \/ q.num = "CMD_UNSOL_CALL_RING" /\ ~radio.incomingCallIsProcessed

radioProcess ==
  /\ V8Free /\ radioQ # <<>>
  /\ LET q == Head(radioQ)
         result == radioDispatch(q)
     IN /\ radio' = result.radio
        /\ radioQ' = Tail(radioQ) \o result.add
        /\ delayedQ' = insertAll(delayedQ, result.addDelayed)
        /\ lastReq' = IF q.num \in RadioRequests THEN q.num ELSE lastReq
        /\ \/ /\ q.token = 0 /\ UNCHANGED answers
              /\ told' = IF reports(q) \/ q.num = "CMD_UNSOL_SIGNAL_STRENGTH"
                         THEN SendRilUnsolicitedResponse(q.num, result.responseProtobuf)
                         ELSE nothingTold
           \/ q.token # 0 /\ q.conn = 0 /\ complete(q, result.rilErrCode, result.responseProtobuf)
           \/ q.token # 0 /\ q.conn # 0 /\ ctrlComplete(q)
  /\ UNCHANGED <<scenario, mishanded, gRadioState, rilQ, iccQ, ctrlQ, ctrlVars, sent>>

\* The worker has nothing ready: what is due is moved.  The minute of the
\* signal strength (a scenario may end before it) is not compared with the
\* seconds of the calls.
radioMove ==
  /\ ~mishanded /\ radioQ = <<>>
  /\ \E signal \in {<<>>} \cup (IF scenario.minute THEN {<<CMD_UNSOL_SIGNAL_STRENGTH>>} ELSE {}) :
       LET due == Cardinality({i \in DOMAIN delayedQ : delayedQ[i].left = 0})
       IN /\ due > 0 \/ signal # <<>>
          /\ radioQ' = [i \in 1 .. due |-> delayedQ[i].cmd] \o signal
          /\ delayedQ' = SubSeq(delayedQ, due + 1, Len(delayedQ))
  /\ told' = nothingTold
  /\ UNCHANGED <<scenario, mishanded, radio, lastReq, gRadioState, rilQ, iccQ, ctrlQ, ctrlVars, sent, answers>>

\* A second passes.
Elapse ==
  /\ ~mishanded /\ \E i \in DOMAIN delayedQ : delayedQ[i].left > 0
  /\ delayedQ' = [i \in DOMAIN delayedQ |->
                    [delayedQ[i] EXCEPT !.left = IF @ > 0 THEN @ - 1 ELSE 0]]
  /\ told' = nothingTold
  /\ UNCHANGED <<scenario, mishanded, radio, lastReq, gRadioState, rilQ, radioQ, iccQ, ctrlQ, ctrlVars, sent,
                 answers>>
-----------------------------------------------------------------------------
(* The control server: CtrlServerThread::Worker and ctrl_server.js.        *)

ctrlServerDispatchTable ==
  {"CTRL_CMD_SET_MT_CALL", "CTRL_CMD_HANGUP_CONN_REMOTE", "CTRL_CMD_SET_CALL_TRANSITION_FLAG",
   "CTRL_CMD_SET_CALL_ALERT", "CTRL_CMD_SET_CALL_ACTIVE", "CTRL_CMD_ADD_DIALING_CALL"}

\* Of the commands the client may send, those above CTRL_CMD_DISPATH_BASE.
isCtrlServerDispatchCommand(num) == num \in ctrlServerDispatchTable \cup {"UNKNOWN_ABOVE_BASE"}

\* select, accept
ctrlAccept ==
  /\ ~mishanded /\ ctrlpc = "accept" /\ conn < scenario.clients
  /\ conn' = conn + 1 /\ ctrlpc' = "client"
  /\ told' = nothingTold
  /\ UNCHANGED <<scenario, mishanded, radio, lastReq, gRadioState, queueVars, incoming, sent, answers>>

\* The first bytes of a message end the select; ReadMessage waits for the
\* rest of it without giving up the V8 lock.
ctrlReadMessage(num, arg) ==
  /\ ~mishanded /\ ctrlpc = "client"
  /\ sent' = [sent EXCEPT !.ctrl = @ + 1]
  /\ incoming' = [Cmd(num, arg, "none") EXCEPT !.token = sent.ctrl + 1, !.conn = conn]
  /\ ctrlpc' = "reading"
  /\ told' = nothingTold
  /\ UNCHANGED <<scenario, mishanded, radio, lastReq, gRadioState, queueVars, conn, answers>>

\* A command for the control server itself goes to its worker, another one to
\* the component that handles it; one that nobody does is answered at once.
onCtrlServerCmd(q) ==
  /\ ctrlQ' = IF isCtrlServerDispatchCommand(q.num) THEN ctrlQ ELSE Append(ctrlQ, q)
  /\ radioQ' = IF q.num \in ctrlServerDispatchTable THEN Append(radioQ, q) ELSE radioQ
  /\ IF q.num = "UNKNOWN_ABOVE_BASE" THEN ctrlComplete(q)
     ELSE told' = nothingTold /\ UNCHANGED answers

\* onCtrlServerCmd catches every exception, so that its caller never has to
\* report an error with a message of its own.
sendToCtrlServer(q) == onCtrlServerCmd(q)

\* The whole message is there.
ctrlMessage ==
  /\ ~mishanded /\ ctrlpc = "reading"
  /\ ctrlpc' = "client" /\ incoming' = Cmd("", 0, "none")
  /\ IF incoming.num = "CTRL_CMD_ECHO"
     THEN ctrlComplete(incoming) /\ UNCHANGED <<ctrlQ, radioQ>>
     ELSE sendToCtrlServer(incoming)
  /\ UNCHANGED <<scenario, mishanded, radio, lastReq, gRadioState, rilQ, delayedQ, iccQ, conn, sent>>

\* The client is gone, between messages or in the middle of one.
ctrlClosed ==
  /\ ~mishanded /\ ctrlpc # "accept"
  /\ ctrlpc' = "accept" /\ incoming' = Cmd("", 0, "none")
  /\ told' = nothingTold
  /\ UNCHANGED <<scenario, mishanded, radio, lastReq, gRadioState, queueVars, conn, sent, answers>>

RadioStates == <<"UNAVAILABLE", "OFF", "SIM_READY">>

\* setRadioState, from ctrlSetRadioState; the framework is told.
ctrlSetRadioState(q) ==
  /\ gRadioState' = RadioStates[q.arg]
  /\ told' = SendRilUnsolicitedResponse("RADIO_STATE_CHANGED", emptyProtobuf)

ctrlGetRadioState(q) == told' = nothingTold /\ UNCHANGED gRadioState

\* CtrlServer.process; a command it does not know is answered with an error.
ctrlProcess ==
  /\ V8Free /\ ctrlQ # <<>>
  /\ LET q == Head(ctrlQ)
     IN /\ IF q.num = "CTRL_CMD_SET_RADIO_STATE" THEN ctrlSetRadioState(q) ELSE ctrlGetRadioState(q)
        /\ WriteMessage(q)
  /\ ctrlQ' = Tail(ctrlQ)
  /\ UNCHANGED <<scenario, mishanded, radio, lastReq, rilQ, radioQ, delayedQ, iccQ, ctrlVars, sent>>

\* The record of what was taken from a queue is used again for what another
\* thread adds, before Process is called with its pointer.  (Wider than the
\* code: the second may have been added before the first was taken, or by the
\* worker itself.)
mishand ==
  /\ \E queue \in {rilQ, radioQ, iccQ, ctrlQ} : Len(queue) > 1
  /\ mishanded' = TRUE
  /\ UNCHANGED <<scenario, radio, lastReq, gRadioState, queueVars, ctrlVars, sent, answers, told>>

-----------------------------------------------------------------------------
\* After RIL_Init: startMockRil has set the radio state.
Init ==
  /\ scenario \in Scenarios
  /\ radio = [calls |-> [i \in Indices |-> undefined], numberActiveCalls |-> 0,
              incomingCallIsProcessed |-> FALSE, callTransitionFlag |-> FALSE]
  /\ lastReq = "" /\ gRadioState = "SIM_READY"
  /\ rilQ = <<>> /\ radioQ = <<>> /\ delayedQ = <<>> /\ iccQ = <<>> /\ ctrlQ = <<>>
  /\ ctrlpc = "accept" /\ conn = 0 /\ incoming = Cmd("", 0, "none")
  /\ sent = [ril |-> 0, ctrl |-> 0]
  /\ answers = [ril |-> [t \in DOMAIN scenario.ril |-> 0],
                ctrl |-> [t \in DOMAIN scenario.ctrl |-> 0]]
  /\ told = nothingTold /\ mishanded = FALSE

\* The first integer of the data that is worth telling apart; -1 is short data.
Args(num) ==
  CASE num \in {"HANGUP", "SEPARATE_CONNECTION"} -> Indices \cup {-1}
    [] num \in {"ENTER_SIM_PIN", "DIAL", "SET_MUTE", "SCREEN_STATE"} -> {-1, 0}
    [] num = "CTRL_CMD_HANGUP_CONN_REMOTE" -> Indices
    [] num = "CTRL_CMD_SET_CALL_TRANSITION_FLAG" -> {0, 1}
    [] num = "CTRL_CMD_SET_RADIO_STATE" -> DOMAIN RadioStates
    [] OTHER -> {0}

nth(choices, k) == IF k \in DOMAIN choices THEN choices[k] ELSE {}

RadioWork == radioProcess \/ radioMove

Next ==
  \/ \E num \in nth(scenario.ril, sent.ril + 1) : \E arg \in Args(num) : onRequest(num, arg)
  \/ onRilRequest \/ iccProcess \/ RadioWork \/ Elapse \/ mishand
  \/ ctrlAccept \/ ctrlMessage \/ ctrlClosed \/ ctrlProcess
  \/ \E num \in nth(scenario.ctrl, sent.ctrl + 1) : \E arg \in Args(num) : ctrlReadMessage(num, arg)

\* The worker threads run when they can and time passes; a control client
\* does not stop for ever in the middle of a message.
Spec ==
  /\ Init /\ [][Next]_vars
  /\ WF_vars(onRilRequest) /\ WF_vars(iccProcess) /\ WF_vars(RadioWork) /\ WF_vars(ctrlProcess)
  /\ WF_vars(Elapse) /\ WF_vars(ctrlMessage)

-----------------------------------------------------------------------------
(* Properties.                                                             *)

\* numberActiveCalls, which decides whether there is room for a call and
\* whether the call lists are looked at, is the number of the calls (addCall,
\* removeCall and every handler that loops over the calls).
CallsCounted == radio.numberActiveCalls = Cardinality(Present(radio))

\* The framework is told what the handler decided, with every member of the
\* structure assigned, through serialize and the conversion for the request
\* number (process, SendRilRequestComplete, Rsp...); but a DIAL that failed
\* is told as a success, and cdma_subscription_app_index is whatever the
\* stack held.
ToldAsDecided ==
  /\ told.num # "DIAL" => told.code = told.said
  /\ told.data.unset \subseteq {"cdma_subscription_app_index"}
  /\ told.code = "SUCCESS" =>
       told.data.default \subseteq {"pin2", "name_presentation", "uus_info"} \cup
                                   (IF Present(radio) = {} THEN RilCall ELSE {})

\* Every request is answered, and once, whatever the control client does
\* meanwhile (onRequest to OnRequestComplete; the V8 lock of ReadMessage), as
\* long as its queue calls Process with the pointer that was taken.  A control
\* command is answered, and once, unless its client leaves first.
Answered(t) == mishanded \/ (t \in DOMAIN answers.ril /\ answers.ril[t] = 1)
CommandEnded(t) ==
  mishanded \/ ctrlpc = "accept" \/ (t \in DOMAIN answers.ctrl /\ answers.ctrl[t] = 1)
RequestsAnsweredOnce ==
  /\ \A t \in 1 .. MaxRequests : sent.ril >= t ~> []Answered(t)
  /\ \A t \in 1 .. MaxCommands : incoming.token = t ~> CommandEnded(t)

\* A call that comes in is to be announced, whatever happened to the calls
\* before it, and RIL_UNSOL_CALL_RING announces it unless it has been answered
\* or is gone by then (incomingCallIsProcessed, set by what happens to one call
\* and read for another).  A HANGUP_WAITING_OR_BACKGROUND that fails, having
\* ended a call before the one it stops at, takes the announcement with it.
Unannounced(i) == radio.calls[i].state \in {"INCOMING", "WAITING"} /\ ~radio.calls[i].rung
HangupFailed == told.num = "HANGUP_WAITING_OR_BACKGROUND" /\ told.code # "SUCCESS"
IncomingCallRings ==
  /\ [][\A i \in Indices : ~Unannounced(i) /\ Unannounced(i)' => ~radio'.incomingCallIsProcessed]_vars
  /\ \A i \in Indices :
       (Unannounced(i) /\ ~radio.incomingCallIsProcessed)
         ~> (~Unannounced(i) \/ HangupFailed \/ mishanded)
=============================================================================
