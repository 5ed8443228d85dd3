--------------------------- MODULE MockRilProofs ---------------------------
(***************************************************************************)
(* Theorems about MockRil: the number of calls is that of the calls, and   *)
(* the framework is told what the handlers decided.                        *)
(***************************************************************************)
EXTENDS MockRil, FiniteSetTheorems, SequenceTheorems, WellFoundedInduction, TLAPS

-----------------------------------------------------------------------------
(* The radio and the commands it has still to execute.                     *)

\* A call without a state is no call.
CallRecords ==
  {c \in [state : CallStates \cup {"none"}, rung : BOOLEAN] : c.state = "none" => c = undefined}

Radios ==
  [calls : [Indices -> CallRecords], numberActiveCalls : Int,
   incomingCallIsProcessed : BOOLEAN, callTransitionFlag : BOOLEAN]

RadioGood(r) == r \in Radios /\ r.numberActiveCalls = Cardinality(Present(r))

OwnCommands ==
  {"CMD_UNSOL_CALL_STATE_CHANGED", "CMD_UNSOL_CALL_RING", "CMD_UNSOL_SIGNAL_STRENGTH",
   "CMD_CALL_STATE_CHANGE"}
Asked == {nth(s.ril, k) : s \in Scenarios, k \in Nat} \cup {nth(s.ctrl, k) : s \in Scenarios, k \in Nat}
Numbers == (UNION Asked) \cup OwnCommands \cup {""}

Commands == [num : Numbers, arg : Int, next : CallStates \cup {"none"}, token : Nat, conn : Nat]

\* A call that is told to change its state is told a state.
RadioCommands ==
  {q \in Commands : q.num = "CMD_CALL_STATE_CHANGE" => q.next \in CallStates}
DelayedCommands == [cmd : RadioCommands, left : Int]

QueueInv ==
  /\ scenario \in Scenarios
  /\ sent \in [ril : Nat, ctrl : Nat] /\ conn \in Nat
  /\ incoming \in Commands
  /\ rilQ \in Seq(Commands)
  /\ radioQ \in Seq(RadioCommands)
  /\ delayedQ \in Seq(DelayedCommands)

CallsInv == QueueInv /\ RadioGood(radio)

-----------------------------------------------------------------------------
LEMMA PresentFinite ==
  ASSUME NEW r
  PROVE  /\ IsFiniteSet(Present(r)) /\ Present(r) \subseteq Indices
         /\ IsFiniteSet(Indices) /\ Cardinality(Indices) = maxNumberActiveCalls
<1>1. maxNumberActiveCalls \in Int /\ maxNumberActiveCalls >= 1 BY CallLimits
<1>2. IsFiniteSet(Indices) /\ Cardinality(Indices) = maxNumberActiveCalls
  BY <1>1, FS_Interval DEF Indices
<1>3. Present(r) \subseteq Indices BY DEF Present
<1> QED BY <1>2, <1>3, FS_Subset

LEMMA NonEmptyHasLeast ==
  ASSUME NEW S, S \subseteq Nat, S # {}
  PROVE  \E i \in S : \A j \in S : i <= j
<1> DEFINE R == OpToRel(<, Nat)
<1>1. IsWellFoundedOn(R, Nat) BY NatLessThanWellFounded
<1>2. \A x, y \in Nat : x < y => <<x, y>> \in R BY DEF OpToRel
<1> HIDE DEF R
<1>3. \E x \in S : \A y \in S : ~(<<y, x>> \in R) BY <1>1, WFMin
<1>4. PICK x \in S : \A y \in S : ~(<<y, x>> \in R) BY <1>3
<1>5. \A y \in S : ~(y < x) BY <1>2, <1>4
<1>6. \A y \in S : x <= y BY <1>5
<1> QED BY <1>4, <1>6

\* addCall: the count is right whether there is room or not.
LEMMA AddGood ==
  ASSUME NEW r, RadioGood(r), NEW state \in CallStates
  PROVE  RadioGood(addCall(r, state)) /\ newIndex(r) \in Int
<1>1. r \in Radios /\ r.numberActiveCalls = Cardinality(Present(r)) BY DEF RadioGood
<1>2. /\ IsFiniteSet(Present(r)) /\ Present(r) \subseteq Indices
      /\ IsFiniteSet(Indices) /\ Cardinality(Indices) = maxNumberActiveCalls
  BY PresentFinite
<1>3. maxNumberActiveCalls \in Nat BY CallLimits
<1>4. RilCallOf(state) \in CallRecords /\ RilCallOf(state) # undefined
  BY DEF RilCallOf, CallRecords, undefined, CallStates
<1>5. CASE newIndex(r) = -1
  <2>1. -1 \notin Indices BY <1>3 DEF Indices
  <2>2. addCall(r, state).calls = [i \in Indices |-> r.calls[i]]
    BY <1>1, <1>5, <2>1 DEF addCall, Radios
  <2>3. addCall(r, state) = r
    BY <1>1, <1>5, <2>1 DEF addCall, Radios
  <2> QED BY <1>5, <2>3
<1>6. CASE newIndex(r) # -1
  <2>1. r.numberActiveCalls < maxNumberActiveCalls
    BY <1>1, <1>3, <1>6 DEF newIndex, Radios
  <2>2. Present(r) # Indices BY <1>1, <1>2, <1>3, <2>1
  <2>3. newIndex(r) = Least(Indices \ Present(r))
    BY <1>6, <2>2 DEF newIndex
  <2>4. newIndex(r) \in Indices \ Present(r)
    <3> DEFINE S == Indices \ Present(r)
    <3>1. S # {} BY <1>2, <2>2
    <3>2. S \subseteq Nat BY <1>3 DEF Indices
    <3> HIDE DEF S
    <3>3. \E i \in S : \A j \in S : i <= j BY <3>1, <3>2, NonEmptyHasLeast
    <3>4. Least(S) \in S BY <3>3 DEF Least
    <3> QED BY <2>3, <3>4 DEF S
  <2> DEFINE a == addCall(r, state)
  <2>5. a \in Radios /\ a.numberActiveCalls = r.numberActiveCalls + 1
    <3> DEFINE calls == [i \in Indices |-> IF i = newIndex(r) THEN RilCallOf(state) ELSE r.calls[i]]
    <3>1. r.calls \in [Indices -> CallRecords] /\ r.numberActiveCalls \in Int BY <1>1 DEF Radios
    <3>2. calls \in [Indices -> CallRecords] BY <1>4, <3>1
    <3> DEFINE n == r.numberActiveCalls + 1
    <3>3. a = [r EXCEPT !.numberActiveCalls = n, !.calls = calls] BY <1>6 DEF addCall
    <3>4. n \in Int BY <3>1
    <3>5. a \in Radios /\ a.numberActiveCalls = n
      <4> HIDE DEF calls, a, n
      <4> QED BY <1>1, <3>2, <3>3, <3>4 DEF Radios
    <3> QED BY <3>5
  <2>6. Present(a) = Present(r) \cup {newIndex(r)}
    BY <1>1, <1>4, <1>6, <2>4 DEF addCall, Radios, Present
  <2>7. Cardinality(Present(a)) = Cardinality(Present(r)) + 1
    BY <1>2, <2>4, <2>6, FS_AddElement
  <2> QED BY <1>1, <1>3, <2>4, <2>5, <2>7 DEF RadioGood, Indices
<1> QED BY <1>5, <1>6

\* removeCall for calls that are there.
LEMMA RemoveGood ==
  ASSUME NEW r, RadioGood(r), NEW S, S \subseteq Present(r)
  PROVE  RadioGood(removeCalls(r, S))
<1> DEFINE calls == [i \in Indices |-> IF i \in S THEN undefined ELSE r.calls[i]]
           n == r.numberActiveCalls - Cardinality(S)
           a == removeCalls(r, S)
<1>1. r \in Radios /\ r.numberActiveCalls = Cardinality(Present(r)) BY DEF RadioGood
<1>2. IsFiniteSet(Present(r)) /\ Present(r) \subseteq Indices BY PresentFinite
<1>3. /\ IsFiniteSet(S) /\ Cardinality(S) \in Nat /\ Cardinality(Present(r)) \in Nat
      /\ Cardinality(Present(r) \ S) = Cardinality(Present(r)) - Cardinality(Present(r) \cap S)
  BY <1>2, FS_Subset, FS_CardinalityType, FS_Difference
<1>4. Present(r) \cap S = S OBVIOUS
<1>5. r.calls \in [Indices -> CallRecords] BY <1>1 DEF Radios
<1>6. undefined \in CallRecords BY DEF CallRecords, undefined
<1>7. calls \in [Indices -> CallRecords] BY <1>5, <1>6
<1>8. n \in Int BY <1>1, <1>3
<1>9. a = [r EXCEPT !.numberActiveCalls = n, !.calls = calls] BY DEF removeCalls
<1>10. a \in Radios /\ a.numberActiveCalls = n /\ a.calls = calls
  <2> HIDE DEF n, calls, a
  <2> QED BY <1>1, <1>7, <1>8, <1>9 DEF Radios
<1>11. Present(a) = Present(r) \ S
  <2>1. a.calls = calls BY <1>10
  <2> HIDE DEF a
  <2> QED BY <2>1 DEF Present
<1> QED BY <1>1, <1>3, <1>4, <1>10, <1>11 DEF RadioGood

\* A change of state of calls that are there.
LEMMA SetGood ==
  ASSUME NEW r, RadioGood(r), NEW S, S \subseteq Present(r), NEW state \in CallStates
  PROVE  RadioGood(setState(r, S, state)) /\ Present(setState(r, S, state)) = Present(r)
<1> DEFINE calls == [i \in Indices |-> IF i \in S THEN [r.calls[i] EXCEPT !.state = state] ELSE r.calls[i]]
           a == setState(r, S, state)
<1>1. r \in Radios /\ r.numberActiveCalls = Cardinality(Present(r)) BY DEF RadioGood
<1>2. r.calls \in [Indices -> CallRecords] /\ r.numberActiveCalls \in Int BY <1>1 DEF Radios
<1>3. \A c \in CallRecords : /\ [c EXCEPT !.state = state] \in CallRecords
                             /\ [c EXCEPT !.state = state] # undefined
  BY DEF CallRecords, undefined, CallStates
<1>4. calls \in [Indices -> CallRecords] BY <1>2, <1>3
<1>5. a = [r EXCEPT !.calls = calls] BY DEF setState
<1>6. a \in Radios /\ a.numberActiveCalls = r.numberActiveCalls /\ a.calls = calls
  <2> HIDE DEF calls, a
  <2> QED BY <1>1, <1>4, <1>5 DEF Radios
<1>7. Present(a) = Present(r)
  <2>1. a.calls = calls BY <1>6
  <2> HIDE DEF a
  <2> QED BY <1>2, <1>3, <2>1 DEF Present
<1> QED BY <1>1, <1>6, <1>7 DEF RadioGood

LEMMA ProcessedGood ==
  ASSUME NEW r, RadioGood(r), NEW b \in BOOLEAN
  PROVE  RadioGood([r EXCEPT !.incomingCallIsProcessed = b])
<1> DEFINE a == [r EXCEPT !.incomingCallIsProcessed = b]
<1>1. r \in Radios BY DEF RadioGood
<1>2. a \in Radios /\ a.calls = r.calls /\ a.numberActiveCalls = r.numberActiveCalls
  BY <1>1 DEF Radios
<1>3. Present(a) = Present(r) BY <1>2 DEF Present
<1> QED BY <1>2, <1>3 DEF RadioGood

LEMMA TransitionGood ==
  ASSUME NEW r, RadioGood(r), NEW b \in BOOLEAN
  PROVE  RadioGood([r EXCEPT !.callTransitionFlag = b])
<1> DEFINE a == [r EXCEPT !.callTransitionFlag = b]
<1>1. r \in Radios BY DEF RadioGood
<1>2. a \in Radios /\ a.calls = r.calls /\ a.numberActiveCalls = r.numberActiveCalls
  BY <1>1 DEF Radios
<1>3. Present(a) = Present(r) BY <1>2 DEF Present
<1> QED BY <1>2, <1>3 DEF RadioGood

-----------------------------------------------------------------------------
(* What a handler leaves.                                                  *)

ResultGood(x) ==
  /\ RadioGood(x.radio)
  /\ x.add \in Seq(RadioCommands)
  /\ x.addDelayed \in Seq(DelayedCommands) /\ Len(x.addDelayed) <= 2

LEMMA ResultForm ==
  ASSUME NEW r, RadioGood(r), NEW err, NEW add \in Seq(RadioCommands),
         NEW d \in Seq(DelayedCommands), Len(d) <= 2
  PROVE  ResultGood(Result(r, err, add, d))
<1> DEFINE x == Result(r, err, add, d)
<1>1. x.radio = r /\ x.add = add /\ x.addDelayed = d BY DEF Result
<1> QED BY <1>1 DEF ResultGood

LEMMA OwnCommandsGood ==
  /\ CMD_UNSOL_CALL_STATE_CHANGED \in RadioCommands
  /\ CMD_UNSOL_CALL_RING \in RadioCommands
  /\ CMD_UNSOL_SIGNAL_STRENGTH \in RadioCommands
  /\ \A index \in Int : \A next \in CallStates : CMD_CALL_STATE_CHANGE(index, next) \in RadioCommands
<1>1. OwnCommands \subseteq Numbers BY DEF Numbers
<1>2. /\ "CMD_UNSOL_CALL_STATE_CHANGED" \in Numbers /\ "CMD_UNSOL_CALL_RING" \in Numbers
      /\ "CMD_UNSOL_SIGNAL_STRENGTH" \in Numbers /\ "CMD_CALL_STATE_CHANGE" \in Numbers
  BY <1>1 DEF OwnCommands
<1> HIDE DEF Numbers
<1> QED BY <1>2 DEF CMD_UNSOL_CALL_STATE_CHANGED, CMD_UNSOL_CALL_RING, CMD_UNSOL_SIGNAL_STRENGTH,
               CMD_CALL_STATE_CHANGE, Cmd, RadioCommands, Commands

\* The answers that add nothing, or the report of a change.
LEMMA AnswersGood ==
  ASSUME NEW r, RadioGood(r)
  PROVE  /\ ResultGood(Success(r)) /\ ResultGood(Failure(r))
         /\ ResultGood(SuccessReported(r)) /\ ResultGood(FailureReported(r))
         /\ \A p : ResultGood(SuccessWith(r, p))
         /\ \A err : ResultGood(Result(r, err, <<>>, <<>>))
         /\ \A err : ResultGood(Result(r, err, <<CMD_UNSOL_CALL_STATE_CHANGED>>, <<>>))
<1> DEFINE none == <<>>
           report == <<CMD_UNSOL_CALL_STATE_CHANGED>>
<1>1. none \in Seq(RadioCommands) /\ none \in Seq(DelayedCommands) /\ Len(none) <= 2 OBVIOUS
<1>2. report \in Seq(RadioCommands) BY OwnCommandsGood
<1>3. \A err : ResultGood(Result(r, err, none, none)) /\ ResultGood(Result(r, err, report, none))
  <2> HIDE DEF none, report
  <2> QED BY <1>1, <1>2, ResultForm
<1>4. \A p : ResultGood(SuccessWith(r, p))
  <2> TAKE p
  <2> DEFINE x == Result(r, "SUCCESS", <<>>, <<>>)
             y == SuccessWith(r, p)
  <2>1. y.radio = x.radio /\ y.add = x.add /\ y.addDelayed = x.addDelayed
    BY DEF SuccessWith, Success, Result
  <2>2. ResultGood(x) BY <1>3
  <2> QED BY <2>1, <2>2 DEF ResultGood
<1> QED BY <1>3, <1>4 DEF Success, Failure, SuccessReported, FailureReported

\* Reached and the calls in a state are calls.
LEMMA ReachedPresent ==
  ASSUME NEW r
  PROVE  /\ \A S, states, from : Reached(r, S, states, from) \subseteq Present(r)
         /\ \A state \in CallStates : getCallsInState(r, state) \subseteq Present(r)
BY DEF Reached, Present, getCallsInState, undefined, CallStates

LEMMA DialGood ==
  ASSUME NEW r, RadioGood(r)
  PROVE  ResultGood(rilRequestDial(r))
<1> DEFINE index == newIndex(r)
           add == <<CMD_CALL_STATE_CHANGE(index, "DIALING")>>
           later == IF r.callTransitionFlag THEN <<>>
                    ELSE <<Delayed(CMD_CALL_STATE_CHANGE(index, "ALERTING"), 1),
                           Delayed(CMD_CALL_STATE_CHANGE(index, "ACTIVE"), 2)>>
           a == addCall(r, "DIALING")
<1>1. /\ "DIALING" \in CallStates /\ "ALERTING" \in CallStates /\ "ACTIVE" \in CallStates
  BY DEF CallStates
<1>2. RadioGood(a) /\ index \in Int BY <1>1, AddGood
<1>3. add \in Seq(RadioCommands) BY <1>1, <1>2, OwnCommandsGood
<1>4. /\ Delayed(CMD_CALL_STATE_CHANGE(index, "ALERTING"), 1) \in DelayedCommands
      /\ Delayed(CMD_CALL_STATE_CHANGE(index, "ACTIVE"), 2) \in DelayedCommands
  BY <1>1, <1>2, OwnCommandsGood DEF Delayed, DelayedCommands
<1>5. later \in Seq(DelayedCommands) /\ Len(later) <= 2 BY <1>4
<1>6. CASE index = -1 BY <1>6, AnswersGood DEF rilRequestDial
<1>7. CASE index # -1
  <2>1. rilRequestDial(r) = Result(a, "SUCCESS", add, later) BY <1>7 DEF rilRequestDial
  <2> HIDE DEF a, add, later
  <2> QED BY <1>2, <1>3, <1>5, <2>1, ResultForm
<1> QED BY <1>6, <1>7

LEMMA HangupGood ==
  ASSUME NEW r, RadioGood(r), NEW index
  PROVE  /\ ResultGood(rilRequestHangUp(r, index))
         /\ ResultGood(ctrlServerCmdHangupConnRemote(r, index))
<1>1. CASE ~removable(r, index)
  BY <1>1, AnswersGood DEF rilRequestHangUp, ctrlServerCmdHangupConnRemote
<1>2. CASE removable(r, index)
  <2> DEFINE a == removeCalls(r, {index})
             b == a.incomingCallIsProcessed \/ r.calls[index].state \in {"INCOMING", "WAITING"}
             c == [a EXCEPT !.incomingCallIsProcessed = b]
  <2>1. {index} \subseteq Present(r) BY <1>2 DEF removable
  <2>2. RadioGood(a) BY <2>1, RemoveGood
  <2>3. b \in BOOLEAN OBVIOUS
  <2>4. RadioGood(c)
    <3> HIDE DEF a, b
    <3> QED BY <2>2, <2>3, ProcessedGood
  <2>5. rilRequestHangUp(r, index) = Success(a) BY <1>2 DEF rilRequestHangUp
  <2>6. ctrlServerCmdHangupConnRemote(r, index) =
          Result(c, CTRL_STATUS_OK, <<CMD_UNSOL_CALL_STATE_CHANGED>>, <<>>)
    BY <1>2 DEF ctrlServerCmdHangupConnRemote
  <2> HIDE DEF a, c
  <2> QED BY <2>2, <2>4, <2>5, <2>6, AnswersGood
<1> QED BY <1>1, <1>2

\* The loops that end or change calls, as far as they get.
LEMMA LoopsGood ==
  ASSUME NEW r, RadioGood(r)
  PROVE  /\ ResultGood(rilRequestHangupWaitingOrBackground(r))
         /\ ResultGood(rilRequestHangUpForegroundResumeBackground(r))
         /\ \A last : ResultGood(rilRequestSwitchWaitingOrHoldingAndActive(r, last))
         /\ \A index : ResultGood(rilReqestSeparateConnection(r, index))
<1>1. "ACTIVE" \in CallStates /\ "HOLDING" \in CallStates BY DEF CallStates
<1>2. \A S, states, from : Reached(r, S, states, from) \subseteq Present(r) BY ReachedPresent
<1>3. ResultGood(rilRequestHangupWaitingOrBackground(r))
  <2> DEFINE ends == {"HOLDING", "WAITING", "INCOMING"}
             ended == Reached(r, Indices, ends, ends)
             a == removeCalls(r, ended)
             b == a.incomingCallIsProcessed \/ ended # {}
             after == [a EXCEPT !.incomingCallIsProcessed = b]
  <2>1. RadioGood(a) BY <1>2, RemoveGood
  <2>2. b \in BOOLEAN OBVIOUS
  <2>3. RadioGood(after)
    <3> HIDE DEF a, b
    <3> QED BY <2>1, <2>2, ProcessedGood
  <2>4. rilRequestHangupWaitingOrBackground(r) \in
          {FailureReported(r), Failure(after), SuccessReported(after)}
    BY DEF rilRequestHangupWaitingOrBackground
  <2> HIDE DEF after
  <2> QED BY <2>3, <2>4, AnswersGood
<1>4. ResultGood(rilRequestHangUpForegroundResumeBackground(r))
  <2> DEFINE known == {"ACTIVE", "HOLDING", "WAITING"}
             S == Reached(r, Indices, known, {"HOLDING", "WAITING"})
             T == Reached(r, Indices, known, {"ACTIVE"})
             a == setState(r, S, "ACTIVE")
             after == removeCalls(a, T)
  <2>1. S \subseteq Present(r) /\ T \subseteq Present(r) BY <1>2
  <2>2. RadioGood(a) /\ Present(a) = Present(r)
    <3> HIDE DEF S
    <3> QED BY <1>1, <2>1, SetGood
  <2>3. RadioGood(after)
    <3> HIDE DEF T, a
    <3> QED BY <2>1, <2>2, RemoveGood
  <2>4. rilRequestHangUpForegroundResumeBackground(r) \in
          {FailureReported(r), Failure(after), SuccessReported(after)}
    BY DEF rilRequestHangUpForegroundResumeBackground
  <2> HIDE DEF after
  <2> QED BY <2>3, <2>4, AnswersGood
<1>5. \A last : ResultGood(rilRequestSwitchWaitingOrHoldingAndActive(r, last))
  <2> TAKE last
  <2> DEFINE known == {"ACTIVE", "HOLDING", "WAITING"}
             S == Reached(r, Indices, known, {"HOLDING", "WAITING"})
             T == Reached(r, Indices, known, {"ACTIVE"})
             a == setState(r, S, "ACTIVE")
             after == setState(a, T, "HOLDING")
  <2>1. S \subseteq Present(r) /\ T \subseteq Present(r) BY <1>2
  <2>2. RadioGood(a) /\ Present(a) = Present(r)
    <3> HIDE DEF S
    <3> QED BY <1>1, <2>1, SetGood
  <2>3. RadioGood(after)
    <3> HIDE DEF T, a
    <3> QED BY <1>1, <2>1, <2>2, SetGood
  <2>4. rilRequestSwitchWaitingOrHoldingAndActive(r, last) \in
          {Success(r), FailureReported(r), Failure(after), SuccessReported(after)}
    BY DEF rilRequestSwitchWaitingOrHoldingAndActive
  <2> HIDE DEF after
  <2> QED BY <2>3, <2>4, AnswersGood
<1>6. \A index : ResultGood(rilReqestSeparateConnection(r, index))
  <2> TAKE index
  <2> DEFINE S == Reached(r, Indices \ {index}, {"ACTIVE"}, {"ACTIVE"})
             after == setState(r, S, "HOLDING")
  <2>1. S \subseteq Present(r) BY <1>2
  <2>2. RadioGood(after)
    <3> HIDE DEF S
    <3> QED BY <1>1, <2>1, SetGood
  <2>3. rilReqestSeparateConnection(r, index) \in
          {Failure(r), Failure(after), SuccessReported(after)}
    BY DEF rilReqestSeparateConnection
  <2> HIDE DEF after
  <2> QED BY <2>2, <2>3, AnswersGood
<1> QED BY <1>3, <1>4, <1>5, <1>6

LEMMA AnswerGood ==
  ASSUME NEW r, RadioGood(r)
  PROVE  ResultGood(rilRequestAnswer(r)) /\ ResultGood(rilRequestConference(r))
<1> DEFINE a == setState(r, Present(r), "ACTIVE")
           b == [a EXCEPT !.incomingCallIsProcessed = TRUE]
           c == removeCalls(r, Present(r))
<1>1. "ACTIVE" \in CallStates BY DEF CallStates
<1>2. RadioGood(a) BY <1>1, SetGood
<1>3. RadioGood(c) BY RemoveGood
<1>4. RadioGood(b)
  <2> HIDE DEF a
  <2>1. \A t \in BOOLEAN : RadioGood([a EXCEPT !.incomingCallIsProcessed = t])
    BY <1>2, ProcessedGood
  <2> QED BY <2>1, Zenon
<1>5. rilRequestAnswer(r) \in {Failure(r), Failure(c), Success(b)} BY DEF rilRequestAnswer
<1>6. rilRequestConference(r) \in {Failure(r), SuccessReported(a)} BY DEF rilRequestConference
<1> HIDE DEF a, b, c
<1> QED BY <1>2, <1>3, <1>4, <1>5, <1>6, AnswersGood

\* The commands the radio gives itself.
LEMMA OwnGood ==
  ASSUME NEW r, RadioGood(r)
  PROVE  /\ \A index : \A next \in CallStates : ResultGood(cmdCallStateChange(r, index, next))
         /\ ResultGood(cmdUnsolCallRing(r))
<1>1. ASSUME NEW index, NEW next \in CallStates
      PROVE  ResultGood(cmdCallStateChange(r, index, next))
  <2> DEFINE a == setState(r, {index} \cap Present(r), next)
  <2>1. RadioGood(a) BY SetGood
  <2>2. cmdCallStateChange(r, index, next) = SuccessReported(a) BY DEF cmdCallStateChange
  <2> HIDE DEF a
  <2> QED BY <2>1, <2>2, AnswersGood
<1>2. ResultGood(cmdUnsolCallRing(r))
  <2> DEFINE calls == [i \in Indices |-> IF r.calls[i].state \in {"INCOMING", "WAITING"}
                                         THEN [r.calls[i] EXCEPT !.rung = TRUE] ELSE r.calls[i]]
             a == [r EXCEPT !.calls = calls]
             none == <<>>
             later == <<Delayed(CMD_UNSOL_CALL_RING, 3)>>
  <2>1. r \in Radios /\ r.numberActiveCalls = Cardinality(Present(r)) BY DEF RadioGood
  <2>2. r.calls \in [Indices -> CallRecords] BY <2>1 DEF Radios
  <2>3. \A c \in CallRecords : c.state \in {"INCOMING", "WAITING"} =>
          /\ [c EXCEPT !.rung = TRUE] \in CallRecords /\ [c EXCEPT !.rung = TRUE] # undefined
          /\ c # undefined
    <3>1. \A c \in CallRecords : \A t \in BOOLEAN : c.state \in {"INCOMING", "WAITING"} =>
            /\ [c EXCEPT !.rung = t] \in CallRecords /\ [c EXCEPT !.rung = t] # undefined
            /\ c # undefined
      BY DEF CallRecords, undefined, CallStates
    <3> QED BY <3>1, Zenon
  <2>4. calls \in [Indices -> CallRecords] BY <2>2, <2>3
  <2>5. a \in Radios /\ a.numberActiveCalls = r.numberActiveCalls /\ a.calls = calls
    <3> HIDE DEF calls
    <3> QED BY <2>1, <2>4 DEF Radios
  <2>6. Present(a) = Present(r)
    <3>1. a.calls = calls BY <2>5
    <3> HIDE DEF a
    <3> QED BY <2>2, <2>3, <3>1 DEF Present
  <2>7. RadioGood(a) BY <2>1, <2>5, <2>6 DEF RadioGood
  <2>8. Delayed(CMD_UNSOL_CALL_RING, 3) \in DelayedCommands
    BY OwnCommandsGood DEF Delayed, DelayedCommands
  <2>9. none \in Seq(RadioCommands) /\ later \in Seq(DelayedCommands) /\ Len(later) <= 2
    BY <2>8
  <2>10. cmdUnsolCallRing(r) \in {Success(r), Result(a, "SUCCESS", none, later)}
    BY DEF cmdUnsolCallRing
  <2> HIDE DEF a, none, later
  <2> QED BY <2>7, <2>9, <2>10, AnswersGood, ResultForm
<1> QED BY <1>1, <1>2

\* The commands of the control client.
LEMMA CtrlGood ==
  ASSUME NEW r, RadioGood(r)
  PROVE  /\ ResultGood(ctrlServerCmdStartInComingCall(r))
         /\ \A flag \in BOOLEAN : ResultGood(ctrlServerCmdSetCallTransitionFlag(r, flag))
         /\ ResultGood(ctrlServerCmdSetCallAlert(r)) /\ ResultGood(ctrlServerCmdSetCallActive(r))
         /\ ResultGood(ctrlServerCmdAddDialingCall(r))
<1>1. ResultGood(ctrlServerCmdStartInComingCall(r))
  <2> DEFINE state == IF r.numberActiveCalls <= 0 THEN "INCOMING" ELSE "WAITING"
             a == addCall(r, state)
             b == [a EXCEPT !.incomingCallIsProcessed = FALSE]
             none == <<>>
             ring == <<CMD_UNSOL_CALL_RING>>
  <2>1. state \in CallStates BY DEF CallStates
  <2>2. RadioGood(a)
    <3> HIDE DEF state
    <3> QED BY <2>1, AddGood
  <2>3. RadioGood(b)
    <3> HIDE DEF a
    <3>1. \A t \in BOOLEAN : RadioGood([a EXCEPT !.incomingCallIsProcessed = t])
      BY <2>2, ProcessedGood
    <3> QED BY <3>1, Zenon
  <2>4. ring \in Seq(RadioCommands) /\ none \in Seq(DelayedCommands) /\ Len(none) <= 2
    BY OwnCommandsGood
  <2>5. ctrlServerCmdStartInComingCall(r) \in
          {Result(r, CTRL_STATUS_ERR, <<>>, <<>>), Result(b, CTRL_STATUS_OK, ring, none)}
    BY DEF ctrlServerCmdStartInComingCall, ringAnew
  <2> HIDE DEF b, none, ring
  <2> QED BY <2>3, <2>4, <2>5, AnswersGood, ResultForm
<1>2. ASSUME NEW flag \in BOOLEAN
      PROVE  ResultGood(ctrlServerCmdSetCallTransitionFlag(r, flag))
  BY TransitionGood, AnswersGood DEF ctrlServerCmdSetCallTransitionFlag
<1>3. ASSUME NEW from \in CallStates, NEW to \in CallStates
      PROVE  ResultGood(controlledTransition(r, from, to))
  <2> DEFINE a == setState(r, getCallsInState(r, from), to)
  <2>1. RadioGood(a) BY ReachedPresent, SetGood
  <2>2. controlledTransition(r, from, to) \in
          {Result(r, CTRL_STATUS_ERR, <<>>, <<>>),
           Result(a, CTRL_STATUS_OK, <<CMD_UNSOL_CALL_STATE_CHANGED>>, <<>>)}
    BY DEF controlledTransition
  <2> HIDE DEF a
  <2> QED BY <2>1, <2>2, AnswersGood
<1>4. ResultGood(ctrlServerCmdAddDialingCall(r))
  <2> DEFINE a == addCall(r, "DIALING")
  <2>1. "DIALING" \in CallStates BY DEF CallStates
  <2>2. RadioGood(a) BY <2>1, AddGood
  <2>3. ctrlServerCmdAddDialingCall(r) \in
          {Result(r, CTRL_STATUS_ERR, <<>>, <<>>), Result(a, CTRL_STATUS_OK, <<>>, <<>>)}
    BY DEF ctrlServerCmdAddDialingCall
  <2> HIDE DEF a
  <2> QED BY <2>2, <2>3, AnswersGood
<1>5. {"DIALING", "ALERTING", "ACTIVE"} \subseteq CallStates BY DEF CallStates
<1> QED BY <1>1, <1>2, <1>3, <1>4, <1>5 DEF ctrlServerCmdSetCallAlert, ctrlServerCmdSetCallActive

-----------------------------------------------------------------------------
(* The dispatch tables.                                                    *)

LEMMA DispatchGood ==
  ASSUME RadioGood(radio), NEW q \in RadioCommands
  PROVE  ResultGood(radioDispatch(q))
<1>1. q.num = "CMD_CALL_STATE_CHANGE" => q.next \in CallStates BY DEF RadioCommands
<1>2. (q.arg = 1) \in BOOLEAN OBVIOUS
<1>3. /\ ResultGood(Success(radio)) /\ \A p : ResultGood(SuccessWith(radio, p))
      /\ \A err : ResultGood(Result(radio, err, <<>>, <<>>))
  BY AnswersGood
<1>4. /\ ResultGood(rilRequestGetCurrentCalls(radio)) /\ ResultGood(rilRequestLastCallFailCause(radio))
      /\ ResultGood(rilRequestSignalStrength(radio)) /\ ResultGood(rilRequestRegistrationState(radio))
      /\ ResultGood(rilRequestGprsRegistrationState(radio))
      /\ ResultGood(rilRequestQueryNeworkSelectionMode(radio))
      /\ ResultGood(rilRequestSetNeworkSelectionAutomatic(radio))
      /\ ResultGood(rilRequestBaseBandVersion(radio)) /\ ResultGood(rilRequestScreenState(radio))
      /\ ResultGood(cmdUnsolSignalStrength(radio)) /\ ResultGood(cmdUnsolCallStateChanged(radio))
  BY <1>3 DEF rilRequestGetCurrentCalls, rilRequestLastCallFailCause, rilRequestSignalStrength,
              rilRequestRegistrationState, rilRequestGprsRegistrationState,
              rilRequestQueryNeworkSelectionMode, rilRequestSetNeworkSelectionAutomatic,
              rilRequestBaseBandVersion, rilRequestScreenState, cmdUnsolSignalStrength,
              cmdUnsolCallStateChanged
<1>5. ResultGood(rilRequestSetMute(radio, gRadioState)) BY <1>3 DEF rilRequestSetMute
<1>6. /\ ResultGood(rilRequestDial(radio)) /\ ResultGood(rilRequestHangUp(radio, q.arg))
      /\ ResultGood(ctrlServerCmdHangupConnRemote(radio, q.arg))
      /\ ResultGood(rilRequestHangupWaitingOrBackground(radio))
      /\ ResultGood(rilRequestHangUpForegroundResumeBackground(radio))
      /\ ResultGood(rilRequestSwitchWaitingOrHoldingAndActive(radio, lastReq))
      /\ ResultGood(rilReqestSeparateConnection(radio, q.arg))
      /\ ResultGood(rilRequestAnswer(radio)) /\ ResultGood(rilRequestConference(radio))
  BY DialGood, HangupGood, LoopsGood, AnswerGood
<1>7. /\ q.num = "CMD_CALL_STATE_CHANGE" => ResultGood(cmdCallStateChange(radio, q.arg, q.next))
      /\ ResultGood(cmdUnsolCallRing(radio))
  BY <1>1, OwnGood
<1>8. /\ ResultGood(ctrlServerCmdStartInComingCall(radio))
      /\ ResultGood(ctrlServerCmdSetCallAlert(radio)) /\ ResultGood(ctrlServerCmdSetCallActive(radio))
      /\ ResultGood(ctrlServerCmdAddDialingCall(radio))
  BY CtrlGood
<1>9. ResultGood(ctrlServerCmdSetCallTransitionFlag(radio, q.arg = 1)) BY <1>2, CtrlGood, Zenon
<1> QED BY <1>3, <1>4, <1>5, <1>6, <1>7, <1>8, <1>9 DEF radioDispatch

-----------------------------------------------------------------------------
(* The queues.                                                             *)

LEMMA CountBelow ==
  ASSUME NEW D, NEW s \in Seq(D), NEW T, T \subseteq DOMAIN s
  PROVE  Cardinality(T) \in Nat /\ Cardinality(T) <= Len(s)
<1> DEFINE n == Len(s)
<1>1. n \in Nat /\ DOMAIN s = 1 .. n OBVIOUS
<1> HIDE DEF n
<1>2. IsFiniteSet(1 .. n) /\ Cardinality(1 .. n) = n BY <1>1, FS_Interval
<1>3. T \in SUBSET (1 .. n) BY <1>1
<1>4. IsFiniteSet(T) /\ Cardinality(T) <= n BY <1>2, <1>3, FS_Subset
<1> QED BY <1>4, FS_CardinalityType DEF n

LEMMA InsertGood ==
  ASSUME NEW D, NEW s \in Seq(D), NEW d \in D
  PROVE  insert(s, d) \in Seq(D)
<1> DEFINE n == Cardinality({i \in DOMAIN s : s[i].left <= d.left})
           left == SubSeq(s, 1, n)
           right == SubSeq(s, n + 1, Len(s))
           mid == <<d>>
<1>1. n \in Nat /\ n <= Len(s) BY CountBelow
<1>2. left \in Seq(D) /\ right \in Seq(D)
  <2> HIDE DEF n
  <2>1. \A i \in 1 .. n : s[i] \in D BY <1>1
  <2>2. left \in Seq(D) BY <1>1, <2>1
  <2>3. right \in Seq(D) BY <1>1
  <2> QED BY <2>2, <2>3
<1>3. mid \in Seq(D) OBVIOUS
<1>4. insert(s, d) = left \o mid \o right BY DEF insert
<1> HIDE DEF left, mid, right
<1> QED BY <1>2, <1>3, <1>4

LEMMA InsertAllGood ==
  ASSUME NEW D, NEW s \in Seq(D), NEW ds \in Seq(D), Len(ds) <= 2
  PROVE  insertAll(s, ds) \in Seq(D)
<1>1. CASE ds = <<>> BY <1>1 DEF insertAll
<1>2. CASE ds # <<>>
  <2>1. ds[1] \in D /\ (Len(ds) # 1 => ds[2] \in D)
    <3> DEFINE n == Len(ds)
    <3>1. n \in Nat /\ n # 0 /\ DOMAIN ds = 1 .. n BY <1>2
    <3> HIDE DEF n
    <3>2. 1 \in 1 .. n /\ (n # 1 => 2 \in 1 .. n) BY <3>1
    <3>3. \A i \in 1 .. n : ds[i] \in D BY <3>1
    <3> QED BY <3>2, <3>3 DEF n
  <2>2. insert(s, ds[1]) \in Seq(D) BY <2>1, InsertGood
  <2>3. Len(ds) # 1 => insert(insert(s, ds[1]), ds[2]) \in Seq(D) BY <2>1, <2>2, InsertGood
  <2> QED BY <1>2, <2>2, <2>3 DEF insertAll
<1> QED BY <1>1, <1>2

LEMMA ArgsInt == \A num : Args(num) \subseteq Int
<1>1. maxNumberActiveCalls \in Nat BY CallLimits
<1>2. Indices \subseteq Int BY <1>1 DEF Indices
<1>3. DOMAIN RadioStates \subseteq Int BY DEF RadioStates
<1> QED BY <1>2, <1>3 DEF Args

LEMMA ScenarioNumbers ==
  \A s \in Scenarios, k \in Nat : nth(s.ril, k) \subseteq Numbers /\ nth(s.ctrl, k) \subseteq Numbers
<1> TAKE s \in Scenarios, k \in Nat
<1>1. nth(s.ril, k) \in Asked /\ nth(s.ctrl, k) \in Asked BY DEF Asked
<1> HIDE DEF Asked
<1>2. nth(s.ril, k) \subseteq UNION Asked /\ nth(s.ctrl, k) \subseteq UNION Asked BY <1>1, Zenon
<1> QED BY <1>2 DEF Numbers

LEMMA NoCommandGood == Cmd("", 0, "none") \in Commands
BY DEF Cmd, Commands, Numbers

LEMMA CallsInit == Init => CallsInv
<1> SUFFICES ASSUME Init PROVE CallsInv OBVIOUS
<1>1. radio = [calls |-> [i \in Indices |-> undefined], numberActiveCalls |-> 0,
               incomingCallIsProcessed |-> FALSE, callTransitionFlag |-> FALSE]
  BY DEF Init
<1>2. undefined \in CallRecords BY DEF undefined, CallRecords
<1>3. radio \in Radios BY <1>1, <1>2 DEF Radios
<1>4. radio.numberActiveCalls = 0 BY <1>1
<1>5. Present(radio) = {} BY <1>1 DEF Present
<1>6. RadioGood(radio) BY <1>3, <1>4, <1>5, FS_EmptySet DEF RadioGood
<1>7. Cmd("", 0, "none") \in Commands BY NoCommandGood
<1>8. QueueInv
  <2>1. /\ scenario \in Scenarios /\ rilQ = <<>> /\ radioQ = <<>> /\ delayedQ = <<>>
        /\ conn = 0 /\ incoming = Cmd("", 0, "none") /\ sent = [ril |-> 0, ctrl |-> 0]
    BY DEF Init
  <2>2. sent \in [ril : Nat, ctrl : Nat] BY <2>1
  <2>3. incoming \in Commands BY <1>7, <2>1
  <2>4. rilQ \in Seq(Commands) /\ radioQ \in Seq(RadioCommands) /\ delayedQ \in Seq(DelayedCommands)
    <3>1. \A S : <<>> \in Seq(S) OBVIOUS
    <3> QED BY <2>1, <3>1, Zenon
  <2> QED BY <2>1, <2>2, <2>3, <2>4 DEF QueueInv
<1> QED BY <1>6, <1>8 DEF CallsInv

\* A command from outside is no change of state, if the radio gets it at all.
LEMMA OutsideGood ==
  ASSUME NEW q \in Commands, q.num \in RadioRequests \cup ctrlServerDispatchTable
  PROVE  q \in RadioCommands
BY DEF RadioCommands, RadioRequests, ctrlServerDispatchTable

LEMMA RadioStep ==
  ASSUME CallsInv, radioProcess
  PROVE  CallsInv'
<1>1. QueueInv /\ RadioGood(radio) BY DEF CallsInv
<1>2. radioQ \in Seq(RadioCommands) /\ delayedQ \in Seq(DelayedCommands) BY <1>1 DEF QueueInv
<1> DEFINE q == Head(radioQ)
           x == radioDispatch(q)
<1>3. /\ radioQ # <<>> /\ radio' = x.radio /\ radioQ' = Tail(radioQ) \o x.add
      /\ delayedQ' = insertAll(delayedQ, x.addDelayed)
      /\ UNCHANGED <<scenario, rilQ, sent, conn, incoming>>
  BY DEF radioProcess, ctrlVars
<1>4. q \in RadioCommands /\ Tail(radioQ) \in Seq(RadioCommands) BY <1>2, <1>3
<1>5. ResultGood(x) BY <1>1, <1>4, DispatchGood
<1> HIDE DEF x
<1>6. /\ RadioGood(x.radio) /\ x.add \in Seq(RadioCommands)
      /\ x.addDelayed \in Seq(DelayedCommands) /\ Len(x.addDelayed) <= 2
  BY <1>5 DEF ResultGood
<1>7. RadioGood(radio)'
  <2>1. radio' = x.radio BY <1>3
  <2> QED BY <1>6, <2>1 DEF RadioGood, Present
<1>8. radioQ' \in Seq(RadioCommands) BY <1>3, <1>4, <1>6
<1>9. delayedQ' \in Seq(DelayedCommands) BY <1>2, <1>3, <1>6, InsertAllGood
<1> QED BY <1>1, <1>3, <1>7, <1>8, <1>9 DEF CallsInv, QueueInv

LEMMA MoveStep ==
  ASSUME CallsInv, radioMove
  PROVE  CallsInv'
<1>1. QueueInv /\ RadioGood(radio) BY DEF CallsInv
<1>2. delayedQ \in Seq(DelayedCommands) BY <1>1 DEF QueueInv
<1> DEFINE due == Cardinality({i \in DOMAIN delayedQ : delayedQ[i].left = 0})
           moved == [i \in 1 .. due |-> delayedQ[i].cmd]
<1>3. due \in Nat /\ due <= Len(delayedQ) BY <1>2, CountBelow
<1>4. PICK signal \in {<<>>} \cup (IF scenario.minute THEN {<<CMD_UNSOL_SIGNAL_STRENGTH>>} ELSE {}) :
        /\ radioQ' = moved \o signal
        /\ delayedQ' = SubSeq(delayedQ, due + 1, Len(delayedQ))
  BY DEF radioMove
<1>5. signal \in Seq(RadioCommands)
  <2>1. <<>> \in Seq(RadioCommands) /\ <<CMD_UNSOL_SIGNAL_STRENGTH>> \in Seq(RadioCommands)
    BY OwnCommandsGood
  <2>2. signal = <<>> \/ signal = <<CMD_UNSOL_SIGNAL_STRENGTH>> BY <1>4
  <2> QED BY <2>1, <2>2
<1>6. moved \in Seq(RadioCommands)
  <2> HIDE DEF due
  <2>1. \A i \in 1 .. due : delayedQ[i] \in DelayedCommands BY <1>2, <1>3
  <2>2. \A i \in 1 .. due : delayedQ[i].cmd \in RadioCommands BY <2>1 DEF DelayedCommands
  <2> QED BY <1>3, <2>2
<1> HIDE DEF due, moved
<1>7. radioQ' \in Seq(RadioCommands) BY <1>4, <1>5, <1>6
<1>8. delayedQ' \in Seq(DelayedCommands) BY <1>2, <1>3, <1>4
<1>9. UNCHANGED <<scenario, radio, rilQ, sent, conn, incoming>> BY DEF radioMove, ctrlVars
<1> QED BY <1>1, <1>7, <1>8, <1>9 DEF CallsInv, QueueInv, RadioGood, Present

LEMMA ArrivalStep ==
  ASSUME CallsInv, \E num \in nth(scenario.ril, sent.ril + 1) : \E arg \in Args(num) : onRequest(num, arg)
  PROVE  CallsInv'
<1>1. QueueInv /\ RadioGood(radio) BY DEF CallsInv
<1>2. PICK num \in nth(scenario.ril, sent.ril + 1) : \E arg \in Args(num) : onRequest(num, arg) OBVIOUS
<1>3. PICK arg \in Args(num) : onRequest(num, arg) BY <1>2
<1>4. scenario \in Scenarios /\ sent \in [ril : Nat, ctrl : Nat] /\ rilQ \in Seq(Commands)
  BY <1>1 DEF QueueInv
<1>5. num \in Numbers /\ arg \in Int
  <2>1. sent.ril + 1 \in Nat /\ sent.ctrl + 1 \in Nat BY <1>4
  <2>2. num \in Numbers
    <3> HIDE DEF Numbers
    <3> QED BY <1>2, <1>4, <2>1, ScenarioNumbers
  <2> QED BY <1>3, <2>2, ArgsInt
<1> DEFINE q == [Cmd(num, arg, "none") EXCEPT !.token = sent.ril + 1]
<1>6. q \in Commands
  <2> HIDE DEF Numbers
  <2> QED BY <1>4, <1>5 DEF Cmd, Commands
<1>7. /\ rilQ' = Append(rilQ, q) \/ rilQ' = rilQ
      /\ sent' = [sent EXCEPT !.ril = @ + 1]
      /\ UNCHANGED <<scenario, radio, radioQ, delayedQ, conn, incoming>>
  BY <1>3 DEF onRequest, ctrlVars
<1> HIDE DEF q
<1>8. rilQ' \in Seq(Commands)
  <2>1. Append(rilQ, q) \in Seq(Commands) BY <1>4, <1>6
  <2>2. rilQ' = Append(rilQ, q) \/ rilQ' = rilQ BY <1>7
  <2> QED BY <1>4, <2>1, <2>2
<1>9. sent' \in [ril : Nat, ctrl : Nat] BY <1>4, <1>7
<1> QED BY <1>1, <1>7, <1>8, <1>9 DEF CallsInv, QueueInv, RadioGood, Present

LEMMA RilRequestStep ==
  ASSUME CallsInv, onRilRequest
  PROVE  CallsInv'
<1>1. QueueInv /\ RadioGood(radio) BY DEF CallsInv
<1>2. rilQ \in Seq(Commands) /\ radioQ \in Seq(RadioCommands) BY <1>1 DEF QueueInv
<1> DEFINE q == Head(rilQ)
<1>3. /\ rilQ # <<>> /\ rilQ' = Tail(rilQ)
      /\ radioQ' = IF q.num \in RadioRequests THEN Append(radioQ, q) ELSE radioQ
      /\ UNCHANGED <<scenario, radio, delayedQ, sent, conn, incoming>>
  BY DEF onRilRequest, dispatchTable, ctrlVars
<1>4. q \in Commands /\ rilQ' \in Seq(Commands) BY <1>2, <1>3
<1> HIDE DEF q
<1>5. q.num \in RadioRequests => q \in RadioCommands BY <1>4, OutsideGood
<1>6. radioQ' \in Seq(RadioCommands) BY <1>2, <1>3, <1>5
<1> QED BY <1>1, <1>3, <1>4, <1>6 DEF CallsInv, QueueInv, RadioGood, Present

LEMMA MessageStep ==
  ASSUME CallsInv, ctrlMessage
  PROVE  CallsInv'
<1>1. QueueInv /\ RadioGood(radio) BY DEF CallsInv
<1>2. incoming \in Commands /\ radioQ \in Seq(RadioCommands) BY <1>1 DEF QueueInv
<1>3. /\ incoming' = Cmd("", 0, "none")
      /\ \/ radioQ' = radioQ
         \/ incoming.num \in ctrlServerDispatchTable /\ radioQ' = Append(radioQ, incoming)
      /\ UNCHANGED <<scenario, radio, rilQ, delayedQ, sent, conn>>
  BY DEF ctrlMessage, sendToCtrlServer, onCtrlServerCmd
<1>4. incoming' \in Commands BY <1>3, NoCommandGood
<1>5. incoming.num \in ctrlServerDispatchTable => incoming \in RadioCommands
  BY <1>2, OutsideGood
<1>6. radioQ' \in Seq(RadioCommands)
  <2>1. incoming \in RadioCommands => Append(radioQ, incoming) \in Seq(RadioCommands) BY <1>2
  <2>2. radioQ' = radioQ \/ (incoming \in RadioCommands /\ radioQ' = Append(radioQ, incoming))
    BY <1>3, <1>5
  <2> QED BY <1>2, <2>1, <2>2
<1> QED BY <1>1, <1>3, <1>4, <1>6 DEF CallsInv, QueueInv, RadioGood, Present

LEMMA ReadStep ==
  ASSUME CallsInv, \E num \in nth(scenario.ctrl, sent.ctrl + 1) : \E arg \in Args(num) : ctrlReadMessage(num, arg)
  PROVE  CallsInv'
<1>1. QueueInv /\ RadioGood(radio) BY DEF CallsInv
<1>2. PICK num \in nth(scenario.ctrl, sent.ctrl + 1) : \E arg \in Args(num) : ctrlReadMessage(num, arg) OBVIOUS
<1>3. PICK arg \in Args(num) : ctrlReadMessage(num, arg) BY <1>2
<1>4. scenario \in Scenarios /\ sent \in [ril : Nat, ctrl : Nat] /\ conn \in Nat
  BY <1>1 DEF QueueInv
<1>5. num \in Numbers /\ arg \in Int
  <2>1. sent.ril + 1 \in Nat /\ sent.ctrl + 1 \in Nat BY <1>4
  <2>2. num \in Numbers
    <3> HIDE DEF Numbers
    <3> QED BY <1>2, <1>4, <2>1, ScenarioNumbers
  <2> QED BY <1>3, <2>2, ArgsInt
<1>6. /\ incoming' = [Cmd(num, arg, "none") EXCEPT !.token = sent.ctrl + 1, !.conn = conn]
      /\ sent' = [sent EXCEPT !.ctrl = @ + 1]
      /\ UNCHANGED <<scenario, radio, rilQ, radioQ, delayedQ, conn>>
  BY <1>3 DEF ctrlReadMessage, queueVars
<1>7. incoming' \in Commands
  <2> DEFINE token == sent.ctrl + 1
  <2>1. token \in Nat BY <1>4
  <2>2. incoming' = [Cmd(num, arg, "none") EXCEPT !.token = token, !.conn = conn] BY <1>6
  <2> HIDE DEF token
  <2> QED BY <1>4, <1>5, <2>1, <2>2 DEF Cmd, Commands
<1>8. sent' \in [ril : Nat, ctrl : Nat] BY <1>4, <1>6
<1> QED BY <1>1, <1>6, <1>7, <1>8 DEF CallsInv, QueueInv, RadioGood, Present

LEMMA ElapseStep ==
  ASSUME CallsInv, Elapse
  PROVE  CallsInv'
<1>1. QueueInv /\ RadioGood(radio) BY DEF CallsInv
<1>2. delayedQ \in Seq(DelayedCommands) BY <1>1 DEF QueueInv
<1> DEFINE later(d) == [d EXCEPT !.left = IF d.left > 0 THEN d.left - 1 ELSE 0]
           n == Len(delayedQ)
<1>3. \A d \in DelayedCommands : later(d) \in DelayedCommands BY DEF DelayedCommands
<1>4. n \in Nat /\ DOMAIN delayedQ = 1 .. n BY <1>2
<1>5. \A i \in 1 .. n : delayedQ[i] \in DelayedCommands BY <1>2
<1>6. /\ delayedQ' = [i \in 1 .. n |-> later(delayedQ[i])]
      /\ UNCHANGED <<scenario, radio, rilQ, radioQ, sent, conn, incoming>>
  BY <1>4 DEF Elapse, ctrlVars
<1>7. delayedQ' \in Seq(DelayedCommands)
  <2> HIDE DEF n, later
  <2> QED BY <1>3, <1>4, <1>5, <1>6
<1> QED BY <1>1, <1>6, <1>7 DEF CallsInv, QueueInv, RadioGood, Present

\* The steps that change neither the radio nor what it has to do.
LEMMA OtherStep ==
  ASSUME CallsInv, iccProcess \/ ctrlAccept \/ ctrlClosed \/ ctrlProcess \/ mishand \/ UNCHANGED vars
  PROVE  CallsInv'
<1>1. QueueInv /\ RadioGood(radio) BY DEF CallsInv
<1>2. /\ UNCHANGED <<scenario, radio, rilQ, radioQ, delayedQ, sent>>
      /\ conn' = conn \/ conn' = conn + 1
      /\ incoming' = incoming \/ incoming' = Cmd("", 0, "none")
  BY DEF iccProcess, ctrlAccept, ctrlClosed, ctrlProcess, mishand, vars, queueVars, ctrlVars
<1>3. incoming' \in Commands BY <1>1, <1>2, NoCommandGood DEF QueueInv
<1>4. conn' \in Nat
  <2>1. conn \in Nat BY <1>1 DEF QueueInv
  <2>2. conn' = conn \/ conn' = conn + 1 BY <1>2
  <2> QED BY <2>1, <2>2
<1> QED BY <1>1, <1>2, <1>3, <1>4 DEF CallsInv, QueueInv, RadioGood, Present

LEMMA CallsStep == CallsInv /\ [Next]_vars => CallsInv'
<1> SUFFICES ASSUME CallsInv, [Next]_vars PROVE CallsInv' OBVIOUS
<1>1. \/ \E num \in nth(scenario.ril, sent.ril + 1) : \E arg \in Args(num) : onRequest(num, arg)
      \/ onRilRequest \/ radioProcess \/ radioMove \/ Elapse \/ ctrlMessage
      \/ \E num \in nth(scenario.ctrl, sent.ctrl + 1) : \E arg \in Args(num) : ctrlReadMessage(num, arg)
      \/ iccProcess \/ ctrlAccept \/ ctrlClosed \/ ctrlProcess \/ mishand \/ UNCHANGED vars
  BY DEF Next, RadioWork
<1> QED BY <1>1, ArrivalStep, RilRequestStep, RadioStep, MoveStep, ElapseStep, MessageStep,
           ReadStep, OtherStep

\* numberActiveCalls is the number of the calls, whatever the handlers of the
\* radio do, however many calls it has room for and whatever is sent to it
\* (addCall, removeCall and the loops over the calls).
THEOREM CallsAreCounted == Spec => []CallsCounted
<1>1. CallsInv => CallsCounted BY DEF CallsInv, RadioGood, CallsCounted
<1> QED BY CallsInit, CallsStep, <1>1, PTL DEF Spec

-----------------------------------------------------------------------------
(* What the framework is told.                                             *)

Told(t, r) ==
  /\ t.num # "DIAL" => t.code = t.said
  /\ t.data.unset \subseteq {"cdma_subscription_app_index"}
  /\ t.code = "SUCCESS" =>
       t.data.default \subseteq {"pin2", "name_presentation", "uus_info"} \cup
                                (IF Present(r) = {} THEN RilCall ELSE {})

\* Whatever the message, the only member that is never assigned is that of RspGetSimStatus.
LEMMA ConversionAssigns ==
  ASSUME NEW num, NEW protobuf
  PROVE  rilRspConversionMap(num, protobuf).unset \subseteq {"cdma_subscription_app_index"}
<1>1. RspGetSimStatus(protobuf).unset \subseteq {"cdma_subscription_app_index"}
  BY DEF RspGetSimStatus, Structure
<1>2. /\ RspEnterSimPinData(protobuf).unset = {} /\ RspGetCurrentCalls(protobuf).unset = {}
      /\ RspString(protobuf).unset = {} /\ RspIntegers(protobuf).unset = {}
      /\ RspSignalStrength(protobuf).unset = {} /\ RspStrings(protobuf).unset = {}
      /\ RspOperator(protobuf).unset = {} /\ RspWithNoData(protobuf).unset = {}
  BY DEF RspEnterSimPinData, RspGetCurrentCalls, RspString, RspIntegers, RspSignalStrength,
         RspStrings, RspOperator, RspWithNoData, Structure
<1> QED BY <1>1, <1>2 DEF rilRspConversionMap

\* An answer is told as decided when nothing its success needs is left at a default.
LEMMA CompletedAsDecided ==
  ASSUME NEW num, NEW err, NEW protobuf, NEW r,
         err = "SUCCESS" \/ num = "DIAL" =>
           rilRspConversionMap(num, protobuf).default \subseteq
             {"pin2", "name_presentation", "uus_info"} \cup
             (IF Present(r) = {} THEN RilCall ELSE {})
  PROVE  Told(SendRilRequestComplete(num, err, protobuf), r)
<1> DEFINE data == rilRspConversionMap(num, protobuf)
           t == SendRilRequestComplete(num, err, protobuf)
<1>1. /\ t.num = num /\ t.said = err /\ t.data = data
      /\ num # "DIAL" => t.code = err
  BY DEF SendRilRequestComplete, unconverted
<1>2. data.unset \subseteq {"cdma_subscription_app_index"} BY ConversionAssigns
<1> HIDE DEF t, data
<1>3. t.code = "SUCCESS" =>
        data.default \subseteq {"pin2", "name_presentation", "uus_info"} \cup
                               (IF Present(r) = {} THEN RilCall ELSE {})
  BY <1>1 DEF data
<1>4. Told(t, r) BY <1>1, <1>2, <1>3 DEF Told
<1> QED BY <1>4 DEF t

\* The SIM: every object it answers with has what its structure needs but pin2.
LEMMA IccData ==
  ASSUME NEW num, num \in IccRequests
  PROVE  rilRspConversionMap(num, simDispatchTable(num)).default \subseteq {"pin2"}
<1>1. CASE num = "GET_SIM_STATUS"
  <2>1. rilRspConversionMap(num, simDispatchTable(num)) = RspGetSimStatus(rilRequestGetSimStatus)
    BY <1>1 DEF rilRspConversionMap, simDispatchTable
  <2>2. RspGetSimStatus(rilRequestGetSimStatus).default \subseteq {"pin2"}
    BY DEF RspGetSimStatus, rilRequestGetSimStatus, serialize, Structure, Fields, IccAppStatus,
           RilAppStatus, RilCardStatus
  <2> QED BY <2>1, <2>2
<1>2. CASE num = "ENTER_SIM_PIN"
  BY <1>2 DEF rilRspConversionMap, simDispatchTable, RspEnterSimPinData, rilRequestEnterSimPin,
              serialize, Structure, Fields
<1>3. CASE num = "OPERATOR"
  BY <1>3 DEF rilRspConversionMap, simDispatchTable, RspOperator, rilRequestOperator, serialize,
              Structure, Fields
<1>4. CASE num \in {"GET_IMSI", "GET_IMEI", "GET_IMEISV"}
  BY <1>4 DEF rilRspConversionMap, simDispatchTable, RspString, rilRequestGetImsi, rilRequestGetImei,
              rilRequestGetImeisv, serialize, Structure, Fields
<1> QED BY <1>1, <1>2, <1>3, <1>4 DEF IccRequests

\* The radio's data: a request whose success carries some is answered with all of it.
LEMMA RadioData ==
  ASSUME NEW q, NEW x, x = radioDispatch(q), x.rilErrCode = "SUCCESS" \/ q.num = "DIAL"
  PROVE  rilRspConversionMap(q.num, x.responseProtobuf).default \subseteq
           {"name_presentation", "uus_info"} \cup (IF Present(x.radio) = {} THEN RilCall ELSE {})
<1> DEFINE p == x.responseProtobuf
           d == rilRspConversionMap(q.num, p).default
<1>1. CASE q.num = "GET_CURRENT_CALLS"
  <2>1. x = rilRequestGetCurrentCalls(radio) BY <1>1 DEF radioDispatch
  <2>2. x.radio = radio /\ p = serialize("RspGetCurrentCalls", IF Present(radio) = {} THEN {} ELSE RadioCall)
    BY <2>1 DEF rilRequestGetCurrentCalls, SuccessWith, Success, Result
  <2>3. p.message = "RspGetCurrentCalls"
        /\ p.fields = (IF Present(radio) = {} THEN {} ELSE RadioCall)
    BY <2>2 DEF serialize, Fields, RadioCall
  <2>4. d = RilCall \ (IF Present(radio) = {} THEN {} ELSE RadioCall)
    BY <1>1, <2>3 DEF rilRspConversionMap, RspGetCurrentCalls, Structure
  <2> QED BY <2>2, <2>4 DEF RadioCall
<1>2. CASE q.num \in {"LAST_CALL_FAIL_CAUSE", "QUERY_NETWORK_SELECTION_MODE"}
  <2>1. p = serialize("RspIntegers", 0 .. 0)
    BY <1>2 DEF radioDispatch, rilRequestLastCallFailCause, rilRequestQueryNeworkSelectionMode,
                SuccessWith, Success, Result
  <2>2. p.message = "RspIntegers" BY <2>1 DEF serialize
  <2> QED BY <1>2, <2>2 DEF rilRspConversionMap, RspIntegers, Structure
<1>3. CASE q.num \in {"REGISTRATION_STATE", "GPRS_REGISTRATION_STATE"}
  <2>1. p = serialize("RspStrings", 0 .. 14) \/ p = serialize("RspStrings", 0 .. 3)
    BY <1>3 DEF radioDispatch, rilRequestRegistrationState, rilRequestGprsRegistrationState,
                SuccessWith, Success, Result
  <2>2. p.message = "RspStrings" BY <2>1 DEF serialize
  <2> QED BY <1>3, <2>2 DEF rilRspConversionMap, RspStrings, Structure
<1>4. CASE q.num = "BASEBAND_VERSION"
  <2>1. p = serialize("RspStrings", 0 .. 0)
    BY <1>4 DEF radioDispatch, rilRequestBaseBandVersion, SuccessWith, Success, Result
  <2>2. p.message = "RspStrings" /\ 0 \in p.fields BY <2>1 DEF serialize, Fields
  <2> QED BY <1>4, <2>2 DEF rilRspConversionMap, RspString, Structure
<1>5. CASE q.num = "SIGNAL_STRENGTH"
  <2>1. p = serialize("RspSignalStrength", RILSignalStrength)
    BY <1>5 DEF radioDispatch, rilRequestSignalStrength, SuccessWith, Success, Result
  <2>2. p.message = "RspSignalStrength" /\ p.fields = RILSignalStrength
    BY <2>1 DEF serialize, Fields
  <2> QED BY <1>5, <2>2 DEF rilRspConversionMap, RspSignalStrength, Structure
<1>6. CASE q.num \in IccRequests
  <2>1. x.rilErrCode = "REQUEST_NOT_SUPPORTED" /\ q.num # "DIAL"
    BY <1>6 DEF radioDispatch, IccRequests, Result
  <2> QED BY <2>1
<1>7. CASE q.num \notin IccRequests \cup
             {"GET_CURRENT_CALLS", "LAST_CALL_FAIL_CAUSE", "QUERY_NETWORK_SELECTION_MODE",
              "REGISTRATION_STATE", "GPRS_REGISTRATION_STATE", "BASEBAND_VERSION",
              "SIGNAL_STRENGTH"}
  <2>1. rilRspConversionMap(q.num, p) = RspWithNoData(p)
    <3> HIDE DEF p
    <3> QED BY <1>7 DEF rilRspConversionMap, IccRequests
  <2> QED BY <2>1 DEF RspWithNoData
<1> QED BY <1>1, <1>2, <1>3, <1>4, <1>5, <1>6, <1>7

LEMMA NothingTold == \A r : Told(nothingTold, r)
BY DEF Told, nothingTold, RspWithNoData

LEMMA RadioTold ==
  ASSUME radioProcess
  PROVE  Told(told', radio')
<1> DEFINE q == Head(radioQ)
           x == radioDispatch(q)
<1>1. /\ radio' = x.radio
      /\ \/ told' = nothingTold
         \/ /\ reports(q) \/ q.num = "CMD_UNSOL_SIGNAL_STRENGTH"
            /\ told' = SendRilUnsolicitedResponse(q.num, x.responseProtobuf)
         \/ told' = SendRilRequestComplete(q.num, x.rilErrCode, x.responseProtobuf)
  BY DEF radioProcess, complete, OnRequestComplete, ctrlComplete
<1>2. CASE told' = nothingTold BY <1>2, NothingTold
<1>3. CASE told' = SendRilRequestComplete(q.num, x.rilErrCode, x.responseProtobuf)
  <2>1. x.rilErrCode = "SUCCESS" \/ q.num = "DIAL" =>
          rilRspConversionMap(q.num, x.responseProtobuf).default \subseteq
            {"pin2", "name_presentation", "uus_info"} \cup
            (IF Present(radio') = {} THEN RilCall ELSE {})
    <3> HIDE DEF q
    <3>1. SUFFICES ASSUME x.rilErrCode = "SUCCESS" \/ q.num = "DIAL"
          PROVE rilRspConversionMap(q.num, x.responseProtobuf).default \subseteq
            {"pin2", "name_presentation", "uus_info"} \cup
            (IF Present(x.radio) = {} THEN RilCall ELSE {})
      BY <1>1
    <3>2. rilRspConversionMap(q.num, x.responseProtobuf).default \subseteq
            {"name_presentation", "uus_info"} \cup
            (IF Present(x.radio) = {} THEN RilCall ELSE {})
      BY <3>1, RadioData
    <3> QED BY <3>2
  <2> HIDE DEF q, x
  <2> QED BY <1>3, <2>1, CompletedAsDecided
<1>4. CASE /\ reports(q) \/ q.num = "CMD_UNSOL_SIGNAL_STRENGTH"
           /\ told' = SendRilUnsolicitedResponse(q.num, x.responseProtobuf)
  <2>1. CASE q.num = "CMD_UNSOL_SIGNAL_STRENGTH"
    <3>1. x.responseProtobuf = serialize("RspSignalStrength", RILSignalStrength)
      BY <2>1 DEF radioDispatch, cmdUnsolSignalStrength, SuccessWith, Success, Result
    <3> HIDE DEF q, x
    <3>2. x.responseProtobuf.message = "RspSignalStrength" /\ x.responseProtobuf.fields = RILSignalStrength
      BY <3>1 DEF serialize, Fields
    <3>3. told'.data.unset = {} /\ told'.data.default = {}
      BY <1>4, <2>1, <3>2 DEF SendRilUnsolicitedResponse, UnsolRspSignalStrength, RspSignalStrength,
                              Structure
    <3>4. told'.code = told'.said BY <1>4 DEF SendRilUnsolicitedResponse
    <3> QED BY <3>3, <3>4 DEF Told
  <2>2. CASE q.num # "CMD_UNSOL_SIGNAL_STRENGTH"
    <3> HIDE DEF q, x
    <3> QED BY <1>4, <2>2 DEF SendRilUnsolicitedResponse, RspWithNoData, Told
  <2> QED BY <2>1, <2>2
<1> QED BY <1>1, <1>2, <1>3, <1>4

LEMMA IccTold ==
  ASSUME iccProcess
  PROVE  Told(told', radio')
<1> DEFINE q == Head(iccQ)
           err == IF q.num \in IccRequests THEN "SUCCESS" ELSE "REQUEST_NOT_SUPPORTED"
           p == simDispatchTable(q.num)
<1>1. told' = SendRilRequestComplete(q.num, err, p)
  BY DEF iccProcess, complete, OnRequestComplete
<1>2. q.num \in IccRequests => rilRspConversionMap(q.num, p).default \subseteq {"pin2"} BY IccData
<1>3. q.num = "DIAL" => rilRspConversionMap(q.num, p).default = {}
  <2> HIDE DEF p, q
  <2> QED BY DEF rilRspConversionMap, RspWithNoData
<1>4. err = "SUCCESS" \/ q.num = "DIAL" =>
        rilRspConversionMap(q.num, p).default \subseteq {"pin2"}
  <2> HIDE DEF p, q
  <2> QED BY <1>2, <1>3
<1> HIDE DEF p, q, err
<1> QED BY <1>1, <1>4, CompletedAsDecided

LEMMA RequestTold ==
  ASSUME NEW num, NEW arg, onRequest(num, arg)
  PROVE  Told(told', radio')
<1>1. \/ told' = nothingTold
      \/ \E err \in {"REQUEST_NOT_SUPPORTED", "GENERIC_FAILURE"} :
           told' = [nothingTold EXCEPT !.num = num, !.said = err, !.code = err]
  BY DEF onRequest, OnRequestComplete
<1> QED BY <1>1, NothingTold DEF Told, nothingTold, RspWithNoData

LEMMA StateTold ==
  ASSUME ctrlProcess
  PROVE  Told(told', radio')
<1>1. \/ told' = nothingTold
      \/ told' = SendRilUnsolicitedResponse("RADIO_STATE_CHANGED", emptyProtobuf)
  BY DEF ctrlProcess, ctrlSetRadioState, ctrlGetRadioState
<1>2. CASE told' = nothingTold BY <1>2, NothingTold
<1>3. CASE told' = SendRilUnsolicitedResponse("RADIO_STATE_CHANGED", emptyProtobuf)
  BY <1>3 DEF SendRilUnsolicitedResponse, Told, RspWithNoData
<1> QED BY <1>1, <1>2, <1>3

\* The framework is told what the handler decided, with every member of the
\* structure assigned, for every request the framework may send and in every
\* state of the calls (process, serialize, SendRilRequestComplete, the
\* conversions of responses.cpp; the exceptions are those of ToldAsDecided).
THEOREM FrameworkToldAsDecided == Spec => []ToldAsDecided
<1>1. Told(told, radio) <=> ToldAsDecided BY DEF Told, ToldAsDecided
<1>2. Init => ToldAsDecided BY <1>1, NothingTold DEF Init
<1>3. ToldAsDecided /\ [Next]_vars => ToldAsDecided'
  <2> SUFFICES ASSUME ToldAsDecided, [Next]_vars PROVE ToldAsDecided' OBVIOUS
  <2>1. Told(told', radio') => ToldAsDecided' BY DEF Told, ToldAsDecided, Present
  <2>2. CASE \E num \in nth(scenario.ril, sent.ril + 1) : \E arg \in Args(num) : onRequest(num, arg)
    BY <2>1, <2>2, RequestTold
  <2>3. CASE iccProcess BY <2>1, <2>3, IccTold
  <2>4. CASE radioProcess BY <2>1, <2>4, RadioTold
  <2>5. CASE \/ onRilRequest \/ radioMove \/ Elapse \/ ctrlAccept \/ ctrlMessage \/ ctrlClosed
             \/ \E num \in nth(scenario.ctrl, sent.ctrl + 1) : \E arg \in Args(num) : ctrlReadMessage(num, arg)
    <3>1. told' = nothingTold
      BY <2>5 DEF onRilRequest, radioMove, Elapse, ctrlAccept, ctrlMessage, sendToCtrlServer,
                  onCtrlServerCmd, ctrlComplete, ctrlClosed, ctrlReadMessage
    <3> QED BY <2>1, <3>1, NothingTold
  <2>6. CASE ctrlProcess BY <2>1, <2>6, StateTold
  <2>7. CASE mishand \/ UNCHANGED vars BY <2>7 DEF mishand, vars, ToldAsDecided, Present
  <2> QED BY <2>2, <2>3, <2>4, <2>5, <2>6, <2>7 DEF Next, RadioWork
<1> QED BY <1>2, <1>3, PTL DEF Spec

=============================================================================
