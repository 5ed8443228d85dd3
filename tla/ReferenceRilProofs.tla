------------------------- MODULE ReferenceRilProofs -------------------------
(* Proofs about ReferenceRil, for any number of channels and any scenarios:   *)
(* the radio state after a close, its reports to the client, and the          *)
(* completion of the requests.                                                *)
EXTENDS ReferenceRil, SequenceTheorems, TLAPS

ReaderPoints == {"none", "read", "eof", "set", "test", "report", "send", "sent",
                 "powerOn", "gone"}

Errors == {"SUCCESS", "GENERIC_FAILURE", "PASSWORD_INCORRECT", "RADIO_NOT_AVAILABLE",
           "REQUEST_NOT_SUPPORTED"}

Words == Errors \cup RadioStates \cup CallStates \cup {""}

Ops == {"set", "test", "report", "send", "powerOn", "complete", "deliver", "repoll", "crash"}

Items == [op : Ops, to : Words]

Answers == {"any", "zero", "closed", "error", "none", "bad", "ok", "long"} \cup CallStates

RequestNames == DOMAIN Requests \cup {"onDataCallListChanged"}

Names == RequestNames \cup {"", "initializeCallback"}

Points == {"idle", "enter", "command", "todo", "crashed"}

Dispatches == [pc : Points, req : Names, val : {0, 1, 2}, st : Words, a : Seq(Answers),
               todo : Seq(Items), on : Nat, count : Nat]

(* The readers of channels not opened yet have not started.                   *)
ReadersInv ==
    /\ s_closed \in {0, 1} /\ chan \in Nat
    /\ reader \in [Channels -> ReaderPoints]
    /\ \A c \in Channels : c > chan => reader[c] = "none"

DispType ==
    /\ disp \in Dispatches
    /\ sState \in Words
    /\ oldState \in [Channels -> Words] /\ parcel \in [Channels -> Words]

-----------------------------------------------------------------------------
(* While the state as it is has not been sent, somebody will send it: of the  *)
(* threads about to compare one has another state to compare with, or one is  *)
(* to read it, or one has read this state and is to send it.                  *)
ReportInv ==
    \/ reported
    \/ Doing("test") /\ Head(disp.todo).to # sState
    \/ Doing("report")
    \/ Doing("send") /\ Head(disp.todo).to = sState
    \/ \E c \in Channels : \/ reader[c] = "test" /\ oldState[c] # sState
                           \/ reader[c] = "report"
                           \/ reader[c] = "send" /\ parcel[c] = sState

-----------------------------------------------------------------------------
(* The answers a handler has had when it waits for one more.                  *)
Partial(r, a) ==
    \/ a = <<>>
    \/ r = "PSCS_BIND_STATE" /\ Len(a) = 1 /\ a[1] \in {"closed", "none"}
    \/ r = "SETUP_DATA_CALL" /\ Len(a) <= 5
    \/ /\ r \in {"DATA_CALL_LIST", "onDataCallListChanged"}
       /\ Len(a) = 1 /\ a[1] \in {"none", "ok"}

(* What is left to do completes the request n times more.                     *)
Completes(todo, n) ==
    \/ n = 0 /\ todo \in {<<>>, <<Repoll>>}
    \/ /\ n = 1
       /\ \/ \E e \in Errors : todo = <<Complete(e)>>
          \/ \E c \in CallStates : todo \in {<<Deliver(c)>>, <<Deliver(c), Repoll>>}
          \/ \E e \in Errors : \E s \in Words :
               todo \in {<<Set(s), Complete(e)>>, <<Test(s), Complete(e)>>}
          \/ \E e \in Errors :
               todo \in {<<Report, PowerOn, Complete(e)>>, <<PowerOn, Complete(e)>>}
          \/ \E e \in Errors : \E s \in Words :
               todo = <<SendReport(s), PowerOn, Complete(e)>>
    \/ n = 2 /\ \E e, f \in Errors : todo = <<Complete(e), Complete(f)>>

(* How often a request is completed in all.                                   *)
Owed(r, v, a, n) ==
    \/ n = 0 /\ r \in NeverCompleted
    \/ n = 1
    \/ n = 2 /\ Twice(r, v, a)

NoCrash(todo) == \A i \in DOMAIN todo : todo[i].op # "crash"

(* What is left of a request, and of a callback of the event loop.            *)
Left(r, v, a, todo, count) ==
    \/ r \notin DOMAIN Requests /\ NoCrash(todo)
    \/ r \in DOMAIN Requests /\ todo = <<Crash>> /\ CrashesOn(r, a)
    \/ r \in DOMAIN Requests
         /\ \E n \in {0, 1, 2} : Completes(todo, n) /\ Owed(r, v, a, count + n)

CompletionInv ==
    /\ disp.pc \in {"enter", "command"} =>
         /\ disp.req \in RequestNames /\ disp.count = 0
         /\ Partial(disp.req, disp.a)
    /\ disp.pc = "enter" => disp.a = <<>>
    /\ disp.pc = "todo" => Left(disp.req, disp.val, disp.a, disp.todo, disp.count)
    /\ disp.pc = "crashed" => CrashesOn(disp.req, disp.a)

-----------------------------------------------------------------------------
(* Sequences. *)

LEMMA Pair ==
    ASSUME NEW S, NEW x \in S, NEW y \in S
    PROVE  /\ <<x>> \in Seq(S) /\ <<x, y>> \in Seq(S)
           /\ <<x>> \o <<y>> = <<x, y>>
           /\ Tail(<<x>>) = <<>> /\ Tail(<<x, y>>) = <<y>>
           /\ Head(<<x>>) = x /\ Head(<<x, y>>) = x
<1>1. <<x>> \in Seq(S) /\ <<x, y>> \in Seq(S) /\ <<y>> \in Seq(S)
  OBVIOUS
<1>2. /\ Len(<<x>> \o <<y>>) = Len(<<x, y>>)
      /\ \A i \in 1 .. Len(<<x>> \o <<y>>) : (<<x>> \o <<y>>)[i] = <<x, y>>[i]
      /\ <<x>> \o <<y>> \in Seq(S)
  BY <1>1
<1>3. <<x>> \o <<y>> = <<x, y>>
  BY <1>1, <1>2, SeqEqual
<1>4. Tail(<<x>>) = <<>> /\ Head(<<x>>) = x
  BY <1>1
<1>5. Tail(<<x, y>>) = <<y>> /\ Head(<<x, y>>) = x
  <2>1. Tail(<<x, y>>) \in Seq(S) /\ Len(Tail(<<x, y>>)) = 1 /\ Tail(<<x, y>>)[1] = y
    BY <1>1
  <2>2. Tail(<<x, y>>) = <<y>>
    BY <2>1, <1>1, SeqEqual
  <2> QED BY <2>2
<1> QED BY <1>1, <1>3, <1>4, <1>5

LEMMA Triple ==
    ASSUME NEW S, NEW x \in S, NEW y \in S, NEW z \in S
    PROVE  /\ <<x, y, z>> \in Seq(S)
           /\ <<x, y>> \o <<z>> = <<x, y, z>>
           /\ <<x>> \o <<y, z>> = <<x, y, z>>
           /\ Tail(<<x, y, z>>) = <<y, z>>
           /\ Head(<<x, y, z>>) = x
<1>1. /\ <<x, y>> \in Seq(S) /\ <<x, y, z>> \in Seq(S) /\ <<z>> \in Seq(S)
      /\ <<y, z>> \in Seq(S) /\ <<x>> \in Seq(S)
  OBVIOUS
<1>2. /\ Len(<<x, y>> \o <<z>>) = Len(<<x, y, z>>)
      /\ \A i \in 1 .. Len(<<x, y>> \o <<z>>) : (<<x, y>> \o <<z>>)[i] = <<x, y, z>>[i]
      /\ <<x, y>> \o <<z>> \in Seq(S)
  BY <1>1
<1>3. <<x, y>> \o <<z>> = <<x, y, z>>
  BY <1>1, <1>2, SeqEqual
<1>6. /\ Len(<<x>> \o <<y, z>>) = Len(<<x, y, z>>)
      /\ \A i \in 1 .. Len(<<x>> \o <<y, z>>) : (<<x>> \o <<y, z>>)[i] = <<x, y, z>>[i]
      /\ <<x>> \o <<y, z>> \in Seq(S)
  BY <1>1
<1>7. <<x>> \o <<y, z>> = <<x, y, z>>
  BY <1>1, <1>6, SeqEqual
<1>4. /\ Tail(<<x, y, z>>) \in Seq(S) /\ Len(Tail(<<x, y, z>>)) = 2
      /\ Tail(<<x, y, z>>)[1] = y /\ Tail(<<x, y, z>>)[2] = z
  BY <1>1
<1>5. Tail(<<x, y, z>>) = <<y, z>>
  BY <1>1, <1>4, SeqEqual
<1> QED BY <1>1, <1>3, <1>5, <1>7

-----------------------------------------------------------------------------
(* The items of what is left to do. *)

LEMMA WordSets ==
    /\ Errors \subseteq Words /\ RadioStates \subseteq Words /\ CallStates \subseteq Words
    /\ "" \in Words /\ UNAVAILABLE \in Words /\ OFF \in Words
    /\ SIM_NOT_READY \in Words /\ SIM_READY \in Words
BY DEF Words, RadioStates

LEMMA ItemType ==
    /\ \A s \in Words : Set(s) \in Items /\ Test(s) \in Items /\ Complete(s) \in Items
                        /\ Deliver(s) \in Items /\ SendReport(s) \in Items
    /\ Report \in Items /\ PowerOn \in Items /\ Repoll \in Items /\ Crash \in Items
<1>1. "" \in Words
  BY WordSets
<1>2. \A o \in Ops : \A s \in Words : [op |-> o, to |-> s] \in Items
  BY DEF Items
<1>3. Ops = {"set", "test", "report", "send", "powerOn", "complete", "deliver", "repoll", "crash"}
  BY DEF Ops
<1>4. /\ "set" \in Ops /\ "test" \in Ops /\ "report" \in Ops /\ "send" \in Ops
      /\ "powerOn" \in Ops
      /\ "complete" \in Ops /\ "deliver" \in Ops /\ "repoll" \in Ops /\ "crash" \in Ops
  BY <1>3
<1> QED
  BY <1>1, <1>2, <1>4 DEF Set, Test, Complete, Deliver, SendReport, Report, PowerOn, Repoll, Crash

LEMMA ItemOps ==
    /\ \A s : Set(s).op = "set" /\ Test(s).op = "test" /\ Complete(s).op = "complete"
              /\ Deliver(s).op = "deliver" /\ SendReport(s).op = "send"
    /\ \A s : Set(s).to = s /\ Test(s).to = s /\ Complete(s).to = s /\ Deliver(s).to = s
              /\ SendReport(s).to = s
    /\ Report.op = "report" /\ PowerOn.op = "powerOn" /\ Repoll.op = "repoll"
    /\ Crash.op = "crash"
BY DEF Set, Test, Complete, Deliver, SendReport, Report, PowerOn, Repoll, Crash

-----------------------------------------------------------------------------
(* What the handlers do. A handler asks for one more answer, completes the    *)
(* request once or twice, reads or writes where it must not, or does nothing. *)

Kinds == {"ignored", "plain", "line", "fields", "cme", "calls"}

Asks(h) == h.send \in Kinds

Ending(h) == h.send = "no" /\ h.todo \in Seq(Items)

Once(h) == Ending(h) /\ NoCrash(h.todo) /\ Completes(h.todo, 1)

Double(h) == Ending(h) /\ NoCrash(h.todo) /\ Completes(h.todo, 2)

Dies(h) == Ending(h) /\ h.todo = <<Crash>>

Nothing(h) == Ending(h) /\ h.todo = <<>>

Good(r, v, a, h) ==
    \/ Asks(h) /\ Partial(r, a)
    \/ Once(h)
    \/ Double(h) /\ Twice(r, v, a)
    \/ Dies(h) /\ CrashesOn(r, a) /\ r \in DOMAIN Requests
    \/ Nothing(h) /\ r \in NeverCompleted \cup {"onDataCallListChanged"}

LEMMA DoSend ==
    /\ \A t : Do(t).send = "no" /\ Do(t).todo = t
    /\ \A k : Send(k).send = k
BY DEF Do, Send

(* The ways to complete a request once.                                       *)
LEMMA CompleteOnce == \A e \in Errors : Once(Do(<<Complete(e)>>))
<1> SUFFICES ASSUME NEW e \in Errors PROVE Once(Do(<<Complete(e)>>))
  OBVIOUS
<1> DEFINE c == Complete(e)
<1>1. c \in Items /\ c.op # "crash"
  BY ItemType, WordSets, ItemOps
<1>2. Completes(<<c>>, 1)
  BY DEF Completes
<1> HIDE DEF c
<1>3. <<c>> \in Seq(Items) /\ NoCrash(<<c>>)
  BY <1>1 DEF NoCrash
<1>4. Once(Do(<<c>>))
  BY <1>2, <1>3, DoSend DEF Once, Ending
<1> QED BY <1>4 DEF c

LEMMA SetOnce == \A s \in Words : Once(Do(<<Set(s)>> \o SUCCESS))
<1> SUFFICES ASSUME NEW s \in Words PROVE Once(Do(<<Set(s)>> \o SUCCESS))
  OBVIOUS
<1> DEFINE c == Complete("SUCCESS")
           d == Set(s)
<1>1. "SUCCESS" \in Errors
  BY DEF Errors
<1>2. c \in Items /\ c.op # "crash" /\ d \in Items /\ d.op # "crash"
  BY <1>1, ItemType, WordSets, ItemOps
<1>3. Completes(<<d, c>>, 1)
  BY <1>1 DEF Completes
<1>4. SUCCESS = <<c>>
  BY DEF SUCCESS
<1> HIDE DEF c, d
<1>5. <<d>> \o <<c>> = <<d, c>> /\ <<d, c>> \in Seq(Items)
  BY <1>2, Pair
<1>6. NoCrash(<<d, c>>)
  BY <1>2 DEF NoCrash
<1>7. Once(Do(<<d>> \o SUCCESS))
  BY <1>3, <1>4, <1>5, <1>6, DoSend DEF Once, Ending
<1> QED BY <1>7 DEF d

LEMMA DeliverOnce ==
    \A x \in CallStates : /\ Once(Do(<<Deliver(x)>> \o <<>>))
                          /\ Once(Do(<<Deliver(x)>> \o <<Repoll>>))
<1> SUFFICES ASSUME NEW x \in CallStates
             PROVE  Once(Do(<<Deliver(x)>> \o <<>>)) /\ Once(Do(<<Deliver(x)>> \o <<Repoll>>))
  OBVIOUS
<1> DEFINE c == Repoll
           d == Deliver(x)
<1>1. c \in Items /\ c.op # "crash" /\ d \in Items /\ d.op # "crash"
  BY ItemType, WordSets, ItemOps
<1>2. Completes(<<d, c>>, 1) /\ Completes(<<d>>, 1)
  BY DEF Completes
<1> HIDE DEF c, d
<1>3. <<d>> \o <<c>> = <<d, c>> /\ <<d, c>> \in Seq(Items) /\ <<d>> \in Seq(Items)
  BY <1>1, Pair
<1>4. <<d>> \o <<>> = <<d>>
  BY <1>3, ConcatEmptySeq
<1>5. NoCrash(<<d, c>>) /\ NoCrash(<<d>>)
  BY <1>1 DEF NoCrash
<1>6. Once(Do(<<d>> \o <<c>>)) /\ Once(Do(<<d>> \o <<>>))
  BY <1>2, <1>3, <1>4, <1>5, DoSend DEF Once, Ending
<1> QED BY <1>6 DEF c, d

LEMMA CompleteTwice ==
    \A e, f \in Errors : Double(Do(<<Complete(e)>> \o <<Complete(f)>>))
<1> SUFFICES ASSUME NEW e \in Errors, NEW f \in Errors
             PROVE  Double(Do(<<Complete(e)>> \o <<Complete(f)>>))
  OBVIOUS
<1> DEFINE c == Complete(f)
           d == Complete(e)
<1>1. c \in Items /\ c.op # "crash" /\ d \in Items /\ d.op # "crash"
  BY ItemType, WordSets, ItemOps
<1>2. Completes(<<d, c>>, 2)
  BY DEF Completes
<1> HIDE DEF c, d
<1>3. <<d>> \o <<c>> = <<d, c>> /\ <<d, c>> \in Seq(Items)
  BY <1>1, Pair
<1>4. NoCrash(<<d, c>>)
  BY <1>1 DEF NoCrash
<1>5. Double(Do(<<d>> \o <<c>>))
  BY <1>2, <1>3, <1>4, DoSend DEF Double, Ending
<1> QED BY <1>5 DEF c, d

(* The ends of the handlers.                                                  *)
LEMMA Ends ==
    /\ Once(Do(SUCCESS)) /\ Once(Do(FAILURE))
    /\ Double(Do(FAILURE \o FAILURE)) /\ Double(Do(SUCCESS \o FAILURE))
    /\ Dies(Do(<<Crash>>)) /\ Nothing(Do(<<>>))
    /\ Once(Do(<<Complete("PASSWORD_INCORRECT")>>))
    /\ Once(Do(<<Complete("REQUEST_NOT_SUPPORTED")>>))
    /\ Asks(Send("ignored")) /\ Asks(Send("plain")) /\ Asks(Send("line"))
    /\ Asks(Send("fields")) /\ Asks(Send("cme")) /\ Asks(Send("calls"))
<1>1. /\ "SUCCESS" \in Errors /\ "GENERIC_FAILURE" \in Errors
      /\ "PASSWORD_INCORRECT" \in Errors /\ "REQUEST_NOT_SUPPORTED" \in Errors
  BY DEF Errors
<1>2. Once(Do(SUCCESS)) /\ Once(Do(FAILURE))
  BY <1>1, CompleteOnce DEF SUCCESS, FAILURE
<1>3. Double(Do(FAILURE \o FAILURE)) /\ Double(Do(SUCCESS \o FAILURE))
  BY <1>1, CompleteTwice DEF SUCCESS, FAILURE
<1>4. <<Crash>> \in Seq(Items) /\ <<>> \in Seq(Items)
  BY ItemType
<1>5. Dies(Do(<<Crash>>)) /\ Nothing(Do(<<>>))
  BY <1>4, DoSend DEF Dies, Nothing, Ending
<1>6. /\ Once(Do(<<Complete("PASSWORD_INCORRECT")>>))
      /\ Once(Do(<<Complete("REQUEST_NOT_SUPPORTED")>>))
  BY <1>1, CompleteOnce
<1>7. \A k \in Kinds : Asks(Send(k))
  BY DoSend DEF Asks
<1> QED BY <1>2, <1>3, <1>5, <1>6, <1>7 DEF Kinds

-----------------------------------------------------------------------------
(* The handlers that send one command at most: before and after its answer.   *)

LEMMA One == \A x : <<x>> # <<>> /\ <<x>>[1] = x /\ Len(<<x>>) = 1
OBVIOUS

LEMMA IgnoringGood ==
    \A r, v, x : Good(r, v, <<>>, Ignoring(<<>>)) /\ Good(r, v, <<x>>, Ignoring(<<x>>))
BY One, Ends DEF Ignoring, Good, Partial

LEMMA LineGood ==
    \A r, v, x : /\ Good(r, v, <<>>, OneLine(<<>>)) /\ Good(r, v, <<x>>, OneLine(<<x>>))
                 /\ Good(r, v, <<>>, numericLine(<<>>)) /\ Good(r, v, <<x>>, numericLine(<<x>>))
                 /\ Good(r, v, <<>>, deleteSmsOnSim(<<>>))
                 /\ Good(r, v, <<x>>, deleteSmsOnSim(<<x>>))
<1> SUFFICES ASSUME NEW r, NEW v, NEW x
             PROVE  /\ Good(r, v, <<>>, OneLine(<<>>)) /\ Good(r, v, <<x>>, OneLine(<<x>>))
                    /\ Good(r, v, <<>>, numericLine(<<>>))
                    /\ Good(r, v, <<x>>, numericLine(<<x>>))
                    /\ Good(r, v, <<>>, deleteSmsOnSim(<<>>))
                    /\ Good(r, v, <<x>>, deleteSmsOnSim(<<x>>))
  OBVIOUS
<1>1. /\ Good(r, v, <<>>, OneLine(<<>>)) /\ Good(r, v, <<>>, numericLine(<<>>))
      /\ Good(r, v, <<>>, deleteSmsOnSim(<<>>))
  BY Ends DEF OneLine, numericLine, deleteSmsOnSim, Good, Partial
<1>2. \A a : Good(r, v, a, Do(SUCCESS)) /\ Good(r, v, a, Do(FAILURE))
  BY Ends DEF Good
<1>3. Good(r, v, <<x>>, OneLine(<<x>>))
  BY One, <1>2 DEF OneLine
<1>4. Good(r, v, <<x>>, numericLine(<<x>>)) /\ Good(r, v, <<x>>, deleteSmsOnSim(<<x>>))
  BY One, <1>2 DEF numericLine, deleteSmsOnSim
<1> QED BY <1>1, <1>3, <1>4

LEMMA SignalGood ==
    \A v, x : /\ Good("SIGNAL_STRENGTH", v, <<>>, requestSignalStrength(<<>>))
              /\ Good("SIGNAL_STRENGTH", v, <<x>>, requestSignalStrength(<<x>>))
BY One, Ends DEF requestSignalStrength, Good, Partial, Twice

LEMMA FieldsGood ==
    ASSUME NEW r \in {"PDP_ADDR", "DHCP_INFO"}, NEW v, NEW x
    PROVE  Good(r, v, <<>>, tenFields(<<>>)) /\ Good(r, v, <<x>>, tenFields(<<x>>))
<1>1. Good(r, v, <<>>, tenFields(<<>>))
  BY Ends DEF tenFields, Good, Partial
<1>2. CASE Failed(x)
  <2>1. Twice(r, v, <<x>>)
    BY One, <1>2 DEF Twice
  <2>2. tenFields(<<x>>) = Do(FAILURE \o FAILURE)
    BY One, <1>2 DEF tenFields, Failed
  <2> QED BY <1>1, <2>1, <2>2, Ends DEF Good
<1>3. CASE x = "long"
  <2>1. CrashesOn(r, <<x>>) /\ r \in DOMAIN Requests
    BY <1>3 DEF CrashesOn, Requests
  <2>2. tenFields(<<x>>) = Do(<<Crash>>)
    BY One, <1>3 DEF tenFields, Failed
  <2> QED BY <1>1, <2>1, <2>2, Ends DEF Good
<1>4. CASE ~Failed(x) /\ x # "long"
  <2>1. tenFields(<<x>>) = Do(FAILURE) \/ tenFields(<<x>>) = Do(SUCCESS)
    BY One, <1>4 DEF tenFields
  <2> QED BY <1>1, <2>1, Ends DEF Good
<1> QED BY <1>2, <1>3, <1>4

LEMMA PortsGood ==
    ASSUME NEW v, NEW x
    PROVE  /\ Good("SUPPORT_PORTS", v, <<>>, requestPortList(<<>>))
           /\ Good("SUPPORT_PORTS", v, <<x>>, requestPortList(<<x>>))
<1>1. Good("SUPPORT_PORTS", v, <<>>, requestPortList(<<>>))
  BY Ends DEF requestPortList, Good, Partial
<1>2. CASE x \in {"closed", "error"}
  <2>1. Twice("SUPPORT_PORTS", v, <<x>>)
    BY One, <1>2 DEF Twice, Failed
  <2>2. requestPortList(<<x>>) = Do(FAILURE \o FAILURE)
    BY One, <1>2 DEF requestPortList
  <2> QED BY <1>1, <2>1, <2>2, Ends DEF Good
<1>3. CASE x = "long"
  <2>1. CrashesOn("SUPPORT_PORTS", <<x>>) /\ "SUPPORT_PORTS" \in DOMAIN Requests
    BY <1>3 DEF CrashesOn, Requests
  <2>2. requestPortList(<<x>>) = Do(<<Crash>>)
    BY One, <1>3 DEF requestPortList
  <2> QED BY <1>1, <2>1, <2>2, Ends DEF Good
<1>4. CASE x \notin {"closed", "error", "long"}
  <2>1. requestPortList(<<x>>) = Do(SUCCESS)
    BY One, <1>4 DEF requestPortList
  <2> QED BY <1>1, <2>1, Ends DEF Good
<1> QED BY <1>2, <1>3, <1>4

LEMMA RegistrationGood ==
    ASSUME NEW v, NEW x
    PROVE  /\ Good("REGISTRATION_STATE", v, <<>>, requestRegistrationState(<<>>))
           /\ Good("REGISTRATION_STATE", v, <<x>>, requestRegistrationState(<<x>>))
<1>1. Good("REGISTRATION_STATE", v, <<>>, requestRegistrationState(<<>>))
  BY Ends DEF requestRegistrationState, Good, Partial
<1>2. CASE x = "error"
  <2>1. CrashesOn("REGISTRATION_STATE", <<x>>) /\ "REGISTRATION_STATE" \in DOMAIN Requests
    BY <1>2 DEF CrashesOn, Requests
  <2>2. requestRegistrationState(<<x>>) = Do(<<Crash>>)
    BY One, <1>2 DEF requestRegistrationState
  <2> QED BY <1>1, <2>1, <2>2, Ends DEF Good
<1>3. CASE x # "error"
  <2>1. requestRegistrationState(<<x>>) \in {Do(FAILURE), Do(SUCCESS)}
    BY One, <1>3 DEF requestRegistrationState
  <2> QED BY <1>1, <2>1, Ends DEF Good
<1> QED BY <1>2, <1>3

LEMMA OperatorGood ==
    ASSUME NEW v, NEW x
    PROVE  /\ Good("OPERATOR", v, <<>>, requestOperator(<<>>))
           /\ Good("OPERATOR", v, <<x>>, requestOperator(<<x>>))
<1>1. Good("OPERATOR", v, <<>>, requestOperator(<<>>))
  BY Ends DEF requestOperator, Good, Partial
<1>2. CASE x = "long"
  <2>1. CrashesOn("OPERATOR", <<x>>) /\ "OPERATOR" \in DOMAIN Requests
    BY <1>2 DEF CrashesOn, Requests
  <2>2. requestOperator(<<x>>) = Do(<<Crash>>)
    BY One, <1>2 DEF requestOperator
  <2> QED BY <1>1, <2>1, <2>2, Ends DEF Good
<1>3. CASE x # "long"
  <2>1. requestOperator(<<x>>) \in {Do(FAILURE), Do(SUCCESS)}
    BY One, <1>3 DEF requestOperator
  <2> QED BY <1>1, <2>1, Ends DEF Good
<1> QED BY <1>2, <1>3

LEMMA AcknowledgeGood ==
    ASSUME NEW v \in {0, 1, 2}, NEW x
    PROVE  /\ Good("SMS_ACKNOWLEDGE", v, <<>>, requestSMSAcknowledge(v, <<>>))
           /\ Good("SMS_ACKNOWLEDGE", v, <<x>>, requestSMSAcknowledge(v, <<x>>))
<1>1. CASE v \in {0, 1}
  <2>1. \A a : Twice("SMS_ACKNOWLEDGE", v, a)
    BY <1>1 DEF Twice
  <2>2. /\ requestSMSAcknowledge(v, <<>>) = Send("ignored")
        /\ requestSMSAcknowledge(v, <<x>>) = Do(SUCCESS \o FAILURE)
    BY One, <1>1 DEF requestSMSAcknowledge
  <2> QED BY <2>1, <2>2, Ends DEF Good, Partial
<1>2. CASE v = 2
  <2>1. \A a : requestSMSAcknowledge(v, a) = Do(FAILURE)
    BY <1>2 DEF requestSMSAcknowledge
  <2> QED BY <2>1, Ends DEF Good
<1> QED BY <1>1, <1>2

LEMMA PinGood ==
    ASSUME NEW r, NEW v \in {0, 1, 2}, NEW x
    PROVE  /\ Good(r, v, <<>>, requestEnterSimPin(v, <<>>))
           /\ Good(r, v, <<x>>, requestEnterSimPin(v, <<x>>))
<1>1. CASE v = 0
  <2>1. \A a : requestEnterSimPin(v, a) = Do(<<Complete("PASSWORD_INCORRECT")>>)
    BY <1>1 DEF requestEnterSimPin
  <2> QED BY <2>1, Ends DEF Good
<1>2. CASE v > 0
  <2>1. /\ requestEnterSimPin(v, <<>>) = Send("line")
        /\ requestEnterSimPin(v, <<x>>) \in
             {Do(<<Complete("PASSWORD_INCORRECT")>>), Do(SUCCESS)}
    BY One, <1>2 DEF requestEnterSimPin
  <2> QED BY <2>1, Ends DEF Good, Partial
<1> QED BY <1>1, <1>2

LEMMA CallsGood ==
    ASSUME NEW r, NEW v, NEW x \in {"closed", "error"} \cup CallStates
    PROVE  /\ Good(r, v, <<>>, requestGetCurrentCalls(<<>>))
           /\ Good(r, v, <<x>>, requestGetCurrentCalls(<<x>>))
<1>1. Good(r, v, <<>>, requestGetCurrentCalls(<<>>))
  BY Ends DEF requestGetCurrentCalls, Good, Partial
<1>2. CASE Failed(x)
  <2>1. requestGetCurrentCalls(<<x>>) = Do(FAILURE)
    BY One, <1>2 DEF requestGetCurrentCalls
  <2> QED BY <1>1, <2>1, Ends DEF Good
<1>3. CASE ~Failed(x)
  <2>1. x \in CallStates
    BY <1>3 DEF Failed
  <2>2. requestGetCurrentCalls(<<x>>) \in
          {Do(<<Deliver(x)>> \o <<>>), Do(<<Deliver(x)>> \o <<Repoll>>)}
    BY One, <1>3 DEF requestGetCurrentCalls
  <2> QED BY <1>1, <2>1, <2>2, DeliverOnce DEF Good
<1> QED BY <1>2, <1>3

LEMMA PowerGood ==
    ASSUME NEW r, NEW v, NEW st, NEW x
    PROVE  /\ Good(r, v, <<>>, requestRadioPower(v, st, <<>>))
           /\ Good(r, v, <<x>>, requestRadioPower(v, st, <<x>>))
<1>1. /\ requestRadioPower(v, st, <<>>) \in {Send("plain"), Send("ignored"), Do(SUCCESS)}
      /\ requestRadioPower(v, st, <<x>>) \in
           {Do(FAILURE), Do(<<Set(OFF)>> \o SUCCESS), Do(<<Set(SIM_NOT_READY)>> \o SUCCESS),
            Do(SUCCESS)}
  BY One DEF requestRadioPower
<1> QED BY <1>1, Ends, SetOnce, WordSets DEF Good, Partial

LEMMA StatusGood ==
    ASSUME NEW v, NEW st, NEW x
    PROVE  /\ Good("GET_SIM_STATUS", v, <<>>, getCardStatus(st, <<>>))
           /\ Good("GET_SIM_STATUS", v, <<x>>, getCardStatus(st, <<x>>))
<1>1. <<Crash>> # <<>>
  BY One
<1>2. Send("cme") # Do(<<>>) /\ Do(<<Crash>>) # Do(<<>>)
  BY <1>1, DoSend
<1>3. CASE st \in {OFF, UNAVAILABLE}
  <2>1. \A a : getSIMStatus(st, a) = Do(<<>>)
    BY <1>3 DEF getSIMStatus
  <2>2. \A a : getCardStatus(st, a) = Do(SUCCESS)
    BY <2>1 DEF getCardStatus
  <2> QED BY <2>2, Ends DEF Good
<1>4. CASE st \notin {OFF, UNAVAILABLE}
  <2>1. getSIMStatus(st, <<>>) = Send("cme")
    BY <1>4 DEF getSIMStatus
  <2>2. getCardStatus(st, <<>>) = Send("cme")
    BY <1>2, <2>1 DEF getCardStatus
  <2>3. getSIMStatus(st, <<x>>) = Do(IF x = "zero" THEN <<Crash>> ELSE <<>>)
    BY One, <1>4 DEF getSIMStatus
  <2>4. getCardStatus(st, <<x>>) = IF x = "zero" THEN Do(<<Crash>>) ELSE Do(SUCCESS)
    BY <1>2, <2>3 DEF getCardStatus
  <2>5. x = "zero" => CrashesOn("GET_SIM_STATUS", <<x>>)
    BY DEF CrashesOn
  <2>6. "GET_SIM_STATUS" \in DOMAIN Requests
    BY DEF Requests
  <2> QED BY <2>2, <2>4, <2>5, <2>6, Ends DEF Good, Partial
<1> QED BY <1>3, <1>4

-----------------------------------------------------------------------------
(* The handlers that send several commands.                                   *)

LEMMA AppendTo ==
    /\ \A x : Append(<<>>, x) = <<x>>
    /\ \A b \in Seq(Answers) : \A x \in Answers :
         /\ Append(b, x) \in Seq(Answers) /\ Append(b, x) # <<>>
         /\ Len(Append(b, x)) = Len(b) + 1
         /\ Append(b, x)[Len(b) + 1] = x
         /\ Len(b) = 1 => Append(b, x)[1] = b[1]
BY SMTT(30)

LEMMA SetupGood ==
    ASSUME NEW v \in {0, 1, 2}, NEW a \in Seq(Answers), Len(a) <= 6
    PROVE  Good("SETUP_DATA_CALL", v, a, requestSetupDataCall(v, a))
<1> DEFINE n == Len(a)
<1>1. n \in Nat /\ n <= 6
  OBVIOUS
<1>2. CASE v # 0
  <2>1. requestSetupDataCall(v, a) \in {Do(SUCCESS), Do(FAILURE)}
    BY <1>2 DEF requestSetupDataCall
  <2> QED BY <2>1, Ends DEF Good
<1>3. CASE v = 0 /\ n < 5
  <2>1. requestSetupDataCall(v, a) = Send("ignored") /\ Len(a) <= 5
    BY <1>3, <1>1 DEF requestSetupDataCall
  <2> QED BY <2>1, Ends DEF Good, Partial
<1>4. CASE v = 0 /\ n = 5
  <2>1. requestSetupDataCall(v, a) = Send("plain") /\ Len(a) <= 5
    BY <1>4 DEF requestSetupDataCall
  <2> QED BY <2>1, Ends DEF Good, Partial
<1>5. CASE v = 0 /\ n = 6
  <2>1. requestSetupDataCall(v, a) \in {Do(SUCCESS), Do(FAILURE)}
    BY <1>5 DEF requestSetupDataCall
  <2> QED BY <2>1, Ends DEF Good
<1> HIDE DEF n
<1>6. n < 5 \/ n = 5 \/ n = 6
  BY <1>1
<1> QED BY <1>2, <1>3, <1>4, <1>5, <1>6

LEMMA BindGood ==
    ASSUME NEW v
    PROVE  /\ Good("PSCS_BIND_STATE", v, <<>>, requestPsCsStat(<<>>))
           /\ \A x \in {"closed", "error", "none", "bad", "ok", "long"} :
                Good("PSCS_BIND_STATE", v, <<x>>, requestPsCsStat(<<x>>))
           /\ \A a \in Seq(Answers) :
                Len(a) = 2 => Good("PSCS_BIND_STATE", v, a, requestPsCsStat(a))
<1>1. Good("PSCS_BIND_STATE", v, <<>>, requestPsCsStat(<<>>))
  <2>1. requestPsCsStat(<<>>) = Send("fields")
    BY One DEF requestPsCsStat, tenFields
  <2> QED BY <2>1, Ends DEF Good, Partial
<1>2. ASSUME NEW x \in {"closed", "error", "none", "bad", "ok", "long"}
      PROVE  Good("PSCS_BIND_STATE", v, <<x>>, requestPsCsStat(<<x>>))
  <2>1. CASE x \in {"closed", "none"}
    <3>1. requestPsCsStat(<<x>>) = Send("plain")
      BY <2>1, One DEF requestPsCsStat
    <3> QED BY <2>1, <3>1, One, Ends DEF Good, Partial
  <2>2. CASE x = "error"
    <3>1. requestPsCsStat(<<x>>) = Do(FAILURE \o FAILURE)
      BY <2>2, One DEF requestPsCsStat, tenFields, Failed
    <3>2. Twice("PSCS_BIND_STATE", v, <<x>>)
      BY <2>2 DEF Twice
    <3> QED BY <3>1, <3>2, Ends DEF Good
  <2>3. CASE x = "long"
    <3>1. requestPsCsStat(<<x>>) = Do(<<Crash>>)
      BY <2>3, One DEF requestPsCsStat, tenFields, Failed
    <3>2. CrashesOn("PSCS_BIND_STATE", <<x>>) /\ "PSCS_BIND_STATE" \in DOMAIN Requests
      BY <2>3 DEF CrashesOn, Requests
    <3> QED BY <3>1, <3>2, Ends DEF Good
  <2>4. CASE x \in {"bad", "ok"}
    <3>1. requestPsCsStat(<<x>>) \in {Do(FAILURE), Do(SUCCESS)}
      BY <2>4, One DEF requestPsCsStat, tenFields, Failed
    <3> QED BY <3>1, Ends DEF Good
  <2> QED BY <2>1, <2>2, <2>3, <2>4
<1>3. ASSUME NEW a \in Seq(Answers), Len(a) = 2
      PROVE  Good("PSCS_BIND_STATE", v, a, requestPsCsStat(a))
  <2>1. a # <<>>
    BY <1>3
  <2>2. CASE a[2] = "closed"
    <3>1. requestPsCsStat(a) = Do(<<Crash>>)
      BY <1>3, <2>1, <2>2 DEF requestPsCsStat
    <3>2. CrashesOn("PSCS_BIND_STATE", a) /\ "PSCS_BIND_STATE" \in DOMAIN Requests
      BY <1>3, <2>2 DEF CrashesOn, Requests
    <3> QED BY <3>1, <3>2, Ends DEF Good
  <2>3. CASE a[2] # "closed"
    <3>1. requestPsCsStat(a) \in {Do(FAILURE), Do(SUCCESS)}
      BY <1>3, <2>1, <2>3 DEF requestPsCsStat
    <3> QED BY <3>1, Ends DEF Good
  <2> QED BY <2>2, <2>3
<1> QED BY <1>1, <1>2, <1>3

LEMMA ListGood ==
    ASSUME NEW v, NEW t \in BOOLEAN, NEW r \in {"DATA_CALL_LIST", "onDataCallListChanged"},
           t = (r = "DATA_CALL_LIST")
    PROVE  /\ Good(r, v, <<>>, requestOrSendDataCallList(t, <<>>))
           /\ \A x \in {"closed", "error", "none", "bad", "ok"} :
                Good(r, v, <<x>>, requestOrSendDataCallList(t, <<x>>))
           /\ \A a \in Seq(Answers) :
                Len(a) = 2 => Good(r, v, a, requestOrSendDataCallList(t, a))
<1> DEFINE fail == Do(IF t THEN FAILURE ELSE <<>>)
           done == Do(IF t THEN SUCCESS ELSE <<>>)
<1>1. \A a : Good(r, v, a, fail) /\ Good(r, v, a, done)
  <2>1. CASE t
    BY <2>1, Ends DEF Good
  <2>2. CASE ~t
    BY <2>2, Ends DEF Good
  <2> QED BY <2>1, <2>2
<1>2. /\ requestOrSendDataCallList(t, <<>>) = Send("line")
      /\ \A x \in {"closed", "error", "bad"} : requestOrSendDataCallList(t, <<x>>) = fail
      /\ \A x \in {"none", "ok"} : requestOrSendDataCallList(t, <<x>>) = Send("line")
  BY One DEF requestOrSendDataCallList
<1>3. \A a \in Seq(Answers) :
        Len(a) = 2 => requestOrSendDataCallList(t, a) \in {fail, done}
  BY DEF requestOrSendDataCallList
<1> HIDE DEF fail, done
<1>4. Good(r, v, <<>>, Send("line")) /\ \A x \in {"none", "ok"} : Good(r, v, <<x>>, Send("line"))
  BY One, Ends DEF Good, Partial
<1> QED BY <1>1, <1>2, <1>3, <1>4

-----------------------------------------------------------------------------
(* The switch of onRequest. *)

(* The requests whose handlers send one command at most.                      *)
Single == RequestNames \ {"PSCS_BIND_STATE", "SETUP_DATA_CALL", "DATA_CALL_LIST",
                          "onDataCallListChanged"}

LEMMA Switch1 ==
    ASSUME NEW v, NEW st, NEW a
    PROVE  /\ Handler("GET_SIM_STATUS", v, st, a) = getCardStatus(st, a)
           /\ Handler("GET_CURRENT_CALLS", v, st, a) = requestGetCurrentCalls(a)
           /\ \A r \in {"DIAL", "HANGUP", "ANSWER", "CALL_CONTROL", "NDIS_DIAL"} :
                Handler(r, v, st, a) = Ignoring(a)
           /\ Handler("SEPARATE_CONNECTION", v, st, a) = separateConnection(v, a)
           /\ Handler("SIGNAL_STRENGTH", v, st, a) = requestSignalStrength(a)
           /\ Handler("REGISTRATION_STATE", v, st, a) = requestRegistrationState(a)
           /\ Handler("OPERATOR", v, st, a) = requestOperator(a)
           /\ Handler("RADIO_POWER", v, st, a) = requestRadioPower(v, st, a)
           /\ Handler("SMS_ACKNOWLEDGE", v, st, a) = requestSMSAcknowledge(v, a)
BY DEF Handler, requestDial, requestHangup, callControl, requestNdisDial

LEMMA Switch2 ==
    ASSUME NEW v, NEW st, NEW a
    PROVE  /\ \A r \in {"SEND_SMS", "GET_IMSI", "WRITE_SMS_TO_SIM"} :
                Handler(r, v, st, a) = numericLine(a)
           /\ \A r \in {"SIM_IO", "QUERY_NETWORK_SELECTION_MODE"} :
                Handler(r, v, st, a) = OneLine(a)
           /\ \A r \in {"SEND_USSD", "OTHER_CODE"} :
                Handler(r, v, st, a) = Do(<<Complete("REQUEST_NOT_SUPPORTED")>>)
           /\ Handler("SET_NETWORK_SELECTION_AUTOMATIC", v, st, a) =
                IF a = <<>> THEN Send("ignored") ELSE Do(<<>>)
           /\ Handler("OEM_HOOK", v, st, a) = Do(SUCCESS)
           /\ Handler("DELETE_SMS_ON_SIM", v, st, a) = deleteSmsOnSim(a)
           /\ Handler("ENTER_SIM_PIN", v, st, a) = requestEnterSimPin(v, a)
           /\ Handler("SUPPORT_PORTS", v, st, a) = requestPortList(a)
           /\ \A r \in {"PDP_ADDR", "DHCP_INFO"} : Handler(r, v, st, a) = tenFields(a)
BY DEF Handler, requestSendSMS, requestWriteSmsToSim, requestSIM_IO,
       requestQueryNetworkSelectionMode, requestSendUSSD, requestPdpAddr, requestDhcpInfo

LEMMA Switch3 ==
    ASSUME NEW v, NEW st, NEW a
    PROVE  /\ Handler("PSCS_BIND_STATE", v, st, a) = requestPsCsStat(a)
           /\ Handler("SETUP_DATA_CALL", v, st, a) = requestSetupDataCall(v, a)
BY DEF Handler

LEMMA Switch4 ==
    ASSUME NEW r, NEW v, NEW st, NEW a
    PROVE  /\ r = "DATA_CALL_LIST" =>
                Handler(r, v, st, a) = requestOrSendDataCallList(TRUE, a)
           /\ r = "onDataCallListChanged" =>
                Handler(r, v, st, a) = requestOrSendDataCallList(FALSE, a)
BY DEF Handler

LEMMA SingleNames ==
    \A r \in Single :
      \/ r \in {"GET_SIM_STATUS", "GET_CURRENT_CALLS", "DIAL", "HANGUP", "ANSWER",
                "CALL_CONTROL", "NDIS_DIAL", "SEPARATE_CONNECTION", "SIGNAL_STRENGTH",
                "REGISTRATION_STATE", "OPERATOR", "RADIO_POWER", "SMS_ACKNOWLEDGE"}
      \/ r \in {"SEND_SMS", "GET_IMSI", "WRITE_SMS_TO_SIM", "SIM_IO",
                "QUERY_NETWORK_SELECTION_MODE", "SEND_USSD", "OTHER_CODE",
                "SET_NETWORK_SELECTION_AUTOMATIC", "OEM_HOOK", "DELETE_SMS_ON_SIM",
                "ENTER_SIM_PIN", "SUPPORT_PORTS", "PDP_ADDR", "DHCP_INFO"}
BY DEF Single, RequestNames, Requests

LEMMA AnswersType ==
    /\ AnswersTo("no") = {}
    /\ AnswersTo("calls") = {"closed", "error"} \cup CallStates
    /\ AnswersTo("fields") = {"closed", "error", "none", "bad", "ok", "long"}
    /\ AnswersTo("line") = {"closed", "error", "none", "bad", "ok"}
    /\ \A k \in Kinds : AnswersTo(k) \subseteq Answers
BY DEF AnswersTo, Kinds, Answers

LEMMA SingleGood ==
    ASSUME NEW r \in Single, NEW v \in {0, 1, 2}, NEW st
    PROVE  /\ Good(r, v, <<>>, Handler(r, v, st, <<>>))
           /\ \A x \in AnswersTo(Handler(r, v, st, <<>>).send) :
                Good(r, v, <<x>>, Handler(r, v, st, <<x>>))
<1> DEFINE H(a) == Handler(r, v, st, a)
<1> SUFFICES ASSUME NEW x \in AnswersTo(H(<<>>).send) \cup {"error"}
             PROVE  Good(r, v, <<>>, H(<<>>)) /\ Good(r, v, <<x>>, H(<<x>>))
  OBVIOUS
<1>1. CASE r = "GET_SIM_STATUS"
  BY <1>1, Switch1, StatusGood
<1>2. CASE r = "GET_CURRENT_CALLS"
  <2>1. H(<<>>) = requestGetCurrentCalls(<<>>) /\ H(<<x>>) = requestGetCurrentCalls(<<x>>)
    BY <1>2, Switch1
  <2>2. H(<<>>).send = "calls"
    BY <2>1, DoSend DEF requestGetCurrentCalls
  <2>3. x \in {"closed", "error"} \cup CallStates
    BY <2>2, AnswersType
  <2> QED BY <2>1, <2>3, CallsGood
<1>3. CASE r \in {"DIAL", "HANGUP", "ANSWER", "CALL_CONTROL", "NDIS_DIAL"}
  <2>1. H(<<>>) = Ignoring(<<>>) /\ H(<<x>>) = Ignoring(<<x>>)
    BY <1>3, Switch1
  <2> QED BY <2>1, IgnoringGood
<1>4. CASE r = "SEPARATE_CONNECTION"
  <2>1. \/ H(<<>>) = Ignoring(<<>>) /\ H(<<x>>) = Ignoring(<<x>>)
        \/ H(<<>>) = Do(FAILURE) /\ H(<<x>>) = Do(FAILURE)
    BY <1>4, Switch1 DEF separateConnection
  <2>2. \A a : Good(r, v, a, Do(FAILURE))
    BY Ends DEF Good
  <2> QED BY <2>1, <2>2, IgnoringGood
<1>5. CASE r \in {"SIGNAL_STRENGTH", "REGISTRATION_STATE", "OPERATOR"}
  BY <1>5, Switch1, SignalGood, RegistrationGood, OperatorGood
<1>6. CASE r \in {"RADIO_POWER", "SMS_ACKNOWLEDGE"}
  BY <1>6, Switch1, PowerGood, AcknowledgeGood
<1>7. CASE r \in {"SEND_SMS", "GET_IMSI", "WRITE_SMS_TO_SIM"}
  <2>1. H(<<>>) = numericLine(<<>>) /\ H(<<x>>) = numericLine(<<x>>)
    BY <1>7, Switch2
  <2> QED BY <2>1, LineGood
<1>8. CASE r \in {"SIM_IO", "QUERY_NETWORK_SELECTION_MODE"}
  <2>1. H(<<>>) = OneLine(<<>>) /\ H(<<x>>) = OneLine(<<x>>)
    BY <1>8, Switch2
  <2> QED BY <2>1, LineGood
<1>9. CASE r \in {"SEND_USSD", "OTHER_CODE", "OEM_HOOK"}
  <2>1. \/ \A a : H(a) = Do(<<Complete("REQUEST_NOT_SUPPORTED")>>)
        \/ \A a : H(a) = Do(SUCCESS)
    BY <1>9, Switch2
  <2> QED BY <2>1, Ends DEF Good
<1>10. CASE r = "SET_NETWORK_SELECTION_AUTOMATIC"
  <2>1. H(<<>>) = Send("ignored") /\ H(<<x>>) = Do(<<>>)
    BY <1>10, Switch2, One
  <2> QED BY <1>10, <2>1, Ends DEF Good, Partial, NeverCompleted
<1>11. CASE r = "DELETE_SMS_ON_SIM"
  <2>1. H(<<>>) = deleteSmsOnSim(<<>>) /\ H(<<x>>) = deleteSmsOnSim(<<x>>)
    BY <1>11, Switch2
  <2> QED BY <2>1, LineGood
<1>12. CASE r = "ENTER_SIM_PIN"
  BY <1>12, Switch2, PinGood
<1>13. CASE r = "SUPPORT_PORTS"
  BY <1>13, Switch2, PortsGood
<1>14. CASE r \in {"PDP_ADDR", "DHCP_INFO"}
  <2>1. H(<<>>) = tenFields(<<>>) /\ H(<<x>>) = tenFields(<<x>>)
    BY <1>14, Switch2
  <2> QED BY <1>14, <2>1, FieldsGood
<1> QED
  BY <1>1, <1>2, <1>3, <1>4, <1>5, <1>6, <1>7, <1>8, <1>9, <1>10, <1>11, <1>12, <1>13, <1>14,
     SingleNames

(* A handler that waits for an answer has asked for one.                      *)
LEMMA GoodKind ==
    ASSUME NEW r, NEW v, NEW a, NEW h, Good(r, v, a, h)
    PROVE  h.send \in Kinds \cup {"no"} /\ AnswersTo(h.send) \subseteq Answers
<1>1. h.send \in Kinds \cup {"no"}
  BY DEF Good, Asks, Once, Double, Dies, Nothing, Ending
<1> QED BY <1>1, AnswersType

(* Whatever a request has been answered so far, and whatever it is answered   *)
(* next, its handler asks for more, completes it as often as is claimed of    *)
(* it, or brings the daemon down where that is claimed.                       *)
LEMMA HandlerGood ==
    ASSUME NEW r \in RequestNames, NEW v \in {0, 1, 2}, NEW st,
           NEW b \in Seq(Answers), Partial(r, b)
    PROVE  /\ Good(r, v, b, Handler(r, v, st, b))
           /\ AnswersTo(Handler(r, v, st, b).send) \subseteq Answers
           /\ \A x \in AnswersTo(Handler(r, v, st, b).send) :
                Good(r, v, Append(b, x), Handler(r, v, st, Append(b, x)))
<1> DEFINE H(a) == Handler(r, v, st, a)
<1>1. SUFFICES /\ Good(r, v, b, H(b))
               /\ \A x \in AnswersTo(H(b).send) :
                    x \in Answers => Good(r, v, Append(b, x), H(Append(b, x)))
  BY GoodKind
<1>2. CASE r \in Single
  <2>1. b = <<>>
    BY <1>2 DEF Single, Partial
  <2>2. \A x : Append(b, x) = <<x>>
    BY <2>1, AppendTo
  <2> QED BY <1>2, <2>1, <2>2, SingleGood
<1>3. CASE r = "SETUP_DATA_CALL"
  <2>1. Len(b) \in Nat /\ Len(b) <= 5
    BY <1>3 DEF Partial
  <2>2. ASSUME NEW a PROVE H(a) = requestSetupDataCall(v, a)
    BY <1>3, Switch3
  <2>3. Len(b) <= 6 /\ \A x \in Answers : Append(b, x) \in Seq(Answers) /\ Len(Append(b, x)) <= 6
    BY <2>1
  <2>4. \A a \in Seq(Answers) : Len(a) <= 6 => Good(r, v, a, H(a))
    BY <1>3, <2>2, SetupGood
  <2> HIDE DEF H
  <2> QED BY <2>3, <2>4
<1>4. CASE r = "PSCS_BIND_STATE"
  <2>1. ASSUME NEW a PROVE H(a) = requestPsCsStat(a)
    BY <1>4, Switch3
  <2>2. /\ Good(r, v, <<>>, H(<<>>))
        /\ \A x \in {"closed", "error", "none", "bad", "ok", "long"} : Good(r, v, <<x>>, H(<<x>>))
        /\ \A a \in Seq(Answers) : Len(a) = 2 => Good(r, v, a, H(a))
    BY <1>4, <2>1, BindGood
  <2>3. H(<<>>).send = "fields"
    BY <2>1, One, DoSend DEF requestPsCsStat, tenFields
  <2>4. CASE b = <<>>
    <3>1. \A x : Append(b, x) = <<x>>
      BY <2>4, AppendTo
    <3>2. AnswersTo(H(b).send) = {"closed", "error", "none", "bad", "ok", "long"}
      BY <2>3, <2>4, AnswersType
    <3> HIDE DEF H
    <3> QED BY <2>2, <2>4, <3>1, <3>2
  <2>5. CASE Len(b) = 1 /\ b[1] \in {"closed", "none"}
    <3>1. b = <<b[1]>>
      BY <2>5
    <3>2. Good(r, v, b, H(b))
      BY <2>5, <2>2, <3>1
    <3>3. \A x \in Answers : Append(b, x) \in Seq(Answers) /\ Len(Append(b, x)) = 2
      BY <2>5, SMTT(30)
    <3> HIDE DEF H
    <3> QED BY <2>2, <3>2, <3>3
  <2> QED BY <1>4, <2>4, <2>5 DEF Partial
<1>5. CASE r \in {"DATA_CALL_LIST", "onDataCallListChanged"}
  <2>1. \/ \A a : H(a) = requestOrSendDataCallList(TRUE, a) /\ r = "DATA_CALL_LIST"
        \/ \A a : H(a) = requestOrSendDataCallList(FALSE, a) /\ r # "DATA_CALL_LIST"
    <3>1. ASSUME NEW a, r = "DATA_CALL_LIST" PROVE H(a) = requestOrSendDataCallList(TRUE, a)
      BY <3>1, Switch4, ZenonT(60)
    <3>2. ASSUME NEW a, r = "onDataCallListChanged"
          PROVE  H(a) = requestOrSendDataCallList(FALSE, a)
      BY <3>2, Switch4, ZenonT(60)
    <3> HIDE DEF H
    <3> QED BY <1>5, <3>1, <3>2
  <2>2. /\ Good(r, v, <<>>, H(<<>>))
        /\ \A x \in {"closed", "error", "none", "bad", "ok"} : Good(r, v, <<x>>, H(<<x>>))
        /\ \A a \in Seq(Answers) : Len(a) = 2 => Good(r, v, a, H(a))
    <3> HIDE DEF H
    <3>1. CASE \A a : H(a) = requestOrSendDataCallList(TRUE, a) /\ r = "DATA_CALL_LIST"
      BY <1>5, <3>1, ListGood
    <3>2. CASE \A a : H(a) = requestOrSendDataCallList(FALSE, a) /\ r # "DATA_CALL_LIST"
      BY <1>5, <3>2, ListGood
    <3> QED BY <2>1, <3>1, <3>2
  <2>3. H(<<>>).send = "line"
    BY <2>1, One, DoSend DEF requestOrSendDataCallList
  <2>4. CASE b = <<>>
    <3>1. \A x : Append(b, x) = <<x>>
      BY <2>4, AppendTo
    <3>2. AnswersTo(H(b).send) = {"closed", "error", "none", "bad", "ok"}
      BY <2>3, <2>4, AnswersType
    <3> HIDE DEF H
    <3> QED BY <2>2, <2>4, <3>1, <3>2
  <2>5. CASE Len(b) = 1 /\ b[1] \in {"none", "ok"}
    <3>1. b = <<b[1]>>
      BY <2>5
    <3>2. Good(r, v, b, H(b))
      BY <2>5, <2>2, <3>1
    <3>3. \A x \in Answers : Append(b, x) \in Seq(Answers) /\ Len(Append(b, x)) = 2
      BY <2>5
    <3> HIDE DEF H
    <3> QED BY <2>2, <3>2, <3>3
  <2> QED BY <1>5, <2>4, <2>5 DEF Partial
<1> QED BY <1>2, <1>3, <1>4, <1>5 DEF Single

-----------------------------------------------------------------------------
(* The steps of the event loop's thread and of the modem.                     *)
Elsewhere == \/ \E r \in DOMAIN Requests : \E v \in Requests[r] : onRequest(r, v)
             \/ handling \/ crash
             \/ initializeCallback \/ sendCallStateChanged \/ onDataCallListChanged
             \/ callMoves \/ ring \/ noCarrier \/ dataCallEvent

LEMMA NextSplit ==
    ASSUME Next
    PROVE  \/ mainOpen \/ mainAtOpen \/ mainTimer \/ waitForClose
           \/ \E c \in Channels : \/ readerEof(c) \/ readerClosed(c) \/ readerSet(c)
                                  \/ readerTest(c) \/ readerReport(c)
                                  \/ readerSend(c) \/ readerSent(c) \/ readerPowerOn(c)
           \/ Elsewhere
BY DEF Next, Alive, mainLoop, onATReaderClosed, Elsewhere

LEMMA ElsewhereKeeps ==
    ASSUME Elsewhere
    PROVE  UNCHANGED channelVars /\ UNCHANGED s_closed
<1>1. CASE \E r \in DOMAIN Requests : \E v \in Requests[r] : onRequest(r, v)
  BY <1>1 DEF onRequest, radioVars
<1>2. CASE handling
  BY <1>2 DEF handling, begin, answer, doSet, doTest, doReport, doSend, pollSIMState, doComplete,
              doRepoll, return, radioVars
<1>3. CASE crash \/ initializeCallback \/ sendCallStateChanged \/ onDataCallListChanged
  BY <1>3 DEF crash, initializeCallback, sendCallStateChanged, onDataCallListChanged, radioVars
<1>4. CASE callMoves \/ ring \/ noCarrier \/ dataCallEvent
  BY <1>4 DEF callMoves, ring, noCarrier, dataCallEvent, radioVars
<1> QED BY <1>1, <1>2, <1>3, <1>4 DEF Elsewhere

LEMMA ChannelsType == Channels \subseteq Nat
BY OpensAssumption DEF Channels

LEMMA ReadersStep ==
    ASSUME ReadersInv, [Next]_vars
    PROVE  ReadersInv'
<1>0. /\ s_closed \in {0, 1} /\ chan \in Nat /\ reader \in [Channels -> ReaderPoints]
      /\ \A c \in Channels : c \in Nat
      /\ \A c \in Channels : c > chan => reader[c] = "none"
  BY ChannelsType DEF ReadersInv
<1>1. CASE UNCHANGED <<s_closed, chan, reader>>
  BY <1>0, <1>1 DEF ReadersInv
<1>2. CASE mainOpen
  BY <1>0, <1>2 DEF ReadersInv, mainOpen, channelVars
<1>3. CASE mainAtOpen
  <2>1. chan' = chan + 1 /\ reader' = [reader EXCEPT ![chan + 1] = "read"] /\ s_closed' = s_closed
    BY <1>3 DEF mainAtOpen
  <2>2. reader' \in [Channels -> ReaderPoints]
    BY <1>0, <2>1 DEF ReaderPoints
  <2>3. \A c \in Channels : c > chan + 1 => c > chan /\ c # chan + 1
    BY <1>0
  <2>4. \A c \in Channels : c > chan + 1 => reader'[c] = "none"
    BY <1>0, <2>1, <2>3
  <2> QED BY <1>0, <2>1, <2>2, <2>4 DEF ReadersInv
<1>4. ASSUME NEW c \in Channels, NEW p \in ReaderPoints, reader[c] # "none",
             reader' = [reader EXCEPT ![c] = p], chan' = chan, s_closed' \in {0, 1}
      PROVE  ReadersInv'
  <2>1. reader' \in [Channels -> ReaderPoints]
    BY <1>0, <1>4
  <2>2. \A d \in Channels : d > chan => reader'[d] = "none"
    BY <1>0, <1>4
  <2> QED BY <1>0, <1>4, <2>1, <2>2 DEF ReadersInv
<1>5. ASSUME NEW c \in Channels, readerEof(c) \/ readerClosed(c)
      PROVE  ReadersInv'
  BY <1>0, <1>4, <1>5 DEF readerEof, readerClosed, radioVars, ReaderPoints
<1>6. ASSUME NEW c \in Channels,
             \/ readerSet(c) \/ readerTest(c) \/ readerReport(c)
             \/ readerSend(c) \/ readerSent(c) \/ readerPowerOn(c)
      PROVE  ReadersInv'
  <2>1. \E p \in ReaderPoints : reader' = [reader EXCEPT ![c] = p]
    <3>1. CASE readerSet(c)
      BY <3>1 DEF readerSet, ReaderPoints
    <3>2. CASE readerTest(c)
      BY <3>2 DEF readerTest, ReaderPoints
    <3>3. CASE readerReport(c)
      BY <3>3 DEF readerReport, ReaderPoints
    <3>4. CASE readerSend(c)
      BY <3>4 DEF readerSend, ReaderPoints
    <3>5. CASE readerSent(c)
      BY <3>5 DEF readerSent, ReaderPoints
    <3>6. CASE readerPowerOn(c)
      BY <3>6 DEF readerPowerOn, ReaderPoints
    <3> QED BY <1>6, <3>1, <3>2, <3>3, <3>4, <3>5, <3>6
  <2>2. reader[c] # "none" /\ chan' = chan /\ s_closed' = s_closed
    BY <1>6 DEF readerSet, readerTest, readerReport, readerSend, readerSent, readerPowerOn, radioVars
  <2> QED BY <1>0, <1>4, <2>1, <2>2
<1>7. CASE mainTimer \/ waitForClose
  BY <1>1, <1>7 DEF mainTimer, waitForClose, channelVars
<1>8. CASE Elsewhere
  BY <1>1, <1>8, ElsewhereKeeps DEF channelVars
<1>9. CASE UNCHANGED vars
  BY <1>1, <1>9 DEF vars
<1> QED BY <1>2, <1>3, <1>5, <1>6, <1>7, <1>8, <1>9, NextSplit

LEMMA ReadersInit == Init => ReadersInv
<1> SUFFICES ASSUME Init PROVE ReadersInv
  OBVIOUS
<1>1. reader = [c \in Channels |-> "none"] /\ s_closed = 0 /\ chan = 0
  BY DEF Init
<1>2. reader \in [Channels -> ReaderPoints]
  BY <1>1 DEF ReaderPoints
<1> QED BY <1>1, <1>2 DEF ReadersInv

(* The mutex of setRadioState.                                                *)
LEMMA SetState ==
    ASSUME NEW s, s_closed \in {0, 1}, setRadioState(s)
    PROVE  sState' = IF s_closed = 1 THEN UNAVAILABLE ELSE s
BY DEF setRadioState, stateToSet

LEMMA ElsewhereState ==
    ASSUME Elsewhere
    PROVE  doSet \/ UNCHANGED sState
<1>1. CASE \E r \in DOMAIN Requests : \E v \in Requests[r] : onRequest(r, v)
  BY <1>1 DEF onRequest, radioVars
<1>2. CASE handling
  BY <1>2 DEF handling, begin, answer, doTest, doReport, doSend, pollSIMState, doComplete,
              doRepoll, return, radioVars
<1>3. CASE crash \/ initializeCallback \/ sendCallStateChanged \/ onDataCallListChanged
  BY <1>3 DEF crash, initializeCallback, sendCallStateChanged, onDataCallListChanged, radioVars
<1>4. CASE callMoves \/ ring \/ noCarrier \/ dataCallEvent
  BY <1>4 DEF callMoves, ring, noCarrier, dataCallEvent, radioVars
<1> QED BY <1>1, <1>2, <1>3, <1>4 DEF Elsewhere

LEMMA ClosedStep ==
    ASSUME ReadersInv, ClosedMeansUnavailable, [Next]_vars
    PROVE  ClosedMeansUnavailable'
<1>0. /\ s_closed \in {0, 1} /\ chan \in Nat /\ reader \in [Channels -> ReaderPoints]
      /\ \A c \in Channels : c \in Nat
      /\ \A c \in Channels : c > chan => reader[c] = "none"
  BY ChannelsType DEF ReadersInv
<1>1. CASE UNCHANGED <<sState, s_closed, reader>>
  BY <1>1 DEF ClosedMeansUnavailable
<1>2. CASE mainOpen
  BY <1>2 DEF mainOpen, ClosedMeansUnavailable
<1>3. CASE mainAtOpen
  <2>1. reader' = [reader EXCEPT ![chan + 1] = "read"] /\ UNCHANGED <<sState, s_closed>>
    BY <1>3 DEF mainAtOpen
  <2>2. \A c \in Channels : reader[c] = "set" => reader'[c] = "set"
    <3>1. SUFFICES ASSUME NEW c \in Channels, reader[c] = "set" PROVE reader'[c] = "set"
      OBVIOUS
    <3>2. c # chan + 1
      BY <1>0, <3>1
    <3> QED BY <1>0, <2>1, <3>1, <3>2
  <2> QED BY <2>1, <2>2 DEF ClosedMeansUnavailable
<1>4. ASSUME NEW c \in Channels, readerEof(c)
      PROVE  ClosedMeansUnavailable'
  <2>1. /\ reader[c] = "read" /\ reader' = [reader EXCEPT ![c] = "eof"]
        /\ UNCHANGED <<sState, s_closed>>
    BY <1>4 DEF readerEof, radioVars
  <2>2. \A d \in Channels : reader[d] = "set" => reader'[d] = "set"
    BY <1>0, <2>1
  <2> QED BY <2>1, <2>2 DEF ClosedMeansUnavailable
<1>5. ASSUME NEW c \in Channels, readerClosed(c)
      PROVE  ClosedMeansUnavailable'
  <2>1. reader'[c] = "set"
    BY <1>0, <1>5 DEF readerClosed
  <2> QED BY <2>1 DEF ClosedMeansUnavailable
<1>6. ASSUME NEW c \in Channels, readerSet(c)
      PROVE  ClosedMeansUnavailable'
  <2>1. sState' = UNAVAILABLE
    BY <1>0, <1>6, SetState DEF readerSet
  <2> QED BY <2>1 DEF ClosedMeansUnavailable
<1>7. ASSUME NEW c \in Channels,
             readerTest(c) \/ readerReport(c) \/ readerSend(c) \/ readerSent(c)
      PROVE  ClosedMeansUnavailable'
  <2>1. /\ reader[c] # "set" /\ UNCHANGED <<sState, s_closed>>
        /\ \E p : reader' = [reader EXCEPT ![c] = p]
    <3>1. CASE readerTest(c)
      BY <3>1 DEF readerTest, radioVars
    <3>2. CASE readerReport(c)
      BY <3>2 DEF readerReport, radioVars
    <3>3. CASE readerSend(c)
      BY <3>3 DEF readerSend
    <3>4. CASE readerSent(c)
      BY <3>4 DEF readerSent, radioVars
    <3> QED BY <1>7, <3>1, <3>2, <3>3, <3>4
  <2>2. \A d \in Channels : reader[d] = "set" => reader'[d] = "set"
    BY <1>0, <2>1
  <2> QED BY <2>1, <2>2 DEF ClosedMeansUnavailable
<1>12. ASSUME NEW c \in Channels, readerPowerOn(c)
       PROVE  ClosedMeansUnavailable'
  <2>1. /\ reader[c] # "set" /\ setRadioState(SIM_READY) /\ UNCHANGED s_closed
        /\ reader' = [reader EXCEPT ![c] = "test"]
    BY <1>12 DEF readerPowerOn
  <2>2. s_closed = 1 => sState' = UNAVAILABLE
    BY <1>0, <2>1, SetState
  <2> QED BY <2>1, <2>2 DEF ClosedMeansUnavailable
<1>8. CASE mainTimer \/ waitForClose
  BY <1>1, <1>8 DEF mainTimer, waitForClose, channelVars
<1>9. CASE doSet
  <2>1. setRadioState(Head(disp.todo).to) /\ UNCHANGED <<s_closed, reader>>
    BY <1>9 DEF doSet, channelVars
  <2>2. s_closed = 1 => sState' = UNAVAILABLE
    BY <1>0, <2>1, SetState
  <2> QED BY <2>1, <2>2 DEF ClosedMeansUnavailable
<1>10. CASE Elsewhere
  BY <1>1, <1>9, <1>10, ElsewhereKeeps, ElsewhereState DEF channelVars
<1>11. CASE UNCHANGED vars
  BY <1>1, <1>11 DEF vars
<1> QED
  BY <1>2, <1>3, <1>4, <1>5, <1>6, <1>7, <1>8, <1>10, <1>11, <1>12, NextSplit

(* Once the reader thread has set the radio state after a close, nothing      *)
(* undoes it before the channel is opened again, for any number of channels,  *)
(* whatever requests are sent and whatever the event loop's thread was about  *)
(* to set.                                                                    *)
THEOREM ClosedStaysUnavailable == Spec => []ClosedMeansUnavailable
<1>1. Init => ClosedMeansUnavailable
  BY DEF Init, ClosedMeansUnavailable
<1> QED BY <1>1, ReadersInit, ReadersStep, ClosedStep, PTL DEF Spec

-----------------------------------------------------------------------------
(* What is left to do, one item after the other. *)

(* The first of the items, and those after it.                                *)
LEMMA Shapes ==
    ASSUME NEW todo, NEW n, Completes(todo, n), todo # <<>>
    PROVE  \/ n = 0 /\ Head(todo) = Repoll /\ Tail(todo) = <<>>
           \/ n = 1 /\ \E e \in Errors : Head(todo) = Complete(e) /\ Tail(todo) = <<>>
           \/ n = 1 /\ \E c \in CallStates :
                Head(todo) = Deliver(c) /\ Tail(todo) \in {<<>>, <<Repoll>>}
           \/ n = 1 /\ \E e \in Errors : \E s \in Words :
                Head(todo) \in {Set(s), Test(s)} /\ Tail(todo) = <<Complete(e)>>
           \/ n = 1 /\ \E e \in Errors :
                Head(todo) = Report /\ Tail(todo) = <<PowerOn, Complete(e)>>
           \/ n = 1 /\ \E e \in Errors : \E s \in Words :
                Head(todo) = SendReport(s) /\ Tail(todo) = <<PowerOn, Complete(e)>>
           \/ n = 1 /\ \E e \in Errors : Head(todo) = PowerOn /\ Tail(todo) = <<Complete(e)>>
           \/ n = 2 /\ \E e, f \in Errors :
                Head(todo) = Complete(e) /\ Tail(todo) = <<Complete(f)>>
<1>0. /\ Report \in Items /\ PowerOn \in Items /\ Repoll \in Items
      /\ \A e \in Errors : Complete(e) \in Items
      /\ \A c \in CallStates : Deliver(c) \in Items
      /\ \A s \in Words : Set(s) \in Items /\ Test(s) \in Items /\ SendReport(s) \in Items
  BY ItemType, WordSets
<1>1. ASSUME NEW x \in Items PROVE Head(<<x>>) = x /\ Tail(<<x>>) = <<>>
  BY Pair
<1>2. ASSUME NEW x \in Items, NEW y \in Items
      PROVE  Head(<<x, y>>) = x /\ Tail(<<x, y>>) = <<y>>
  BY Pair
<1>3. ASSUME NEW x \in Items, NEW y \in Items, NEW z \in Items
      PROVE  Head(<<x, y, z>>) = x /\ Tail(<<x, y, z>>) = <<y, z>>
  BY Triple
<1>4. CASE n = 0 /\ todo = <<Repoll>>
  BY <1>0, <1>1, <1>4
<1>5. ASSUME NEW e \in Errors, n = 1, todo = <<Complete(e)>>
      PROVE  \E f \in Errors : Head(todo) = Complete(f) /\ Tail(todo) = <<>>
  BY <1>0, <1>1, <1>5
<1>6. ASSUME NEW c \in CallStates, n = 1, todo \in {<<Deliver(c)>>, <<Deliver(c), Repoll>>}
      PROVE  Head(todo) = Deliver(c) /\ Tail(todo) \in {<<>>, <<Repoll>>}
  BY <1>0, <1>1, <1>2, <1>6, ZenonT(60)
<1>7. ASSUME NEW e \in Errors, NEW s \in Words,
             todo \in {<<Set(s), Complete(e)>>, <<Test(s), Complete(e)>>}
      PROVE  Head(todo) \in {Set(s), Test(s)} /\ Tail(todo) = <<Complete(e)>>
  <2>1. CASE todo = <<Set(s), Complete(e)>>
    BY <1>0, <1>2, <2>1
  <2>2. CASE todo = <<Test(s), Complete(e)>>
    BY <1>0, <1>2, <2>2
  <2> QED BY <1>7, <2>1, <2>2
<1>8. ASSUME NEW e \in Errors, todo = <<Report, PowerOn, Complete(e)>>
      PROVE  Head(todo) = Report /\ Tail(todo) = <<PowerOn, Complete(e)>>
  BY <1>0, <1>3, <1>8
<1>9. ASSUME NEW e \in Errors, todo = <<PowerOn, Complete(e)>>
      PROVE  Head(todo) = PowerOn /\ Tail(todo) = <<Complete(e)>>
  BY <1>0, <1>2, <1>9
<1>10. ASSUME NEW e \in Errors, NEW f \in Errors, todo = <<Complete(e), Complete(f)>>
      PROVE  Head(todo) = Complete(e) /\ Tail(todo) = <<Complete(f)>>
  BY <1>0, <1>2, <1>10
<1>14. ASSUME NEW e \in Errors, NEW s \in Words,
              todo = <<SendReport(s), PowerOn, Complete(e)>>
       PROVE  Head(todo) = SendReport(s) /\ Tail(todo) = <<PowerOn, Complete(e)>>
  BY <1>0, <1>3, <1>14
<1>11. CASE n = 0
  BY <1>4, <1>11 DEF Completes
<1>12. CASE n = 1
  <2>1. \/ \E e \in Errors : todo = <<Complete(e)>>
        \/ \E c \in CallStates : todo \in {<<Deliver(c)>>, <<Deliver(c), Repoll>>}
        \/ \E e \in Errors : \E s \in Words :
             todo \in {<<Set(s), Complete(e)>>, <<Test(s), Complete(e)>>}
        \/ \E e \in Errors :
             todo \in {<<Report, PowerOn, Complete(e)>>, <<PowerOn, Complete(e)>>}
        \/ \E e \in Errors : \E s \in Words :
             todo = <<SendReport(s), PowerOn, Complete(e)>>
    BY <1>12 DEF Completes
  <2>2. CASE \E e \in Errors : todo = <<Complete(e)>>
    BY <1>5, <1>12, <2>2
  <2>3. CASE \E c \in CallStates : todo \in {<<Deliver(c)>>, <<Deliver(c), Repoll>>}
    <3>1. PICK c \in CallStates : todo \in {<<Deliver(c)>>, <<Deliver(c), Repoll>>}
      BY <2>3
    <3>2. Head(todo) = Deliver(c) /\ Tail(todo) \in {<<>>, <<Repoll>>}
      BY <1>6, <1>12, <3>1
    <3> QED BY <1>12, <3>2
  <2>4. CASE \E e \in Errors : \E s \in Words :
               todo \in {<<Set(s), Complete(e)>>, <<Test(s), Complete(e)>>}
    <3>1. PICK e \in Errors, s \in Words :
                 todo \in {<<Set(s), Complete(e)>>, <<Test(s), Complete(e)>>}
      BY <2>4
    <3>2. Head(todo) \in {Set(s), Test(s)} /\ Tail(todo) = <<Complete(e)>>
      BY <1>7, <3>1
    <3> QED BY <1>12, <3>2
  <2>5. CASE \E e \in Errors :
               todo \in {<<Report, PowerOn, Complete(e)>>, <<PowerOn, Complete(e)>>}
    <3>1. PICK e \in Errors :
                 todo \in {<<Report, PowerOn, Complete(e)>>, <<PowerOn, Complete(e)>>}
      BY <2>5
    <3>2. \/ Head(todo) = Report /\ Tail(todo) = <<PowerOn, Complete(e)>>
          \/ Head(todo) = PowerOn /\ Tail(todo) = <<Complete(e)>>
      BY <1>8, <1>9, <3>1
    <3> QED BY <1>12, <3>2
  <2>6. CASE \E e \in Errors : \E s \in Words :
               todo = <<SendReport(s), PowerOn, Complete(e)>>
    <3>1. PICK e \in Errors, s \in Words : todo = <<SendReport(s), PowerOn, Complete(e)>>
      BY <2>6
    <3>2. Head(todo) = SendReport(s) /\ Tail(todo) = <<PowerOn, Complete(e)>>
      BY <1>14, <3>1
    <3> QED BY <1>12, <3>2
  <2> QED BY <2>1, <2>2, <2>3, <2>4, <2>5, <2>6
<1>13. CASE n = 2
  BY <1>10, <1>13 DEF Completes
<1> QED BY <1>11, <1>12, <1>13 DEF Completes

(* An item that cannot crash is replaced by items that cannot.                *)
LEMMA NoCrashThen ==
    ASSUME NEW todo \in Seq(Items), todo # <<>>, NoCrash(todo),
           NEW items \in Seq(Items), NoCrash(items)
    PROVE  NoCrash(items \o Tail(todo)) /\ NoCrash(Tail(todo))
<1> DEFINE t == Tail(todo)
<1>1. t \in Seq(Items) /\ Len(t) \in Nat /\ \A i \in 1 .. Len(t) : t[i] = todo[i + 1] /\ i + 1 \in 1 .. Len(todo)
  OBVIOUS
<1>2. \A i \in 1 .. Len(t) : t[i].op # "crash"
  BY <1>1 DEF NoCrash
<1>3. \A i \in 1 .. Len(items) : items[i].op # "crash"
  BY DEF NoCrash
<1> HIDE DEF t
<1> DEFINE u == items \o t
<1>4. /\ u \in Seq(Items) /\ Len(u) = Len(items) + Len(t) /\ Len(items) \in Nat
      /\ \A i \in 1 .. Len(items) + Len(t) : u[i] = IF i <= Len(items) THEN items[i] ELSE t[i - Len(items)]
  BY <1>1, ConcatProperties
<1> HIDE DEF u
<1>5. ASSUME NEW i \in 1 .. Len(u) PROVE u[i].op # "crash"
  <2>1. CASE i <= Len(items)
    <3>1. i \in 1 .. Len(items)
      BY <1>4, <2>1
    <3> QED BY <1>1, <1>3, <1>4, <2>1, <3>1
  <2>2. CASE ~(i <= Len(items))
    <3>1. i - Len(items) \in 1 .. Len(t)
      BY <1>1, <1>4, <2>2
    <3> QED BY <1>1, <1>2, <1>4, <2>2, <3>1
  <2> QED BY <2>1, <2>2
<1>6. DOMAIN u = 1 .. Len(u) /\ DOMAIN t = 1 .. Len(t)
  BY <1>1, <1>4
<1>7. NoCrash(u) /\ NoCrash(t)
  BY <1>2, <1>5, <1>6 DEF NoCrash
<1> QED BY <1>7 DEF t, u

(* The items doSet, doTest, doReport and pollSIMState put first.              *)
LEMMA NewItems ==
    ASSUME NEW s \in Words
    PROVE  \A items \in {<<>>, <<Set(s)>>, <<Test(s)>>, <<SendReport(s)>>,
                          <<Report, PowerOn>>} :
             items \in Seq(Items) /\ NoCrash(items)
<1>1. \A x \in Items : <<x>> \in Seq(Items) /\ (x.op # "crash" => NoCrash(<<x>>))
  BY DEF NoCrash
<1>2. /\ Set(s) \in Items /\ Test(s) \in Items /\ SendReport(s) \in Items
      /\ Report \in Items /\ PowerOn \in Items
  BY ItemType
<1>3. /\ Set(s).op # "crash" /\ Test(s).op # "crash" /\ SendReport(s).op # "crash"
      /\ Report.op # "crash" /\ PowerOn.op # "crash"
  BY ItemOps
<1>4. <<Report, PowerOn>> \in Seq(Items)
  BY <1>2, Pair
<1>5. \A x, y \in Items : x.op # "crash" /\ y.op # "crash" => NoCrash(<<x, y>>)
  BY DEF NoCrash
<1>6. NoCrash(<<>>) /\ <<>> \in Seq(Items)
  BY DEF NoCrash
<1> QED BY <1>1, <1>2, <1>3, <1>4, <1>5, <1>6

-----------------------------------------------------------------------------
(* What is left of a request after each of its steps. *)

LEMMA EmptyConcat == \A s \in Seq(Items) : <<>> \o s = s
BY ConcatEmptySeq

LEMMA Singles ==
    /\ \A e \in Errors : <<Complete(e)>> \in Seq(Items)
    /\ \A e \in Errors : <<PowerOn, Complete(e)>> \in Seq(Items)
    /\ \A e \in Errors : \A s \in Words :
         /\ <<Set(s)>> \o <<Complete(e)>> = <<Set(s), Complete(e)>>
         /\ <<Test(s)>> \o <<Complete(e)>> = <<Test(s), Complete(e)>>
    /\ \A e \in Errors : <<Report, PowerOn>> \o <<Complete(e)>> = <<Report, PowerOn, Complete(e)>>
    /\ \A e \in Errors : \A s \in Words :
         <<SendReport(s)>> \o <<PowerOn, Complete(e)>> = <<SendReport(s), PowerOn, Complete(e)>>
<1>0. /\ Report \in Items /\ PowerOn \in Items
      /\ \A e \in Errors : Complete(e) \in Items
      /\ \A s \in Words : Set(s) \in Items /\ Test(s) \in Items /\ SendReport(s) \in Items
  BY ItemType, WordSets
<1>1. ASSUME NEW x \in Items, NEW y \in Items
      PROVE  <<x>> \in Seq(Items) /\ <<x, y>> \in Seq(Items) /\ <<x>> \o <<y>> = <<x, y>>
  BY Pair
<1>2. ASSUME NEW x \in Items, NEW y \in Items, NEW z \in Items
      PROVE  <<x, y>> \o <<z>> = <<x, y, z>> /\ <<x>> \o <<y, z>> = <<x, y, z>>
  BY Triple
<1> QED BY <1>0, <1>1, <1>2

(* A request whose next item is neither a completion nor a crash: the item    *)
(* gives way to others, and the count of completions stays owed.              *)
LEMMA LeftThen ==
    ASSUME NEW r, NEW v, NEW a, NEW count, NEW todo \in Seq(Items), todo # <<>>,
           Left(r, v, a, todo, count), NEW items \in Seq(Items), NoCrash(items),
           Head(todo).op # "crash",
           \A n \in {0, 1, 2} : Completes(todo, n) => Completes(items \o Tail(todo), n)
    PROVE  Left(r, v, a, items \o Tail(todo), count)
<1>1. CASE r \notin DOMAIN Requests /\ NoCrash(todo)
  BY <1>1, NoCrashThen DEF Left
<1>2. CASE r \in DOMAIN Requests /\ todo = <<Crash>>
  <2>1. Head(todo) = Crash
    BY <1>2, ItemType, Pair
  <2> QED BY <2>1, ItemOps
<1>3. CASE r \in DOMAIN Requests
             /\ \E n \in {0, 1, 2} : Completes(todo, n) /\ Owed(r, v, a, count + n)
  BY <1>3 DEF Left
<1> QED BY <1>1, <1>2, <1>3 DEF Left

LEMMA LeftSet ==
    ASSUME NEW r, NEW v, NEW a, NEW count, NEW todo \in Seq(Items), todo # <<>>,
           Left(r, v, a, todo, count), Head(todo).op = "set", NEW w \in Words
    PROVE  Left(r, v, a, <<Test(w)>> \o Tail(todo), count)
<1>1. ASSUME NEW n \in {0, 1, 2}, Completes(todo, n)
      PROVE  Completes(<<Test(w)>> \o Tail(todo), n)
  <2>1. PICK e \in Errors : n = 1 /\ Tail(todo) = <<Complete(e)>>
    BY <1>1, Shapes, ItemOps
  <2>2. <<Test(w)>> \o Tail(todo) = <<Test(w), Complete(e)>>
    BY <2>1, Singles
  <2> QED BY <2>1, <2>2 DEF Completes
<1> QED BY <1>1, LeftThen, NewItems

LEMMA LeftTest ==
    ASSUME NEW r, NEW v, NEW a, NEW count, NEW todo \in Seq(Items), todo # <<>>,
           Left(r, v, a, todo, count), Head(todo).op = "test",
           NEW items \in {<<>>, <<Report, PowerOn>>}
    PROVE  Left(r, v, a, items \o Tail(todo), count)
<1>1. ASSUME NEW n \in {0, 1, 2}, Completes(todo, n)
      PROVE  Completes(items \o Tail(todo), n)
  <2>1. PICK e \in Errors : n = 1 /\ Tail(todo) = <<Complete(e)>>
    BY <1>1, Shapes, ItemOps
  <2>2. items \o Tail(todo) \in {<<Complete(e)>>, <<Report, PowerOn, Complete(e)>>}
    BY <2>1, Singles, EmptyConcat
  <2> QED BY <2>1, <2>2 DEF Completes
<1> QED BY <1>1, LeftThen, NewItems, WordSets

LEMMA LeftReport ==
    ASSUME NEW r, NEW v, NEW a, NEW count, NEW todo \in Seq(Items), todo # <<>>,
           Left(r, v, a, todo, count), Head(todo).op = "report", NEW w \in Words
    PROVE  Left(r, v, a, <<SendReport(w)>> \o Tail(todo), count)
<1>1. ASSUME NEW n \in {0, 1, 2}, Completes(todo, n)
      PROVE  Completes(<<SendReport(w)>> \o Tail(todo), n)
  <2>1. PICK e \in Errors : n = 1 /\ Tail(todo) = <<PowerOn, Complete(e)>>
    BY <1>1, Shapes, ItemOps
  <2>2. <<SendReport(w)>> \o Tail(todo) = <<SendReport(w), PowerOn, Complete(e)>>
    BY <2>1, Singles
  <2> QED BY <2>1, <2>2 DEF Completes
<1> QED BY <1>1, LeftThen, NewItems

LEMMA LeftSend ==
    ASSUME NEW r, NEW v, NEW a, NEW count, NEW todo \in Seq(Items), todo # <<>>,
           Left(r, v, a, todo, count), Head(todo).op = "send"
    PROVE  Left(r, v, a, <<>> \o Tail(todo), count)
<1>1. ASSUME NEW n \in {0, 1, 2}, Completes(todo, n)
      PROVE  Completes(<<>> \o Tail(todo), n)
  <2>1. PICK e \in Errors : n = 1 /\ Tail(todo) = <<PowerOn, Complete(e)>>
    BY <1>1, Shapes, ItemOps
  <2>2. <<>> \o Tail(todo) = <<PowerOn, Complete(e)>>
    BY <2>1, Singles, EmptyConcat
  <2> QED BY <2>1, <2>2 DEF Completes
<1> QED BY <1>1, LeftThen, NewItems, WordSets

LEMMA LeftPower ==
    ASSUME NEW r, NEW v, NEW a, NEW count, NEW todo \in Seq(Items), todo # <<>>,
           Left(r, v, a, todo, count), Head(todo).op = "powerOn",
           NEW items \in {<<>>, <<Set(SIM_READY)>>}
    PROVE  Left(r, v, a, items \o Tail(todo), count)
<1>1. ASSUME NEW n \in {0, 1, 2}, Completes(todo, n)
      PROVE  Completes(items \o Tail(todo), n)
  <2>1. PICK e \in Errors : n = 1 /\ Tail(todo) = <<Complete(e)>>
    BY <1>1, Shapes, ItemOps
  <2>2. items \o Tail(todo) \in {<<Complete(e)>>, <<Set(SIM_READY), Complete(e)>>}
    BY <2>1, Singles, EmptyConcat, WordSets
  <2> QED BY <2>1, <2>2, WordSets DEF Completes
<1> QED BY <1>1, LeftThen, NewItems, WordSets

LEMMA LeftRepoll ==
    ASSUME NEW r, NEW v, NEW a, NEW count, NEW todo \in Seq(Items), todo # <<>>,
           Left(r, v, a, todo, count), Head(todo).op = "repoll"
    PROVE  Left(r, v, a, <<>> \o Tail(todo), count)
<1>1. ASSUME NEW n \in {0, 1, 2}, Completes(todo, n)
      PROVE  Completes(<<>> \o Tail(todo), n)
  <2>1. n = 0 /\ Tail(todo) = <<>>
    BY <1>1, Shapes, ItemOps
  <2>2. <<>> \o Tail(todo) = <<>>
    BY <2>1, EmptyConcat
  <2> QED BY <2>1, <2>2 DEF Completes
<1> QED BY <1>1, LeftThen, NewItems, WordSets

LEMMA LeftComplete ==
    ASSUME NEW r, NEW v, NEW a, NEW count \in Nat, NEW todo \in Seq(Items), todo # <<>>,
           Left(r, v, a, todo, count), Head(todo).op \in {"complete", "deliver"}
    PROVE  Left(r, v, a, Tail(todo), count + 1)
<1>1. CASE r \notin DOMAIN Requests /\ NoCrash(todo)
  BY <1>1, NoCrashThen, NewItems, WordSets DEF Left
<1>2. CASE r \in DOMAIN Requests /\ todo = <<Crash>>
  <2>1. Head(todo) = Crash
    BY <1>2, ItemType, Pair
  <2> QED BY <2>1, ItemOps
<1>3. CASE r \in DOMAIN Requests
             /\ \E n \in {0, 1, 2} : Completes(todo, n) /\ Owed(r, v, a, count + n)
  <2>1. PICK n \in {0, 1, 2} : Completes(todo, n) /\ Owed(r, v, a, count + n)
    BY <1>3
  <2>2. \/ n = 1 /\ Tail(todo) \in {<<>>, <<Repoll>>}
        \/ n = 2 /\ \E f \in Errors : Tail(todo) = <<Complete(f)>>
    BY <2>1, Shapes, ItemOps
  <2>3. CASE n = 1 /\ Tail(todo) \in {<<>>, <<Repoll>>}
    <3>1. Completes(Tail(todo), 0)
      BY <2>3 DEF Completes
    <3>2. Owed(r, v, a, (count + 1) + 0)
      BY <2>1, <2>3
    <3> QED BY <1>3, <3>1, <3>2 DEF Left
  <2>4. CASE n = 2 /\ \E f \in Errors : Tail(todo) = <<Complete(f)>>
    <3>1. Completes(Tail(todo), 1)
      BY <2>4 DEF Completes
    <3>2. (count + 1) + 1 = count + 2
      OBVIOUS
    <3>3. Owed(r, v, a, (count + 1) + 1)
      BY <2>1, <2>4, <3>2
    <3> QED BY <1>3, <3>1, <3>3 DEF Left
  <2> QED BY <2>2, <2>3, <2>4
<1> QED BY <1>1, <1>2, <1>3 DEF Left

-----------------------------------------------------------------------------
(* The steps of the event loop's thread keep the types and what is owed.      *)

(* What Then does to the record.                                              *)
LEMMA ThenItems ==
    ASSUME disp \in Dispatches, disp.todo # <<>>, NEW items \in Seq(Items), Then(items)
    PROVE  /\ disp' \in Dispatches /\ disp'.pc = disp.pc /\ disp'.req = disp.req
           /\ disp'.val = disp.val /\ disp'.a = disp.a /\ disp'.count = disp.count
           /\ disp'.todo = items \o Tail(disp.todo)
<1>1. items \o Tail(disp.todo) \in Seq(Items)
  <2>1. disp.todo \in Seq(Items)
    BY DEF Dispatches
  <2>2. Tail(disp.todo) \in Seq(Items)
    BY <2>1
  <2> QED BY <2>2
<1> DEFINE t == items \o Tail(disp.todo)
<1>2. disp' = [disp EXCEPT !.todo = t]
  BY DEF Then
<1> HIDE DEF t
<1>3. t \in Seq(Items)
  BY <1>1 DEF t
<1>4. /\ disp' \in Dispatches /\ disp'.pc = disp.pc /\ disp'.req = disp.req
      /\ disp'.val = disp.val /\ disp'.a = disp.a /\ disp'.count = disp.count
      /\ disp'.todo = t
  BY <1>2, <1>3 DEF Dispatches
<1> QED BY <1>4 DEF t

LEMMA GoodLeft ==
    ASSUME NEW r \in RequestNames, NEW v, NEW a, NEW h, Good(r, v, a, h), h.send = "no"
    PROVE  h.todo \in Seq(Items) /\ Left(r, v, a, h.todo, 0)
<1>0. "no" \notin Kinds
  BY DEF Kinds
<1>1. CASE Once(h)
  <2>1. Completes(h.todo, 1) /\ Owed(r, v, a, 0 + 1) /\ NoCrash(h.todo) /\ h.todo \in Seq(Items)
    BY <1>1 DEF Once, Ending, Owed
  <2> QED BY <2>1 DEF Left
<1>2. CASE Double(h) /\ Twice(r, v, a)
  <2>1. Completes(h.todo, 2) /\ Owed(r, v, a, 0 + 2) /\ NoCrash(h.todo) /\ h.todo \in Seq(Items)
    BY <1>2 DEF Double, Ending, Owed
  <2> QED BY <2>1 DEF Left
<1>3. CASE Dies(h) /\ CrashesOn(r, a) /\ r \in DOMAIN Requests
  BY <1>3 DEF Dies, Ending, Left
<1>4. CASE Nothing(h) /\ r \in NeverCompleted
  <2>1. h.todo = <<>> /\ Completes(<<>>, 0) /\ Owed(r, v, a, 0 + 0) /\ h.todo \in Seq(Items)
    BY <1>4 DEF Nothing, Ending, Owed, Completes
  <2>2. r \in DOMAIN Requests
    BY <1>4 DEF NeverCompleted, Requests
  <2> QED BY <2>1, <2>2 DEF Left
<1>5. CASE Nothing(h) /\ r = "onDataCallListChanged"
  <2>1. h.todo = <<>> /\ h.todo \in Seq(Items) /\ NoCrash(<<>>)
    BY <1>5 DEF Nothing, Ending, NoCrash
  <2>2. r \notin DOMAIN Requests
    BY <1>5 DEF Requests
  <2> QED BY <2>1, <2>2 DEF Left
<1> QED BY <1>0, <1>1, <1>2, <1>3, <1>4, <1>5 DEF Good, Asks

(* Where the handler stops next.                                              *)
LEMMA ResumeGood ==
    ASSUME NEW d \in Dispatches, chan \in Nat, d.req \in RequestNames, d.count = 0,
           Good(d.req, d.val, d.a, Handler(d.req, d.val, d.st, d.a)),
           NEW e, e = Resume(d)
    PROVE  /\ e \in Dispatches /\ e.req \in RequestNames /\ e.count = 0
           /\ \/ e.pc = "command" /\ Partial(e.req, e.a)
              \/ e.pc = "todo" /\ Left(e.req, e.val, e.a, e.todo, e.count)
<1> DEFINE h == Handler(d.req, d.val, d.st, d.a)
<1>1. e = IF h.send = "no" THEN [d EXCEPT !.pc = "todo", !.todo = h.todo]
          ELSE [d EXCEPT !.pc = "command", !.on = chan]
  BY DEF Resume
<1>2. Good(d.req, d.val, d.a, h)
  OBVIOUS
<1> HIDE DEF h
<1>3. CASE h.send = "no"
  <2> DEFINE t == h.todo
  <2>1. t \in Seq(Items) /\ Left(d.req, d.val, d.a, t, 0)
    BY <1>2, <1>3, GoodLeft
  <2>2. e = [d EXCEPT !.pc = "todo", !.todo = t]
    BY <1>1, <1>3
  <2> HIDE DEF t
  <2>3. "todo" \in Points
    BY DEF Points
  <2>4. /\ e \in Dispatches /\ e.req = d.req /\ e.count = d.count /\ e.val = d.val
        /\ e.a = d.a /\ e.pc = "todo" /\ e.todo = t
    BY <2>1, <2>2, <2>3 DEF Dispatches
  <2> QED BY <2>1, <2>4
<1>4. CASE h.send # "no"
  <2>1. e = [d EXCEPT !.pc = "command", !.on = chan]
    BY <1>1, <1>4
  <2>2. "command" \in Points
    BY DEF Points
  <2>3. /\ e \in Dispatches /\ e.req = d.req /\ e.count = d.count
        /\ e.a = d.a /\ e.pc = "command"
    BY <2>1, <2>2 DEF Dispatches
  <2>4. Partial(d.req, d.a)
    BY <1>2, <1>4 DEF Good, Once, Double, Dies, Nothing, Ending
  <2> QED BY <2>3, <2>4
<1> QED BY <1>3, <1>4

LEMMA IdleType ==
    /\ Idle \in Dispatches /\ Idle.pc = "idle" /\ Idle.a = <<>> /\ Idle.count = 0
    /\ DOMAIN Idle = {"pc", "req", "val", "st", "a", "todo", "on", "count"}
<1>1. UNAVAILABLE \in Words /\ <<>> \in Seq(Answers) /\ <<>> \in Seq(Items)
  BY WordSets, EmptySeq
<1>2. "idle" \in Points /\ "" \in Names
  BY DEF Points, Names
<1>3. Idle \in Dispatches
  BY <1>1, <1>2 DEF Idle, Dispatches
<1> QED BY <1>3 DEF Idle

LEMMA RequestVals ==
    /\ \A r \in DOMAIN Requests : Requests[r] \subseteq {0, 1, 2}
    /\ "initializeCallback" \notin DOMAIN Requests
    /\ "onDataCallListChanged" \notin DOMAIN Requests
BY DEF Requests

LEMMA EnterType ==
    ASSUME NEW r \in RequestNames, NEW v \in {0, 1, 2}, NEW d, d = Enter(r, v)
    PROVE  d \in Dispatches /\ d.pc = "enter" /\ d.req = r /\ d.a = <<>> /\ d.count = 0
<1>1. "enter" \in Points /\ r \in Names
  BY DEF Points, Names
<1>2. d = [Idle EXCEPT !.pc = "enter", !.req = r, !.val = v]
  BY DEF Enter
<1> QED BY <1>1, <1>2, IdleType, ZenonT(60) DEF Dispatches

(* Steps that leave the event loop's thread where it is.                      *)
LEMMA CompletionKept ==
    ASSUME CompletionInv, UNCHANGED disp
    PROVE  CompletionInv'
BY DEF CompletionInv

(* A step that ends with items to do.                                         *)
LEMMA CompletionTodo ==
    ASSUME disp'.pc = "todo", Left(disp.req, disp.val, disp.a, disp.todo, disp.count)'
    PROVE  CompletionInv'
BY DEF CompletionInv

LEMMA RequestStep ==
    ASSUME NEW r \in DOMAIN Requests, NEW v \in Requests[r], onRequest(r, v)
    PROVE  disp' \in Dispatches /\ CompletionInv'
<1>1. v \in {0, 1, 2} /\ r \in RequestNames /\ r \in Names
  BY RequestVals DEF RequestNames, Names
<1>2. CASE disp' = Enter(r, v)
  <2>1. /\ disp' \in Dispatches /\ disp'.pc = "enter" /\ disp'.req = r /\ disp'.a = <<>>
        /\ disp'.count = 0
    BY <1>1, <1>2, EnterType
  <2> QED BY <1>1, <2>1 DEF CompletionInv, Partial
<1>3. CASE disp' = [Idle EXCEPT !.pc = "todo", !.req = r, !.val = v,
                                !.todo = <<Complete("RADIO_NOT_AVAILABLE")>>]
  <2> DEFINE t == <<Complete("RADIO_NOT_AVAILABLE")>>
  <2>1. "RADIO_NOT_AVAILABLE" \in Errors
    BY DEF Errors
  <2>2. t \in Seq(Items) /\ Completes(t, 1)
    BY <2>1, Singles DEF Completes
  <2>3. disp' = [Idle EXCEPT !.pc = "todo", !.req = r, !.val = v, !.todo = t]
    BY <1>3
  <2> HIDE DEF t
  <2>4. /\ disp' \in Dispatches /\ disp'.pc = "todo" /\ disp'.req = r /\ disp'.todo = t
        /\ disp'.count = 0
    <3>1. "todo" \in Points
      BY DEF Points
    <3> QED BY <1>1, <2>2, <2>3, <3>1, IdleType DEF Dispatches
  <2>5. \A x, a : Owed(r, x, a, 0 + 1)
    BY DEF Owed
  <2>6. Left(disp'.req, disp'.val, disp'.a, disp'.todo, disp'.count)
    BY <2>2, <2>4, <2>5 DEF Left
  <2> QED BY <2>4, <2>6, CompletionTodo
<1> QED BY <1>2, <1>3 DEF onRequest

LEMMA BeginStep ==
    ASSUME ReadersInv, DispType, CompletionInv, begin
    PROVE  disp' \in Dispatches /\ CompletionInv'
<1>1. disp \in Dispatches /\ sState \in Words /\ chan \in Nat
  BY DEF DispType, ReadersInv
<1>2. /\ disp.pc = "enter" /\ disp.req \in RequestNames /\ disp.count = 0 /\ disp.a = <<>>
  BY DEF begin, CompletionInv
<1> DEFINE d == [disp EXCEPT !.st = sState]
<1>3. disp' = Resume(d)
  BY DEF begin
<1>4. /\ d \in Dispatches /\ d.req = disp.req /\ d.count = disp.count /\ d.a = disp.a
      /\ d.val = disp.val
  BY <1>1 DEF Dispatches
<1> HIDE DEF d
<1>5. d.val \in {0, 1, 2} /\ d.a \in Seq(Answers)
  BY <1>4 DEF Dispatches
<1>6. Partial(d.req, d.a)
  BY <1>2, <1>4 DEF Partial
<1>7. Good(d.req, d.val, d.a, Handler(d.req, d.val, d.st, d.a))
  BY <1>2, <1>4, <1>5, <1>6, HandlerGood
<1>8. /\ disp' \in Dispatches /\ disp'.req \in RequestNames /\ disp'.count = 0
      /\ \/ disp'.pc = "command" /\ Partial(disp'.req, disp'.a)
         \/ disp'.pc = "todo" /\ Left(disp'.req, disp'.val, disp'.a, disp'.todo, disp'.count)
  BY <1>1, <1>2, <1>3, <1>4, <1>7, ResumeGood
<1> QED BY <1>8 DEF CompletionInv

(* The answer of a command, also one that NO CARRIER ends.                    *)
LEMMA AnswerStep ==
    ASSUME ReadersInv, DispType, CompletionInv, disp.pc = "command",
           NEW x \in AnswersTo(Pending),
           disp' = Resume([disp EXCEPT !.a = Append(@, x)])
    PROVE  disp' \in Dispatches /\ CompletionInv'
<1>1. disp \in Dispatches /\ chan \in Nat
  BY DEF DispType, ReadersInv
<1>2. /\ disp.req \in RequestNames /\ disp.count = 0 /\ Partial(disp.req, disp.a)
  BY DEF CompletionInv
<1>3. disp.val \in {0, 1, 2} /\ disp.a \in Seq(Answers)
  BY <1>1 DEF Dispatches
<1>4. x \in AnswersTo(Handler(disp.req, disp.val, disp.st, disp.a).send)
  BY DEF Pending
<1> DEFINE b == Append(disp.a, x)
<1>5. x \in Answers /\ Good(disp.req, disp.val, b, Handler(disp.req, disp.val, disp.st, b))
  BY <1>2, <1>3, <1>4, HandlerGood
<1>6. b \in Seq(Answers)
  BY <1>3, <1>5
<1>7. disp' = Resume([disp EXCEPT !.a = b])
  OBVIOUS
<1> HIDE DEF b
<1> DEFINE d == [disp EXCEPT !.a = b]
<1>8. /\ d \in Dispatches /\ d.req = disp.req /\ d.count = disp.count /\ d.a = b
      /\ d.val = disp.val /\ d.st = disp.st
  BY <1>1, <1>6 DEF Dispatches
<1> HIDE DEF d
<1>9. Good(d.req, d.val, d.a, Handler(d.req, d.val, d.st, d.a))
  BY <1>5, <1>8
<1>10. disp' = Resume(d)
  BY <1>7 DEF d
<1>11. /\ disp' \in Dispatches /\ disp'.req \in RequestNames /\ disp'.count = 0
       /\ \/ disp'.pc = "command" /\ Partial(disp'.req, disp'.a)
          \/ disp'.pc = "todo" /\ Left(disp'.req, disp'.val, disp'.a, disp'.todo, disp'.count)
  BY <1>1, <1>2, <1>8, <1>9, <1>10, ResumeGood
<1> QED BY <1>11 DEF CompletionInv

(* The items of what is left, one after the other.                            *)
LEMMA ItemsStep ==
    ASSUME DispType, CompletionInv, ReadersInv,
           doSet \/ doTest \/ doReport \/ doSend \/ pollSIMState \/ doRepoll
    PROVE  disp' \in Dispatches /\ CompletionInv'
<1>1. disp \in Dispatches /\ sState \in Words
  BY DEF DispType
<1>2. disp.todo \in Seq(Items) /\ disp.count \in Nat
  BY <1>1 DEF Dispatches
<1>3. disp.pc = "todo" /\ disp.todo # <<>>
  BY DEF doSet, doTest, doReport, doSend, pollSIMState, doRepoll, Doing
<1>4. Left(disp.req, disp.val, disp.a, disp.todo, disp.count)
  BY <1>3 DEF CompletionInv
<1>5. ASSUME NEW items \in Seq(Items), Then(items),
             Left(disp.req, disp.val, disp.a, items \o Tail(disp.todo), disp.count)
      PROVE  disp' \in Dispatches /\ CompletionInv'
  <2>1. /\ disp' \in Dispatches /\ disp'.pc = "todo" /\ disp'.req = disp.req
        /\ disp'.val = disp.val /\ disp'.a = disp.a /\ disp'.count = disp.count
        /\ disp'.todo = items \o Tail(disp.todo)
    BY <1>1, <1>3, <1>5, ThenItems
  <2>2. Left(disp'.req, disp'.val, disp'.a, disp'.todo, disp'.count)
    BY <1>5, <2>1
  <2> QED BY <2>1, <2>2, CompletionTodo
<1>6. CASE doSet
  <2>1. Head(disp.todo).op = "set" /\ Then(<<Test(sState)>>)
    BY <1>6 DEF doSet, Doing
  <2>2. <<Test(sState)>> \in Seq(Items)
    BY <1>1, NewItems
  <2> QED BY <1>1, <1>2, <1>3, <1>4, <1>5, <2>1, <2>2, LeftSet
<1>7. CASE doTest
  <2>1. PICK items \in {<<>>, <<Report, PowerOn>>} : Then(items)
    BY <1>7 DEF doTest
  <2>2. Head(disp.todo).op = "test"
    BY <1>7 DEF doTest, Doing
  <2>3. items \in Seq(Items)
    BY <1>1, NewItems
  <2> QED BY <1>2, <1>3, <1>4, <1>5, <2>1, <2>2, <2>3, LeftTest
<1>8. CASE doReport
  <2>1. Head(disp.todo).op = "report" /\ Then(<<SendReport(sState)>>)
    BY <1>8 DEF doReport, Doing
  <2>2. <<SendReport(sState)>> \in Seq(Items)
    BY <1>1, NewItems
  <2> QED BY <1>1, <1>2, <1>3, <1>4, <1>5, <2>1, <2>2, LeftReport
<1>11. CASE doSend
  <2>1. Head(disp.todo).op = "send" /\ Then(<<>>)
    BY <1>11 DEF doSend, Doing
  <2>2. <<>> \in Seq(Items)
    BY <1>1, NewItems
  <2> QED BY <1>2, <1>3, <1>4, <1>5, <2>1, <2>2, LeftSend
<1>9. CASE pollSIMState
  <2>1. PICK items \in {<<>>, <<Set(SIM_READY)>>} : Then(items)
    BY <1>9 DEF pollSIMState
  <2>2. Head(disp.todo).op = "powerOn"
    BY <1>9 DEF pollSIMState, Doing
  <2>3. items \in Seq(Items)
    BY WordSets, NewItems
  <2> QED BY <1>2, <1>3, <1>4, <1>5, <2>1, <2>2, <2>3, LeftPower
<1>10. CASE doRepoll
  <2>1. Head(disp.todo).op = "repoll" /\ Then(<<>>)
    BY <1>10 DEF doRepoll, Doing
  <2>2. <<>> \in Seq(Items)
    BY <1>1, NewItems
  <2> QED BY <1>2, <1>3, <1>4, <1>5, <2>1, <2>2, LeftRepoll
<1> QED BY <1>6, <1>7, <1>8, <1>9, <1>10, <1>11

LEMMA CompleteStep ==
    ASSUME DispType, CompletionInv, doComplete
    PROVE  disp' \in Dispatches /\ CompletionInv'
<1>1. disp \in Dispatches
  BY DEF DispType
<1>2. disp.todo \in Seq(Items) /\ disp.count \in Nat
  BY <1>1 DEF Dispatches
<1>3. /\ disp.pc = "todo" /\ disp.todo # <<>> /\ Head(disp.todo).op \in {"complete", "deliver"}
  BY DEF doComplete, Doing
<1>4. Left(disp.req, disp.val, disp.a, disp.todo, disp.count)
  BY <1>3 DEF CompletionInv
<1> DEFINE t == Tail(disp.todo)
           n == disp.count + 1
<1>5. disp' = [disp EXCEPT !.todo = t, !.count = n]
  BY DEF doComplete
<1>6. t \in Seq(Items) /\ n \in Nat
  BY <1>2, <1>3
<1>7. Left(disp.req, disp.val, disp.a, t, n)
  BY <1>2, <1>3, <1>4, LeftComplete
<1> HIDE DEF t, n
<1>8. /\ disp' \in Dispatches /\ disp'.pc = "todo" /\ disp'.req = disp.req
      /\ disp'.val = disp.val /\ disp'.a = disp.a /\ disp'.count = n /\ disp'.todo = t
  BY <1>1, <1>3, <1>5, <1>6 DEF Dispatches
<1>9. Left(disp'.req, disp'.val, disp'.a, disp'.todo, disp'.count)
  BY <1>7, <1>8
<1> QED BY <1>8, <1>9, CompletionTodo

LEMMA CrashStep ==
    ASSUME DispType, CompletionInv, crash
    PROVE  disp' \in Dispatches /\ CompletionInv'
<1>1. disp \in Dispatches
  BY DEF DispType
<1>2. disp.todo \in Seq(Items)
  BY <1>1 DEF Dispatches
<1>3. disp.pc = "todo" /\ disp.todo # <<>> /\ Head(disp.todo).op = "crash"
  BY DEF crash, Doing
<1>4. Left(disp.req, disp.val, disp.a, disp.todo, disp.count)
  BY <1>3 DEF CompletionInv
<1>5. CrashesOn(disp.req, disp.a)
  <2>1. CASE NoCrash(disp.todo)
    <3>1. 1 \in DOMAIN disp.todo /\ Head(disp.todo) = disp.todo[1]
      BY <1>2, <1>3
    <3> QED BY <1>3, <2>1, <3>1 DEF NoCrash
  <2>2. ASSUME NEW n \in {0, 1, 2}, Completes(disp.todo, n) PROVE FALSE
    BY <1>3, <2>2, Shapes, ItemOps
  <2> QED BY <1>4, <2>1, <2>2 DEF Left
<1>6. disp' = [disp EXCEPT !.pc = "crashed"]
  BY DEF crash
<1>7. "crashed" \in Points
  BY DEF Points
<1>8. disp' \in Dispatches /\ disp'.pc = "crashed" /\ disp'.req = disp.req /\ disp'.a = disp.a
  BY <1>1, <1>6, <1>7 DEF Dispatches
<1> QED BY <1>5, <1>8 DEF CompletionInv

LEMMA CallbackStep ==
    ASSUME initializeCallback \/ onDataCallListChanged \/ return
    PROVE  disp' \in Dispatches /\ CompletionInv'
<1>1. CASE initializeCallback
  <2> DEFINE t == <<Set(OFF), Set(SIM_NOT_READY)>>
  <2>1. Set(OFF) \in Items /\ Set(SIM_NOT_READY) \in Items
    BY ItemType, WordSets
  <2>2. t \in Seq(Items)
    BY <2>1, Pair
  <2>3. NoCrash(t)
    <3>1. \A x, y : x.op # "crash" /\ y.op # "crash" => NoCrash(<<x, y>>)
      BY DEF NoCrash
    <3> QED BY <3>1, ItemOps
  <2>4. disp' = [Idle EXCEPT !.pc = "todo", !.req = "initializeCallback", !.todo = t]
    BY <1>1 DEF initializeCallback
  <2> HIDE DEF t
  <2>5. "todo" \in Points /\ "initializeCallback" \in Names
    BY DEF Points, Names
  <2>6. /\ disp' \in Dispatches /\ disp'.pc = "todo" /\ disp'.req = "initializeCallback"
        /\ disp'.todo = t
    BY <2>2, <2>4, <2>5, IdleType DEF Dispatches
  <2>7. Left(disp'.req, disp'.val, disp'.a, disp'.todo, disp'.count)
    BY <2>3, <2>6, RequestVals DEF Left
  <2> QED BY <2>6, <2>7, CompletionTodo
<1>2. CASE onDataCallListChanged
  <2>1. disp' = Enter("onDataCallListChanged", 0)
    BY <1>2 DEF onDataCallListChanged
  <2>2. "onDataCallListChanged" \in RequestNames
    BY DEF RequestNames
  <2>3. /\ disp' \in Dispatches /\ disp'.pc = "enter" /\ disp'.a = <<>> /\ disp'.count = 0
        /\ disp'.req = "onDataCallListChanged"
    BY <2>1, <2>2, EnterType
  <2> QED BY <2>2, <2>3 DEF CompletionInv, Partial
<1>3. CASE return
  <2>1. disp' = Idle
    BY <1>3 DEF return
  <2> QED BY <2>1, IdleType DEF CompletionInv
<1> QED BY <1>1, <1>2, <1>3

LEMMA StateStep ==
    ASSUME ReadersInv, DispType, NEW s \in Words, setRadioState(s)
    PROVE  sState' \in Words
<1>1. s_closed \in {0, 1}
  BY DEF ReadersInv
<1>2. sState' = IF s_closed = 1 THEN UNAVAILABLE ELSE s
  BY <1>1, SetState
<1>3. UNAVAILABLE \in Words
  BY WordSets
<1> QED BY <1>2, <1>3

(* The steps of a reader thread leave the event loop's alone.                 *)
LEMMA ReaderWords ==
    ASSUME ReadersInv, DispType, NEW c \in Channels,
           \/ readerSet(c) \/ readerTest(c) \/ readerReport(c)
           \/ readerSend(c) \/ readerSent(c) \/ readerPowerOn(c)
    PROVE  /\ sState' \in Words /\ oldState' \in [Channels -> Words]
           /\ parcel' \in [Channels -> Words] /\ UNCHANGED disp
<1>0. /\ sState \in Words /\ oldState \in [Channels -> Words]
      /\ parcel \in [Channels -> Words] /\ UNAVAILABLE \in Words /\ SIM_READY \in Words
  BY WordSets DEF DispType
<1>1. CASE readerSet(c)
  <2>1. sState' \in Words
    BY <1>0, <1>1, StateStep DEF readerSet
  <2>2. UNCHANGED <<parcel, disp>> /\ oldState' = [oldState EXCEPT ![c] = sState]
    BY <1>1 DEF readerSet
  <2> QED BY <1>0, <2>1, <2>2
<1>2. CASE readerTest(c)
  BY <1>0, <1>2 DEF readerTest, radioVars
<1>3. CASE readerReport(c)
  BY <1>0, <1>3 DEF readerReport, radioVars
<1>4. CASE readerSend(c)
  BY <1>0, <1>4 DEF readerSend
<1>5. CASE readerSent(c)
  BY <1>0, <1>5 DEF readerSent, radioVars
<1>6. CASE readerPowerOn(c)
  <2>1. sState' \in Words
    BY <1>0, <1>6, StateStep DEF readerPowerOn
  <2>2. UNCHANGED <<parcel, disp>> /\ oldState' = [oldState EXCEPT ![c] = sState]
    BY <1>6 DEF readerPowerOn
  <2> QED BY <1>0, <2>1, <2>2
<1> QED BY <1>1, <1>2, <1>3, <1>4, <1>5, <1>6

LEMMA DispStep ==
    ASSUME ReadersInv, DispType, CompletionInv, [Next]_vars
    PROVE  DispType' /\ CompletionInv'
<1>0. /\ disp \in Dispatches /\ sState \in Words /\ oldState \in [Channels -> Words]
      /\ parcel \in [Channels -> Words]
  BY DEF DispType
<1>2. ASSUME UNCHANGED disp, sState' \in Words, oldState' \in [Channels -> Words],
             parcel' \in [Channels -> Words]
      PROVE  DispType' /\ CompletionInv'
  BY <1>0, <1>2, CompletionKept DEF DispType
<1>3. ASSUME UNCHANGED <<sState, oldState, parcel>>, disp' \in Dispatches, CompletionInv'
      PROVE  DispType' /\ CompletionInv'
  BY <1>0, <1>3 DEF DispType
<1>4. CASE mainOpen \/ mainAtOpen \/ mainTimer \/ waitForClose
  <2>1. UNCHANGED <<disp, sState, oldState, parcel>>
    BY <1>4 DEF mainOpen, mainAtOpen, mainTimer, waitForClose, channelVars
  <2> QED BY <1>0, <1>2, <2>1
<1>5. ASSUME NEW c \in Channels, readerEof(c) \/ readerClosed(c)
      PROVE  DispType' /\ CompletionInv'
  <2>1. UNCHANGED <<disp, sState, oldState, parcel>>
    BY <1>5 DEF readerEof, readerClosed, radioVars
  <2> QED BY <1>0, <1>2, <2>1
<1>6. ASSUME NEW c \in Channels,
             \/ readerSet(c) \/ readerTest(c) \/ readerReport(c)
             \/ readerSend(c) \/ readerSent(c) \/ readerPowerOn(c)
      PROVE  DispType' /\ CompletionInv'
  BY <1>2, <1>6, ReaderWords
<1>8. ASSUME NEW r \in DOMAIN Requests, NEW v \in Requests[r], onRequest(r, v)
      PROVE  DispType' /\ CompletionInv'
  <2>1. UNCHANGED <<sState, oldState, parcel>>
    BY <1>8 DEF onRequest, radioVars, channelVars
  <2> QED BY <1>3, <1>8, <2>1, RequestStep
<1>9. CASE begin
  <2>1. UNCHANGED <<sState, oldState, parcel>>
    BY <1>9 DEF begin, radioVars, channelVars
  <2> QED BY <1>3, <1>9, <2>1, BeginStep
<1>10. ASSUME NEW x \in AnswersTo(Pending), answer(x)
       PROVE  DispType' /\ CompletionInv'
  <2>1. UNCHANGED <<sState, oldState, parcel>> /\ disp.pc = "command"
    BY <1>10 DEF answer, radioVars, channelVars
  <2>2. disp' = Resume([disp EXCEPT !.a = Append(@, x)])
    BY <1>10 DEF answer
  <2>3. disp' \in Dispatches /\ CompletionInv'
    BY <2>1, <2>2, AnswerStep
  <2> QED BY <1>3, <2>1, <2>3
<1>11. CASE doSet
  <2>1. disp \in Dispatches /\ disp.todo # <<>>
    BY <1>0, <1>11 DEF doSet, Doing
  <2>2. disp.todo \in Seq(Items)
    BY <2>1 DEF Dispatches
  <2>3. Head(disp.todo) \in Items
    BY <2>1, <2>2
  <2>4. Head(disp.todo).to \in Words
    BY <2>3 DEF Items
  <2>5. sState' \in Words
    <3> DEFINE s == Head(disp.todo).to
    <3>1. setRadioState(s)
      BY <1>11 DEF doSet
    <3>2. s \in Words
      BY <2>4
    <3> HIDE DEF s
    <3> QED BY <3>1, <3>2, StateStep
  <2>6. UNCHANGED <<oldState, parcel>>
    BY <1>11 DEF doSet, channelVars
  <2>7. disp' \in Dispatches /\ CompletionInv'
    BY <1>11, ItemsStep
  <2> QED BY <1>0, <2>5, <2>6, <2>7 DEF DispType
<1>12. CASE doTest \/ doReport \/ doSend \/ pollSIMState \/ doRepoll
  <2>1. UNCHANGED <<sState, oldState, parcel>>
    BY <1>12 DEF doTest, doReport, doSend, pollSIMState, doRepoll, radioVars, channelVars
  <2> QED BY <1>3, <1>12, <2>1, ItemsStep
<1>13. CASE doComplete \/ crash \/ initializeCallback \/ onDataCallListChanged \/ return
  <2>1. UNCHANGED <<sState, oldState, parcel>>
    BY <1>13 DEF doComplete, crash, initializeCallback, onDataCallListChanged, return,
                 radioVars, channelVars
  <2>2. disp' \in Dispatches /\ CompletionInv'
    BY <1>13, CompleteStep, CrashStep, CallbackStep
  <2> QED BY <1>3, <2>1, <2>2
<1>14. CASE sendCallStateChanged \/ callMoves \/ ring \/ dataCallEvent
  <2>1. UNCHANGED <<disp, sState, oldState, parcel>>
    BY <1>14 DEF sendCallStateChanged, callMoves, ring, dataCallEvent, radioVars, channelVars,
                 callVars
  <2> QED BY <1>0, <1>2, <2>1
<1>15. CASE noCarrier
  <2>1. UNCHANGED <<sState, oldState, parcel>>
    BY <1>15 DEF noCarrier, radioVars, channelVars
  <2>2. CASE takenForAnswer
    <3>1. PICK x \in AnswersTo(Pending) \cap {"any", "error"} :
                 disp' = Resume([disp EXCEPT !.a = Append(@, x)])
      BY <1>15, <2>2 DEF noCarrier
    <3>2. disp.pc = "command" /\ x \in AnswersTo(Pending)
      BY <2>2 DEF takenForAnswer
    <3>3. disp' \in Dispatches /\ CompletionInv'
      BY <3>1, <3>2, AnswerStep
    <3> QED BY <1>3, <2>1, <3>3
  <2>3. CASE ~takenForAnswer
    <3>1. UNCHANGED disp
      BY <1>15, <2>3 DEF noCarrier
    <3> QED BY <1>0, <1>2, <2>1, <3>1
  <2> QED BY <2>2, <2>3
<1>16. CASE UNCHANGED vars
  BY <1>0, <1>2, <1>16 DEF vars
<1>17. CASE Elsewhere
  BY <1>8, <1>9, <1>10, <1>11, <1>12, <1>13, <1>14, <1>15, <1>17 DEF Elsewhere, handling
<1> QED BY <1>4, <1>5, <1>6, <1>16, <1>17, NextSplit

LEMMA DispInit == Init => DispType /\ CompletionInv
<1> SUFFICES ASSUME Init PROVE DispType /\ CompletionInv
  OBVIOUS
<1>1. /\ disp = Idle /\ sState = UNAVAILABLE
      /\ oldState = [c \in Channels |-> UNAVAILABLE]
      /\ parcel = [c \in Channels |-> UNAVAILABLE]
  BY DEF Init
<1>2. UNAVAILABLE \in Words
  BY WordSets
<1>3. DispType
  BY <1>1, <1>2, IdleType DEF DispType
<1> QED BY <1>1, <1>3, IdleType DEF CompletionInv

LEMMA OwedOnce ==
    ASSUME DispType, CompletionInv
    PROVE  CompletedOnce
<1>1. disp.count \in Nat
  BY DEF DispType, Dispatches
<1>2. ASSUME Returned, disp.req \in DOMAIN Requests
      PROVE  Owed(disp.req, disp.val, disp.a, disp.count)
  <2>1. disp.pc = "todo" /\ disp.todo = <<>>
    BY <1>2 DEF Returned
  <2>2. Left(disp.req, disp.val, disp.a, <<>>, disp.count)
    BY <2>1 DEF CompletionInv
  <2>3. <<>> # <<Crash>>
    BY One
  <2>4. PICK n \in {0, 1, 2} : Completes(<<>>, n) /\ Owed(disp.req, disp.val, disp.a, disp.count + n)
    BY <1>2, <2>2, <2>3 DEF Left
  <2>5. n = 0
    BY <2>4 DEF Completes
  <2> QED BY <1>1, <2>4, <2>5
<1>3. disp.pc = "crashed" => CrashesOn(disp.req, disp.a)
  BY DEF CompletionInv
<1>4. ASSUME Returned, disp.req \in DOMAIN Requests
      PROVE  \/ disp.count = 0 /\ disp.req \in NeverCompleted
             \/ disp.count = 1
             \/ disp.count = 2 /\ Twice(disp.req, disp.val, disp.a)
  BY <1>2, <1>4 DEF Owed
<1> QED BY <1>3, <1>4 DEF CompletedOnce, Returned

(* Every request is completed exactly once, by whatever way its handler is    *)
(* left and whatever the modem answers or the channel does on the way, but    *)
(* for the requests and answers that are named: whatever the scenario, and    *)
(* for any number of channels and polls.                                      *)
THEOREM RequestsCompletedOnce == Spec => []CompletedOnce
BY ReadersInit, ReadersStep, DispInit, DispStep, OwedOnce, PTL DEF Spec

-----------------------------------------------------------------------------
(* The reports of the radio state. *)

(* Some thread is still to see to it that the state as it is is sent.         *)
Owing(c) == \/ reader[c] = "test" /\ oldState[c] # sState
            \/ reader[c] = "report"
            \/ reader[c] = "send" /\ parcel[c] = sState

DispOwing == \/ Doing("test") /\ Head(disp.todo).to # sState
             \/ Doing("report")
             \/ Doing("send") /\ Head(disp.todo).to = sState

LEMMA OwingSplit == ReportInv <=> reported \/ DispOwing \/ \E c \in Channels : Owing(c)
BY DEF ReportInv, DispOwing, Owing

(* A step of one reader thread that leaves the state alone.                   *)
LEMMA ReaderMoves ==
    ASSUME ReadersInv, DispType, ReportInv, NEW c \in Channels,
           UNCHANGED <<sState, disp>>, reported => reported',
           \A d \in Channels : d # c => /\ reader'[d] = reader[d]
                                        /\ oldState'[d] = oldState[d]
                                        /\ parcel'[d] = parcel[d],
           Owing(c) => reported' \/ Owing(c)'
    PROVE  ReportInv'
<1>1. CASE reported
  BY <1>1 DEF ReportInv
<1>2. CASE DispOwing
  <2>1. DispOwing'
    BY <1>2 DEF DispOwing, Doing
  <2> QED BY <2>1 DEF ReportInv, DispOwing
<1>3. ASSUME NEW d \in Channels, Owing(d)
      PROVE  ReportInv'
  <2>1. CASE d = c
    BY <1>3, <2>1 DEF ReportInv, Owing
  <2>2. CASE d # c
    <3>1. Owing(d)'
      BY <1>3, <2>2 DEF Owing
    <3> QED BY <3>1 DEF ReportInv, Owing
  <2> QED BY <2>1, <2>2
<1> QED BY <1>1, <1>2, <1>3, OwingSplit

(* A step that leaves the state and the reader threads alone.                 *)
LEMMA DispMoves ==
    ASSUME ReportInv, UNCHANGED <<sState, reader, oldState, parcel>>, reported => reported',
           DispOwing => reported' \/ DispOwing'
    PROVE  ReportInv'
<1>1. CASE reported
  BY <1>1 DEF ReportInv
<1>2. CASE DispOwing
  BY <1>2 DEF ReportInv, DispOwing
<1>3. ASSUME NEW d \in Channels, Owing(d)
      PROVE  ReportInv'
  <2>1. Owing(d)'
    BY <1>3 DEF Owing
  <2> QED BY <2>1 DEF ReportInv, Owing
<1> QED BY <1>1, <1>2, <1>3, OwingSplit

(* A reader thread sets the state, after a close or in onRadioPowerOn.        *)
LEMMA ReaderSets ==
    ASSUME ReadersInv, DispType, ReportInv, NEW c \in Channels, NEW s, setRadioState(s),
           reader[c] \notin {"test", "report", "send"},
           reader' = [reader EXCEPT ![c] = "test"],
           oldState' = [oldState EXCEPT ![c] = sState], UNCHANGED <<disp, parcel>>
    PROVE  ReportInv'
<1>1. reader \in [Channels -> ReaderPoints] /\ oldState \in [Channels -> Words]
  BY DEF ReadersInv, DispType
<1>2. /\ reader'[c] = "test" /\ oldState'[c] = sState
      /\ \A d \in Channels : d # c => reader'[d] = reader[d] /\ oldState'[d] = oldState[d]
  BY <1>1
<1>3. reported' = (reported /\ sState' = sState)
  BY DEF setRadioState
<1>4. CASE sState' = sState
  <2>1. ~Owing(c)
    BY DEF Owing
  <2> QED BY <1>2, <1>3, <1>4, <2>1, ReaderMoves
<1>5. CASE sState' # sState
  BY <1>2, <1>5 DEF ReportInv
<1> QED BY <1>4, <1>5

(* What the event loop's thread is about to do once it has put x first.       *)
LEMMA DoesNext ==
    ASSUME disp \in Dispatches, disp.pc = "todo", disp.todo # <<>>, NEW x \in Items,
           NEW items \in {<<x>>, <<x, PowerOn>>}, Then(items)
    PROVE  /\ disp'.pc = "todo" /\ disp'.todo # <<>> /\ Head(disp'.todo) = x
<1>0. PowerOn \in Items
  BY ItemType
<1>1. items \in Seq(Items)
  BY <1>0, Pair
<1>2. disp'.pc = "todo" /\ disp'.todo = items \o Tail(disp.todo)
  BY <1>1, ThenItems
<1>3. disp.todo \in Seq(Items)
  BY DEF Dispatches
<1>4. Tail(disp.todo) \in Seq(Items)
  BY <1>3
<1> DEFINE y == PowerOn
<1>5. y \in Items
  BY <1>0
<1> HIDE DEF y
<1>6. \A t \in Seq(Items) : /\ <<x, y>> \o t # <<>> /\ Head(<<x, y>> \o t) = x
                            /\ <<x>> \o t # <<>> /\ Head(<<x>> \o t) = x
  BY <1>5
<1>7. disp'.todo = <<x>> \o Tail(disp.todo) \/ disp'.todo = <<x, y>> \o Tail(disp.todo)
  BY <1>2 DEF y
<1> QED BY <1>2, <1>4, <1>6, <1>7

LEMMA DoingPoint ==
    /\ DispOwing => disp.pc = "todo" /\ disp.todo # <<>>
                    /\ Head(disp.todo).op \in {"test", "report", "send"}
    /\ \A o : Doing(o) => disp.pc = "todo" /\ disp.todo # <<>> /\ Head(disp.todo).op = o
BY DEF DispOwing, Doing

(* The steps of the reader threads and of the main loop.                      *)
LEMMA ReportReaders ==
    ASSUME ReadersInv, DispType, ReportInv, NEW c \in Channels,
           \/ readerEof(c) \/ readerClosed(c) \/ readerSet(c) \/ readerTest(c)
           \/ readerReport(c) \/ readerSend(c) \/ readerSent(c) \/ readerPowerOn(c)
    PROVE  ReportInv'
<1>0. /\ reader \in [Channels -> ReaderPoints] /\ oldState \in [Channels -> Words]
      /\ parcel \in [Channels -> Words]
  BY DEF ReadersInv, DispType
<1>1. CASE readerEof(c) \/ readerClosed(c) \/ readerSent(c)
  <2>1. /\ reader[c] \in {"read", "eof", "sent"}
        /\ UNCHANGED <<sState, reported, disp, oldState, parcel>>
        /\ \A d \in Channels : d # c => reader'[d] = reader[d]
    BY <1>0, <1>1 DEF readerEof, readerClosed, readerSent, radioVars
  <2>2. ~Owing(c)
    BY <2>1 DEF Owing
  <2> QED BY <2>1, <2>2, ReaderMoves
<1>2. CASE readerSet(c)
  <2>1. /\ reader[c] = "set" /\ reader' = [reader EXCEPT ![c] = "test"]
        /\ oldState' = [oldState EXCEPT ![c] = sState] /\ UNCHANGED <<disp, parcel>>
        /\ setRadioState(UNAVAILABLE)
    BY <1>2 DEF readerSet
  <2> QED BY <2>1, ReaderSets
<1>3. CASE readerPowerOn(c)
  <2>1. /\ reader[c] = "powerOn" /\ reader' = [reader EXCEPT ![c] = "test"]
        /\ oldState' = [oldState EXCEPT ![c] = sState] /\ UNCHANGED <<disp, parcel>>
        /\ setRadioState(SIM_READY)
    BY <1>3 DEF readerPowerOn
  <2> QED BY <2>1, ReaderSets
<1>4. CASE readerTest(c)
  <2>1. /\ reader[c] = "test" /\ UNCHANGED <<sState, reported, disp, parcel>>
        /\ reader'[c] = IF sState # oldState[c] THEN "report" ELSE "gone"
        /\ \A d \in Channels : d # c => reader'[d] = reader[d] /\ oldState'[d] = oldState[d]
    BY <1>0, <1>4 DEF readerTest, radioVars
  <2>2. Owing(c) => Owing(c)'
    BY <2>1 DEF Owing
  <2> QED BY <2>1, <2>2, ReaderMoves
<1>5. CASE readerReport(c)
  <2>1. /\ UNCHANGED <<sState, reported, disp, oldState>>
        /\ reader'[c] = "send" /\ parcel'[c] = sState
        /\ \A d \in Channels : d # c => reader'[d] = reader[d] /\ parcel'[d] = parcel[d]
    BY <1>0, <1>5 DEF readerReport, radioVars
  <2>2. Owing(c)'
    BY <2>1 DEF Owing
  <2> QED BY <2>1, <2>2, ReaderMoves
<1>6. CASE readerSend(c)
  <2>1. /\ reader[c] = "send" /\ UNCHANGED <<sState, disp, oldState>>
        /\ reported' = (reported \/ parcel[c] = sState)
        /\ \A d \in Channels : d # c => reader'[d] = reader[d] /\ parcel'[d] = parcel[d]
    BY <1>0, <1>6 DEF readerSend, sendResponse
  <2>2. Owing(c) => reported'
    BY <2>1 DEF Owing
  <2> QED BY <2>1, <2>2, ReaderMoves
<1> QED BY <1>1, <1>2, <1>3, <1>4, <1>5, <1>6

(* The items of the event loop's thread that concern the state.               *)
LEMMA ReportItems ==
    ASSUME DispType, ReportInv, doSet \/ doTest \/ doReport \/ doSend
    PROVE  ReportInv'
<1>0. /\ disp \in Dispatches /\ sState \in Words
      /\ disp.pc = "todo" /\ disp.todo # <<>>
  BY DEF DispType, doSet, doTest, doReport, doSend, Doing
<1>1. CASE doSet
  <2>1. /\ Head(disp.todo).op = "set" /\ Then(<<Test(sState)>>)
        /\ UNCHANGED <<reader, oldState, parcel>>
        /\ reported' = (reported /\ sState' = sState)
    BY <1>1 DEF doSet, Doing, channelVars, setRadioState
  <2>2. /\ Test(sState) \in Items /\ Test(sState).op = "test" /\ Test(sState).to = sState
    BY <1>0, ItemType, ItemOps
  <2> DEFINE x == Test(sState)
  <2>3. x \in Items /\ x.op = "test" /\ x.to = sState /\ Then(<<x>>)
    BY <2>1, <2>2
  <2> HIDE DEF x
  <2>4. disp'.pc = "todo" /\ disp'.todo # <<>> /\ Head(disp'.todo) = x
    BY <1>0, <2>3, DoesNext
  <2>5. Doing("test")' /\ Head(disp'.todo).to = sState
    BY <2>3, <2>4 DEF Doing
  <2>6. CASE sState' = sState
    <3>1. ~DispOwing
      BY <2>1, DoingPoint
    <3> QED BY <2>1, <2>6, <3>1, DispMoves
  <2>7. CASE sState' # sState
    BY <2>5, <2>7 DEF ReportInv
  <2> QED BY <2>6, <2>7
<1>2. CASE doTest
  <2>1. /\ Head(disp.todo).op = "test" /\ UNCHANGED <<sState, reported, reader, oldState, parcel>>
    BY <1>2 DEF doTest, Doing, radioVars, channelVars
  <2>2. CASE sState # Head(disp.todo).to
    <3>1. Then(<<Report, PowerOn>>)
      BY <1>2, <2>2 DEF doTest
    <3>2. Report \in Items /\ Report.op = "report"
      BY ItemType, ItemOps
    <3> DEFINE x == Report
    <3>3. x \in Items /\ x.op = "report" /\ Then(<<x, PowerOn>>)
      BY <3>1, <3>2
    <3> HIDE DEF x
    <3>4. disp'.pc = "todo" /\ disp'.todo # <<>> /\ Head(disp'.todo) = x
      BY <1>0, <3>3, DoesNext
    <3>5. Doing("report")'
      BY <3>3, <3>4 DEF Doing
    <3> QED BY <3>5 DEF ReportInv
  <2>3. CASE sState = Head(disp.todo).to
    <3>1. ~DispOwing
      BY <2>1, <2>3 DEF DispOwing, Doing
    <3> QED BY <2>1, <3>1, DispMoves
  <2> QED BY <2>2, <2>3
<1>3. CASE doReport
  <2>1. Then(<<SendReport(sState)>>) /\ UNCHANGED <<sState, reported, reader, oldState, parcel>>
    BY <1>3 DEF doReport, radioVars, channelVars
  <2>2. /\ SendReport(sState) \in Items /\ SendReport(sState).op = "send"
        /\ SendReport(sState).to = sState
    BY <1>0, ItemType, ItemOps
  <2> DEFINE x == SendReport(sState)
  <2>3. x \in Items /\ x.op = "send" /\ x.to = sState /\ Then(<<x>>)
    BY <2>1, <2>2
  <2> HIDE DEF x
  <2>4. disp'.pc = "todo" /\ disp'.todo # <<>> /\ Head(disp'.todo) = x
    BY <1>0, <2>3, DoesNext
  <2>5. Doing("send")' /\ Head(disp'.todo).to = sState'
    BY <2>1, <2>3, <2>4 DEF Doing
  <2> QED BY <2>5 DEF ReportInv
<1>4. CASE doSend
  <2>1. /\ Head(disp.todo).op = "send" /\ UNCHANGED <<sState, reader, oldState, parcel>>
        /\ reported' = (reported \/ Head(disp.todo).to = sState)
    BY <1>4 DEF doSend, sendResponse, Doing, channelVars
  <2>2. DispOwing => reported'
    BY <2>1 DEF DispOwing, Doing
  <2> QED BY <2>1, <2>2, DispMoves
<1> QED BY <1>1, <1>2, <1>3, <1>4

LEMMA ReportStep ==
    ASSUME ReadersInv, DispType, ReportInv, [Next]_vars
    PROVE  ReportInv'
<1>1. CASE mainOpen \/ mainTimer \/ waitForClose
  <2>1. UNCHANGED <<sState, reader, oldState, parcel, reported, disp>>
    BY <1>1 DEF mainOpen, mainTimer, waitForClose, channelVars
  <2>2. DispOwing => DispOwing'
    BY <2>1 DEF DispOwing, Doing
  <2> QED BY <2>1, <2>2, DispMoves
<1>2. CASE mainAtOpen
  <2>1. /\ reader' = [reader EXCEPT ![chan + 1] = "read"]
        /\ UNCHANGED <<sState, oldState, parcel, reported, disp>>
    BY <1>2 DEF mainAtOpen
  <2>2. CASE chan + 1 \notin Channels
    <3>1. reader' = reader
      BY <2>1, <2>2 DEF ReadersInv
    <3>2. DispOwing => DispOwing'
      BY <2>1 DEF DispOwing, Doing
    <3> QED BY <2>1, <3>1, <3>2, DispMoves
  <2>3. CASE chan + 1 \in Channels
    <3>1. reader[chan + 1] = "none"
      BY <2>3, ChannelsType DEF ReadersInv
    <3>2. ~Owing(chan + 1)
      BY <3>1 DEF Owing
    <3>3. \A d \in Channels : d # chan + 1 => reader'[d] = reader[d]
      BY <2>1 DEF ReadersInv
    <3> DEFINE c == chan + 1
    <3>4. /\ c \in Channels /\ ~Owing(c)
          /\ \A d \in Channels : d # c => reader'[d] = reader[d]
      BY <2>3, <3>2, <3>3
    <3>5. PICK e \in Channels : e = c
      BY <2>3
    <3> HIDE DEF c
    <3> QED BY <2>1, <3>4, <3>5, ReaderMoves
  <2> QED BY <2>2, <2>3
<1>3. ASSUME NEW c \in Channels,
             \/ readerEof(c) \/ readerClosed(c) \/ readerSet(c) \/ readerTest(c)
             \/ readerReport(c) \/ readerSend(c) \/ readerSent(c) \/ readerPowerOn(c)
      PROVE  ReportInv'
  BY <1>3, ReportReaders
<1>4. CASE doSet \/ doTest \/ doReport \/ doSend
  BY <1>4, ReportItems
<1>5. ASSUME Elsewhere, UNCHANGED <<sState, reported>>,
             UNCHANGED disp \/ ~DispOwing
      PROVE  ReportInv'
  <2>1. UNCHANGED <<reader, oldState, parcel>>
    BY <1>5, ElsewhereKeeps DEF channelVars
  <2>2. DispOwing => DispOwing'
    BY <1>5 DEF DispOwing, Doing
  <2> QED BY <1>5, <2>1, <2>2, DispMoves
<1>6. CASE \E r \in DOMAIN Requests : \E v \in Requests[r] : onRequest(r, v)
  <2>1. Elsewhere
    BY <1>6 DEF Elsewhere
  <2>2. UNCHANGED <<sState, reported>> /\ disp.pc = "idle"
    BY <1>6 DEF onRequest, radioVars
  <2> QED BY <1>5, <2>1, <2>2, DoingPoint
<1>7. CASE begin \/ \E x \in AnswersTo(Pending) : answer(x)
  <2>1. Elsewhere
    BY <1>7 DEF Elsewhere, handling
  <2>2. UNCHANGED <<sState, reported>> /\ disp.pc \in {"enter", "command"}
    BY <1>7 DEF begin, answer, radioVars
  <2> QED BY <1>5, <2>1, <2>2, DoingPoint
<1>8. CASE pollSIMState \/ doComplete \/ doRepoll \/ return \/ crash
  <2>1. Elsewhere
    BY <1>8 DEF Elsewhere, handling
  <2>2. UNCHANGED <<sState, reported>>
    BY <1>8 DEF pollSIMState, doComplete, doRepoll, return, crash, radioVars
  <2>3. ~DispOwing
    <3>1. CASE return
      BY <3>1, DoingPoint DEF return, Returned
    <3>2. CASE pollSIMState \/ doComplete \/ doRepoll \/ crash
      <4>1. Head(disp.todo).op \in {"powerOn", "complete", "deliver", "repoll", "crash"}
        BY <3>2, DoingPoint DEF pollSIMState, doComplete, doRepoll, crash
      <4> QED BY <4>1, DoingPoint
    <3> QED BY <1>8, <3>1, <3>2
  <2> QED BY <1>5, <2>1, <2>2, <2>3
<1>9. CASE initializeCallback \/ sendCallStateChanged \/ onDataCallListChanged
  <2>1. Elsewhere
    BY <1>9 DEF Elsewhere
  <2>2. UNCHANGED <<sState, reported>> /\ disp.pc = "idle"
    BY <1>9 DEF initializeCallback, sendCallStateChanged, onDataCallListChanged, radioVars
  <2> QED BY <1>5, <2>1, <2>2, DoingPoint
<1>10. CASE callMoves \/ ring \/ dataCallEvent \/ noCarrier
  <2>1. Elsewhere
    BY <1>10 DEF Elsewhere
  <2>2. UNCHANGED <<sState, reported>> /\ (UNCHANGED disp \/ disp.pc = "command")
    BY <1>10 DEF callMoves, ring, dataCallEvent, noCarrier, takenForAnswer, radioVars
  <2> QED BY <1>5, <2>1, <2>2, DoingPoint
<1>11. CASE UNCHANGED vars
  <2>1. UNCHANGED <<sState, reader, oldState, parcel, reported, disp>>
    BY <1>11 DEF vars
  <2>2. DispOwing => DispOwing'
    BY <2>1 DEF DispOwing, Doing
  <2> QED BY <2>1, <2>2, DispMoves
<1>12. CASE Elsewhere
  BY <1>4, <1>6, <1>7, <1>8, <1>9, <1>10, <1>12 DEF Elsewhere, handling
<1> QED BY <1>1, <1>2, <1>3, <1>11, <1>12, NextSplit

(* However many threads set, compare and report the radio state outside the   *)
(* mutex, and though each reads the state some time before it sends it: when  *)
(* none is about to report, the state as it is has been sent since it changed *)
(* last, for any number of channels and whatever the requests. It is not said *)
(* that nothing older was sent after it.                                      *)
THEOREM ReportsCurrent == Spec => []EveryChangeReported
<1>1. Init => ReportInv
  BY DEF Init, ReportInv
<1>2. ReportInv => EveryChangeReported
  BY DEF ReportInv, EveryChangeReported
<1> QED BY <1>1, <1>2, ReadersInit, ReadersStep, DispInit, DispStep, ReportStep, PTL DEF Spec

=============================================================================
