----------------------------- MODULE RilMarshal -----------------------------
(* The marshalling of libril/ril.cpp: a request block of the client is read   *)
(* by the dispatch function of its request and handed to the vendor RIL, and  *)
(* what the vendor RIL completes the request with, or sends unsolicited, is   *)
(* written by the response function of the request for the client to read.    *)
(* A Parcel is the sequence of its 32-bit words, so that a block may end      *)
(* anywhere between two words and reads go on, or fail, where they do in the  *)
(* code. A text is abstracted to -1 for NULL, 0 for the empty one and k > 0   *)
(* for one of two words, so that a block may end inside it; a buffer likewise *)
(* with one word.                                                             *)
EXTENDS RilContract, Integers

CONSTANTS PtrSize,        \* sizeof(int *) of the build, in bytes
          AddressMax,     \* RIL_CDMA_SMS_ADDRESS_MAX
          SubaddressMax,  \* RIL_CDMA_SMS_SUBADDRESS_MAX
          BearerMax,      \* RIL_CDMA_SMS_BEARER_DATA_MAX
          InfoRecMax,     \* RIL_CDMA_MAX_NUMBER_OF_INFO_RECS
          ArrayMax        \* bound: the elements of an array that is passed

(* An int has four bytes; a pointer has four or eight.                        *)
ASSUME SizesAssumption ==
    /\ PtrSize \in {4, 8}
    /\ AddressMax \in Nat /\ SubaddressMax \in Nat /\ BearerMax \in Nat
    /\ InfoRecMax \in Nat \ {0}
    /\ ArrayMax \in Nat

VARIABLES version,  \* s_callbacks.version of the vendor RIL
          phase,    \* "idle", "sent", then what became of the block
          req,      \* the number of the request or unsolicited response
          sent,     \* what the client marshalled, or the vendor completed with
          block,    \* the words the client wrote
          given,    \* what the vendor RIL received, with the strings not freed
          answer    \* the words sent to the client

vars == <<version, phase, req, sent, block, given, answer>>

Smaller(a, b) == IF a < b THEN a ELSE b

Repeat(n, k) == IF n <= 0 THEN <<>> ELSE [i \in 1..n |-> k]

Concat(seqs) ==
    LET f[i \in 0..Len(seqs)] ==
            IF i = 0 THEN <<>> ELSE f[i - 1] \o seqs[i]
    IN f[Len(seqs)]

-----------------------------------------------------------------------------
(* Parcels. A value is <<kind, v>>.                                           *)

(* writeStringToParcel, writeInt32, write.                                    *)
WordsOf(v) ==
    CASE v[1] = "str" -> (CASE v[2] = -1 -> <<-1>>
                            [] v[2] = 0  -> <<0, 0>>
                            [] OTHER     -> <<3, v[2], v[2]>>)
      [] v[1] = "raw" -> (CASE v[2] = -1 -> <<-1>>
                            [] v[2] = 0  -> <<0>>
                            [] OTHER     -> <<4, v[2]>>)
      [] OTHER -> <<v[2]>>

Words(vals) == Concat([i \in DOMAIN vals |-> WordsOf(vals[i])])

AllWords(elems) == Concat([i \in DOMAIN elems |-> Words(elems[i])])

(* The reader: words and place, the last status, the values read, the strings *)
(* allocated and whether the function is still on its way to onRequest.       *)
Start(p) == [w |-> p, pos |-> 0, ok |-> TRUE, args |-> <<>>, live |-> 0,
             valid |-> TRUE]

Left(r) == Len(r.w) - r.pos

(* readInt32 and a one-byte read: when no word is left the place stays, the   *)
(* status is an error and the variable keeps what it held.                    *)
ReadWord(r, kind) ==
    IF Left(r) > 0
    THEN [r EXCEPT !.pos = @ + 1, !.ok = TRUE,
                   !.args = Append(@, <<kind, r.w[r.pos + 1]>>)]
    ELSE [r EXCEPT !.ok = FALSE, !.args = Append(@, <<"unset", 0>>)]

(* A length and (length + 1) 16-bit units; the status is not reported.        *)
strdupReadString(r) ==
    LET len == IF Left(r) > 0 THEN r.w[r.pos + 1] ELSE -1
        after == IF Left(r) > 0 THEN r.pos + 1 ELSE r.pos
        units == (len + 2) \div 2
    IN IF len >= 0 /\ Len(r.w) - after >= units
       THEN [r EXCEPT !.pos = after + units, !.live = @ + 1,
                      !.args = Append(@, <<"str", IF len = 0 THEN 0
                                                  ELSE r.w[after + 1]>>)]
       ELSE [r EXCEPT !.pos = after, !.args = Append(@, <<"str", -1>>)]

(* A checked length, then readInplace, whose failure is a NULL pointer passed *)
(* with that length ("cut"): there are too few words, or the length, negative *)
(* and not the -1 of a NULL buffer, is a huge size.                           *)
ReadRaw(r) ==
    LET n == (r.w[r.pos + 1] + 3) \div 4
    IN CASE Left(r) = 0 -> [r EXCEPT !.valid = FALSE]
         [] Left(r) > 0 /\ r.w[r.pos + 1] = -1 ->
              [r EXCEPT !.pos = @ + 1, !.args = Append(@, <<"raw", -1>>)]
         [] OTHER ->
              IF n >= 0 /\ Left(r) - 1 >= n
              THEN [r EXCEPT !.pos = @ + 1 + n,
                             !.args = Append(@, <<"raw", IF n = 0 THEN 0
                                                   ELSE r.w[r.pos + 2]>>)]
              ELSE [r EXCEPT !.pos = @ + 1,
                             !.args = Append(@, <<"cut", r.w[r.pos + 1]>>)]

Step(r, k) ==
    CASE ~r.valid             -> r
      [] r.valid /\ k = "check" -> [r EXCEPT !.valid = r.ok]
      [] r.valid /\ k = "str"   -> strdupReadString(r)
      [] r.valid /\ k = "raw"   -> ReadRaw(r)
      [] OTHER                -> ReadWord(r, k)

Run(r, kinds) ==
    LET f[i \in 0..Len(kinds)] == IF i = 0 THEN r ELSE Step(f[i - 1], kinds[i])
    IN f[Len(kinds)]

(* The last value read, and the reader without it.                            *)
Last(r) == IF r.args = <<>> THEN 0 ELSE r.args[Len(r.args)][2]

Drop(r) == IF r.args = <<>> THEN r
           ELSE [r EXCEPT !.args = SubSeq(@, 1, Len(@) - 1)]

Singles(vals) == [i \in DOMAIN vals |-> <<vals[i]>>]

(* The values in groups of n.                                                 *)
Chunks(vals, n) ==
    [i \in 1..(Len(vals) \div n) |-> SubSeq(vals, (i - 1) * n + 1, i * n)]

(* The two members of each structure the other way round.                     *)
Swapped(elems) == [i \in DOMAIN elems |-> <<elems[i][2], elems[i][1]>>]

Datum(null, elems) == [null |-> null, elems |-> elems]

NoDatum == Datum(TRUE, <<>>)

-----------------------------------------------------------------------------
(* The dispatch functions: what onRequest receives, or an invalid block, and  *)
(* the strings that were allocated and are not freed when the function ends.  *)
Outcome(r, null, elems, freed) ==
    [valid |-> r.valid, data |-> IF r.valid THEN Datum(null, elems) ELSE NoDatum,
     leak |-> IF r.valid THEN r.live - freed ELSE r.live]

(* goto invalid when the i-th value is a NULL string.                         *)
NotNull(r, i) == [r EXCEPT !.valid = @ /\ r.args[i][2] # -1]

dispatchVoid(p) == Outcome(Start(p), TRUE, <<>>, 0)

(* Mutant: the string is not freed.                                           *)
dispatchString_kept(p) ==
    LET r == Run(Start(p), <<"str">>) IN Outcome(r, FALSE, <<r.args>>, 0)

dispatchString(p) ==
    LET r == Run(Start(p), <<"str">>) IN Outcome(r, FALSE, <<r.args>>, r.live)

(* Mutant: an empty array is invalid, as it is for dispatchInts.              *)
dispatchStrings_some(p) ==
    LET h == Run(Start(p), <<"int", "check">>)
        c == [Drop(h) EXCEPT !.valid = @ /\ Last(h) # 0]
        r == Run(c, Repeat(Last(h), "str"))
    IN Outcome(r, Last(h) = -1, Singles(r.args), r.live)

dispatchStrings(p) ==
    LET h == Run(Start(p), <<"int", "check">>)
        r == Run(Drop(h), Repeat(Last(h), "str"))
    IN Outcome(r, Last(h) = -1, Singles(r.args), r.live)

dispatchInts(p) ==
    LET h == Run(Start(p), <<"int", "check">>)
        c == [Drop(h) EXCEPT !.valid = @ /\ Last(h) # 0]
        r == Run(c, Concat(Repeat(Last(h), <<"int", "check">>)))
    IN Outcome(r, FALSE, Singles(r.args), 0)

dispatchSmsWrite(p) ==
    LET h == NotNull(Run(Start(p), <<"int", "str", "check">>), 2)
        r == Run(h, <<"str">>)
    IN Outcome(r, FALSE, <<r.args>>, 1)

dispatchDial(p) ==
    LET h == NotNull(Run(Start(p), <<"str", "int", "check">>), 1)
        u == Run(h, <<"int", "check">>)
        r == IF version < 3 THEN h
             ELSE IF Last(u) = 0 THEN Drop(u)
             ELSE Run(Drop(u), <<"int", "int", "raw">>)
    IN Outcome(r, FALSE, <<r.args>>, 1)

(* Mutant: the path after p3.                                                 *)
dispatchSIM_IO_order(p) ==
    LET r == Run(Start(p), <<"int", "int", "int", "int", "int", "str",
                             "str", "str", "check">>)
    IN Outcome(r, FALSE, <<r.args>>, r.live)

dispatchSIM_IO(p) ==
    LET r == Run(Start(p), <<"int", "int", "str", "int", "int", "int",
                             "str", "str", "check">>)
    IN Outcome(r, FALSE, <<r.args>>, r.live)

dispatchCallForward(p) ==
    LET r == Run(Start(p), <<"int", "int", "int", "int", "str", "int", "check">>)
        empty == r.valid /\ r.args[5][2] = 0
    IN Outcome(r, FALSE,
               <<IF empty THEN [r.args EXCEPT ![5] = <<"str", -1>>] ELSE r.args>>,
               IF empty THEN 0 ELSE r.live)

(* The NULL chosen for the length -1 is overwritten by readInplace(0).        *)
dispatchRaw(p) ==
    LET r == Run(Start(p), <<"raw">>)
        null == r.valid /\ p[1] = -1
    IN Outcome(r, FALSE, <<IF null THEN <<<<"raw", 0>>>> ELSE r.args>>, 0)

(* A count of the given kind and as many bytes, max at most.                  *)
Counted(r, kind, max) ==
    LET c == Step(r, kind) IN Run(c, Repeat(Smaller(Last(c), max), "byte"))

dispatchCdmaSms(p) ==
    LET a == Counted(Run(Start(p), RIL_CDMA_SMS_Address), "byte", AddressMax)
        b == Counted(Run(a, RIL_CDMA_SMS_Subaddress), "byte", SubaddressMax)
        r == Step(Counted(b, "int", BearerMax), "check")
    IN Outcome(r, FALSE, <<r.args>>, 0)

dispatchCdmaSmsAck(p) ==
    LET r == Run(Start(p), <<"int", "int", "check">>)
    IN Outcome(r, FALSE, <<r.args>>, 0)

(* Mutant: no look at the status at the end.                                  *)
Records_unchecked(p, n) ==
    LET h == Run(Start(p), <<"int", "check">>)
        r == Run(Drop(h), Repeat(n * Last(h), "int"))
    IN Outcome(r, FALSE, Chunks(r.args, n), 0)

(* A checked count and its records; the status of the last read decides.      *)
Records(p, n) ==
    LET h == Run(Start(p), <<"int", "check">>)
        r == Run(Drop(h), Repeat(n * Last(h), "int") \o <<"check">>)
    IN Outcome(r, FALSE, Chunks(r.args, n), 0)

dispatchGsmBrSmsCnf(p) == Records(p, 5)

dispatchCdmaBrSmsCnf(p) == Records(p, 3)

(* Unlike dispatchCdmaSms this one reads the whole of every array.            *)
dispatchRilCdmaSmsWriteArgs(p) ==
    LET r == Run(Start(p),
                 <<"int">> \o RIL_CDMA_SMS_Address \o <<"byte">>
                   \o Repeat(AddressMax, "byte") \o RIL_CDMA_SMS_Subaddress
                   \o <<"byte">> \o Repeat(SubaddressMax, "byte")
                   \o <<"int">> \o Repeat(BearerMax, "byte") \o <<"check">>)
    IN Outcome(r, FALSE, <<r.args>>, 0)

dispatchFunction(name, p) ==
    CASE name = "Void"         -> dispatchVoid(p)
      [] name = "String"       -> dispatchString(p)
      [] name = "Strings"      -> dispatchStrings(p)
      [] name = "Ints"         -> dispatchInts(p)
      [] name = "SmsWrite"     -> dispatchSmsWrite(p)
      [] name = "Dial"         -> dispatchDial(p)
      [] name = "SIM_IO"       -> dispatchSIM_IO(p)
      [] name = "CallForward"  -> dispatchCallForward(p)
      [] name = "Raw"          -> dispatchRaw(p)
      [] name = "CdmaSms"      -> dispatchCdmaSms(p)
      [] name = "CdmaSmsAck"   -> dispatchCdmaSmsAck(p)
      [] name = "GsmBrSmsCnf"  -> dispatchGsmBrSmsCnf(p)
      [] name = "CdmaBrSmsCnf" -> dispatchCdmaBrSmsCnf(p)
      [] name = "RilCdmaSmsWriteArgs" -> dispatchRilCdmaSmsWriteArgs(p)

-----------------------------------------------------------------------------
(* The response functions. A response is NULL or an array of structures; bad  *)
(* says that its length is not the one the function expects (for NULL: not    *)
(* zero). The result is the return value and the words written.               *)
Response(null, bad, elems) == [null |-> null, bad |-> bad, elems |-> elems]

(* A text longer than the buffer of its record.                               *)
TooLong == 99

INVALID_RESPONSE == [ret |-> -1, w |-> <<>>]

Written(words) == [ret |-> 0, w |-> words]

(* A number of structures and each of them.                                   *)
Listed(r, words) ==
    IF r.bad THEN INVALID_RESPONSE ELSE Written(<<Len(r.elems)>> \o words)

(* One structure, which must be there and have its size.                      *)
Single(r) ==
    IF r.null \/ r.bad THEN INVALID_RESPONSE ELSE Written(Words(r.elems[1]))

(* sizeof(int) is 4; the count divides by the size of a pointer.              *)
responseInts(r) ==
    LET n == (4 * Len(r.elems)) \div PtrSize
    IN IF r.bad THEN INVALID_RESPONSE
       ELSE Written(<<n>> \o AllWords(SubSeq(r.elems, 1, n)))

responseStrings(r) == Listed(r, AllWords(r.elems))

(* A buffer passed as a char * ends at its first zero byte, here its first.   *)
CString(v) == IF v[1] = "raw" THEN <<"str", Smaller(v[2], 0)>> ELSE v

responseString(r) ==
    Written(IF r.null THEN <<-1>> ELSE WordsOf(CString(r.elems[1][1])))

responseVoid(r) == Written(<<>>)

(* The UUS information of a call follows its twelve members; it is left out   *)
(* for a vendor RIL below version 3 and when its data is NULL.                *)
CallWords(c) ==
    LET uus == /\ version >= 3
               /\ Len(c) > Len(RIL_Call)
               /\ c[Len(c)][2] # -1
    IN Words(SubSeq(c, 1, 12))
         \o (IF uus THEN <<1>> \o Words(SubSeq(c, 13, 15)) ELSE <<0>>)

responseCallList(r) ==
    Listed(r, Concat([i \in DOMAIN r.elems |-> CallWords(r.elems[i])]))

responseSMS(r) == Single(r)

responseDataCallList(r) == Listed(r, AllWords(r.elems))

responseRaw(r) ==
    CASE r.null /\ r.bad  -> INVALID_RESPONSE
      [] r.null /\ ~r.bad -> Written(<<-1>>)
      [] OTHER           -> Written(Words(r.elems[1]))

responseSIM_IO(r) == Single(r)

responseCallForwards(r) == Listed(r, AllWords(r.elems))

responseSsn(r) == Single(r)

(* Mutant: the members in the order of the declaration.                       *)
responseCellList_declared(r) == Listed(r, AllWords(r.elems))

(* rssi first, then cid, which the structure declares the other way round.    *)
responseCellList(r) == Listed(r, AllWords(Swapped(r.elems)))

marshallSignalInfoRecord(s) == Words(s)

(* A record is its name and its members. The function gives up, with what it  *)
(* has written, at an unknown name, at RIL_CDMA_T53_RELEASE_INFO_REC and at a *)
(* text whose length is beyond its buffer.                                    *)
responseCdmaInformationRecords(r) ==
    LET n == Smaller(Len(r.elems), InfoRecMax)
        fits(e) == /\ e[1][2] \in 0..10 \ {9}
                   /\ \A i \in DOMAIN e : e[i] # <<"str", TooLong>>
        done == {k \in 0..n : \A i \in 1..k : fits(r.elems[i])}
        upTo == CHOOSE k \in done : \A j \in done : j <= k
    IN IF r.bad \/ r.null THEN INVALID_RESPONSE
       ELSE [ret |-> IF upTo = n THEN 0 ELSE -1,
             w |-> <<n>> \o AllWords(SubSeq(r.elems, 1, upTo))
                   \o IF upTo = n THEN <<>>
                      ELSE Words(SubSeq(r.elems[upTo + 1], 1, 1))]

(* The seven ints of the structure, or an old RIL's one or two and zeros.     *)
responseRilSignalStrength(r) ==
    LET ints == IF r.elems = <<>> THEN <<>> ELSE Words(r.elems[1])
    IN IF r.bad THEN INVALID_RESPONSE
       ELSE Written(ints \o Repeat(7 - Len(ints), 0))

responseCdmaSignalInfoRecord(r) ==
    IF r.null \/ r.bad THEN INVALID_RESPONSE
    ELSE Written(marshallSignalInfoRecord(r.elems[1]))

responseCallRing(r) ==
    IF r.null \/ r.elems = <<>> THEN responseVoid(r)
    ELSE responseCdmaSignalInfoRecord(r)

responseCdmaCallWaiting(r) ==
    IF r.null \/ r.bad THEN INVALID_RESPONSE
    ELSE Written(Words(SubSeq(r.elems[1], 1, 3))
                   \o marshallSignalInfoRecord(SubSeq(r.elems[1], 4, 7)))

(* The first element holds the members before num_applications.               *)
responseSimStatus(r) ==
    IF r.bad THEN INVALID_RESPONSE
    ELSE Written(Words(r.elems[1]) \o <<Len(r.elems) - 1>>
                   \o AllWords(Tail(r.elems)))

(* These two do not look at the length.                                       *)
responseGsmBrSmsCnf(r) == Written(<<Len(r.elems)>> \o AllWords(r.elems))

responseCdmaBrSmsCnf(r) == Written(<<Len(r.elems)>> \o AllWords(r.elems))

responseCdmaSms(r) ==
    IF r.null \/ r.bad THEN INVALID_RESPONSE ELSE Written(Words(r.elems[1]))

responseFunction(name, r) ==
    CASE name = "Void"         -> responseVoid(r)
      [] name = "String"       -> responseString(r)
      [] name = "Strings"      -> responseStrings(r)
      [] name = "Ints"         -> responseInts(r)
      [] name = "CallList"     -> responseCallList(r)
      [] name = "SMS"          -> responseSMS(r)
      [] name = "DataCallList" -> responseDataCallList(r)
      [] name = "Raw"          -> responseRaw(r)
      [] name = "SIM_IO"       -> responseSIM_IO(r)
      [] name = "CallForwards" -> responseCallForwards(r)
      [] name = "Ssn"          -> responseSsn(r)
      [] name = "CellList"     -> responseCellList(r)
      [] name = "CdmaInformationRecords" -> responseCdmaInformationRecords(r)
      [] name = "RilSignalStrength"      -> responseRilSignalStrength(r)
      [] name = "CallRing"     -> responseCallRing(r)
      [] name = "CdmaCallWaiting" -> responseCdmaCallWaiting(r)
      [] name = "SimStatus"    -> responseSimStatus(r)
      [] name = "GsmBrSmsCnf"  -> responseGsmBrSmsCnf(r)
      [] name = "CdmaBrSmsCnf" -> responseCdmaBrSmsCnf(r)
      [] name = "CdmaSms"      -> responseCdmaSms(r)

-----------------------------------------------------------------------------
(* The tables: the dispatch and the response function of every request, and   *)
(* the response function of every unsolicited response with its wake type.    *)
WAKE_PARTIAL == TRUE

DONT_WAKE == FALSE

s_commands ==
  << <<"Void","SimStatus">>, <<"Strings","Ints">>, <<"Strings","Ints">>, <<"Strings","Ints">>,
     <<"Strings","Ints">>, <<"Strings","Ints">>, <<"Strings","Ints">>, <<"Strings","Ints">>,
     <<"Void","CallList">>, <<"Dial","Void">>, <<"Void","String">>, <<"Ints","Void">>,
     <<"Void","Void">>, <<"Void","Void">>, <<"Void","Void">>, <<"Void","Void">>,
     <<"Void","Void">>, <<"Void","Ints">>, <<"Void","RilSignalStrength">>, <<"Void","Strings">>,
     <<"Void","Strings">>, <<"Void","Strings">>, <<"Ints","Void">>, <<"String","Void">>,
     <<"Strings","SMS">>, <<"Strings","SMS">>, <<"Strings","Strings">>, <<"SIM_IO","SIM_IO">>,
     <<"String","Void">>, <<"Void","Void">>, <<"Void","Ints">>, <<"Ints","Void">>,
     <<"CallForward","CallForwards">>, <<"CallForward","Void">>, <<"Ints","Ints">>,
     <<"Ints","Void">>, <<"Ints","Void">>, <<"Void","String">>, <<"Void","String">>,
     <<"Void","Void">>, <<"Strings","Void">>, <<"Strings","Ints">>, <<"Strings","Ints">>,
     <<"Strings","Void">>, <<"Void","Ints">>, <<"Void","Void">>, <<"String","Void">>,
     <<"Void","Strings">>, <<"String","Void">>, <<"Void","Void">>, <<"Void","String">>,
     <<"Ints","Void">>, <<"Ints","Void">>, <<"Void","Ints">>, <<"Void","Ints">>,
     <<"Void","Ints">>, <<"Void","DataCallList">>, <<"Void","Void">>, <<"Raw","Raw">>,
     <<"Strings","Strings">>, <<"Ints","Void">>, <<"Ints","Void">>, <<"SmsWrite","Ints">>,
     <<"Ints","Void">>, <<"Ints","Void">>, <<"Void","Ints">>, <<"Void","String">>,
     <<"String","Void">>, <<"String","String">>, <<"String","Void">>, <<"Ints","Void">>,
     <<"Void","Void">>, <<"Ints","Void">>, <<"Void","Ints">>, <<"Void","CellList">>,
     <<"Ints","Void">>, <<"Ints","Void">>, <<"Ints","Void">>, <<"Void","Ints">>,
     <<"Ints","Void">>, <<"Void","Ints">>, <<"Ints","Void">>, <<"Void","Ints">>,
     <<"String","Void">>, <<"Strings","Void">>, <<"String","Void">>, <<"CdmaSms","SMS">>,
     <<"CdmaSmsAck","Void">>, <<"Void","GsmBrSmsCnf">>, <<"GsmBrSmsCnf","Void">>,
     <<"Ints","Void">>, <<"Void","CdmaBrSmsCnf">>, <<"CdmaBrSmsCnf","Void">>, <<"Ints","Void">>,
     <<"Void","Strings">>, <<"RilCdmaSmsWriteArgs","Ints">>, <<"Ints","Void">>,
     <<"Void","Strings">>, <<"Void","Void">>, <<"Void","String">>, <<"String","Void">>,
     <<"Ints","Void">>, <<"Void","Void">>, <<"Strings","Strings">>, <<"Strings","Strings">>,
     <<"Strings","Void">>, <<"Strings","Strings">>, <<"Strings","Strings">> >>

s_unsolResponses ==
  << <<"Void",WAKE_PARTIAL>>, <<"Void",WAKE_PARTIAL>>, <<"Void",WAKE_PARTIAL>>,
     <<"String",WAKE_PARTIAL>>, <<"String",WAKE_PARTIAL>>, <<"Ints",WAKE_PARTIAL>>,
     <<"Strings",WAKE_PARTIAL>>, <<"Void",DONT_WAKE>>, <<"String",WAKE_PARTIAL>>,
     <<"RilSignalStrength",DONT_WAKE>>, <<"DataCallList",WAKE_PARTIAL>>, <<"Ssn",WAKE_PARTIAL>>,
     <<"Void",WAKE_PARTIAL>>, <<"String",WAKE_PARTIAL>>, <<"String",WAKE_PARTIAL>>,
     <<"Ints",WAKE_PARTIAL>>, <<"Void",WAKE_PARTIAL>>, <<"Ints",WAKE_PARTIAL>>,
     <<"CallRing",WAKE_PARTIAL>>, <<"Void",WAKE_PARTIAL>>, <<"CdmaSms",WAKE_PARTIAL>>,
     <<"String",WAKE_PARTIAL>>, <<"Void",WAKE_PARTIAL>>, <<"Ints",WAKE_PARTIAL>>,
     <<"Void",WAKE_PARTIAL>>, <<"CdmaCallWaiting",WAKE_PARTIAL>>, <<"Ints",WAKE_PARTIAL>>,
     <<"CdmaInformationRecords",WAKE_PARTIAL>>, <<"Raw",WAKE_PARTIAL>>, <<"Ints",WAKE_PARTIAL>>,
     <<"Void",WAKE_PARTIAL>>, <<"Strings",DONT_WAKE>> >>

-----------------------------------------------------------------------------
(* The client: the process at the other end of the socket (riltest for the    *)
(* arrays of strings, the telephony framework for the rest). It marshals      *)
(* "data" of the type ril.h gives and reads "response" of that type.          *)

ValuesOf(kind, i) ==
    IF kind \in {"str", "raw"} THEN {kind} \X {-1, 0, 10 + i}
    ELSE {<<kind, 10 + i>>}

(* Every sequence of values of these kinds: the place tells the ints apart.   *)
Tuples(kinds) ==
    LET f[i \in 0..Len(kinds)] ==
            IF i = 0 THEN {<<>>}
            ELSE {Append(t, v) : t \in f[i - 1], v \in ValuesOf(kinds[i], i)}
    IN f[Len(kinds)]

LayoutOf(type) ==
    CASE type = "string"                  -> <<"str">>
      [] type = "strings"                 -> <<"str">>
      [] type = "ints"                    -> <<"int">>
      [] type = "raw"                     -> <<"raw">>
      [] type = "RIL_Dial"                -> RIL_Dial
      [] type = "RIL_SIM_IO"              -> RIL_SIM_IO
      [] type = "RIL_SMS_WriteArgs"       -> RIL_SMS_WriteArgs
      [] type = "RIL_CDMA_SMS_Ack"        -> RIL_CDMA_SMS_Ack
      [] type = "RIL_SMS_Response"        -> RIL_SMS_Response
      [] type = "RIL_SIM_IO_Response"     -> RIL_SIM_IO_Response
      [] type = "RIL_SuppSvcNotification" -> RIL_SuppSvcNotification
      [] type = "RIL_SignalStrength"      -> RIL_SignalStrength
      [] type = "RIL_CDMA_CallWaiting"    -> RIL_CDMA_CallWaiting
      [] type = "RIL_CDMA_SignalInfoRecord" -> RIL_CDMA_SignalInfoRecord
      [] type = "RIL_Data_Call_Response[]"  -> RIL_Data_Call_Response
      [] type = "RIL_NeighboringCell**"     -> RIL_NeighboringCell
      [] type \in {"RIL_CallForwardInfo", "RIL_CallForwardInfo**"} ->
           RIL_CallForwardInfo
      [] type = "RIL_GSM_BroadcastSmsConfigInfo**" ->
           RIL_GSM_BroadcastSmsConfigInfo
      [] type = "RIL_CDMA_BroadcastSmsConfigInfo**" ->
           RIL_CDMA_BroadcastSmsConfigInfo

(* The types written as a number and that many structures.                    *)
Arrays == {"strings", "ints", "RIL_Data_Call_Response[]",
           "RIL_NeighboringCell**", "RIL_CallForwardInfo**",
           "RIL_GSM_BroadcastSmsConfigInfo**",
           "RIL_CDMA_BroadcastSmsConfigInfo**"}

(* A CDMA message with the lengths a, b and c before its three arrays, of     *)
(* which na, nb and nc bytes are written.                                     *)
Heading == [i \in DOMAIN RIL_CDMA_SMS_Address |-> <<RIL_CDMA_SMS_Address[i], 10 + i>>]

Bytes(n) == Repeat(n, <<"byte", 7>>)

Message(a, na, b, nb, c, nc) ==
    Heading \o <<<<"byte", a>>>> \o Bytes(na)
      \o <<<<"int", 1>>, <<"byte", 2>>>> \o <<<<"byte", b>>>> \o Bytes(nb)
      \o <<<<"int", c>>>> \o Bytes(nc)

(* A message to send has only the bytes there are, one to write to the card   *)
(* follows its status and has whole arrays.                                   *)
MessagesSent ==
    {Message(a, a, b, b, c, c) :
       a \in 0..AddressMax, b \in 0..SubaddressMax, c \in 0..BearerMax}

MessagesWritten ==
    {<<<<"int", 9>>>> \o Message(a, AddressMax, b, SubaddressMax, c, BearerMax) :
       a \in 0..AddressMax, b \in 0..SubaddressMax, c \in 0..BearerMax}

WithUus(t) == {t} \cup {t \o u : u \in Tuples(RIL_UUS_Info)}

(* The members of an information record by its name, and the record.          *)
InfoLayout(name) ==
    LET R == RIL_CDMA_InformationRecord
    IN CASE name \in {0, 7} -> R.display
         [] name \in 1..3   -> R.number
         [] name = 4        -> R.signal
         [] name = 5        -> R.redirecting
         [] name = 6        -> R.lineControl
         [] name = 8        -> R.clir
         [] name = 10       -> R.audioControl
         [] OTHER           -> <<>>

RecordOf(name, members) == <<<<"int", name>>>> \o members

InfoNames == {0, 1, 4, 5, 6, 8, 9, 10}

LongText == <<<<"str", TooLong>>>>

MembersOf(name) ==
    Tuples(InfoLayout(name)) \cup (IF name = 0 THEN {LongText} ELSE {})

RecordsOf(name) == {RecordOf(name, t) : t \in MembersOf(name)}

InfoRecords == UNION {RecordsOf(name) : name \in InfoNames}

(* A number to dial, with or without UUS information.                         *)
Dialled == UNION {WithUus(t) : t \in Tuples(RIL_Dial)}

ListsOf(kind) ==
    UNION {{Singles(t) : t \in Tuples(Repeat(n, kind))} : n \in 0..ArrayMax}

OneOf(tuples) == {<<t>> : t \in tuples}

ArraysOf(tuples) == UNION {[1..n -> tuples] : n \in 0..ArrayMax}

(* The state of a card and its applications.                                  *)
CardOf(status, apps) == <<status>> \o apps

(* Everything that may be passed for a type, as elements.                     *)
ElemsOf(type) ==
    CASE type = "void" -> {<<>>}
      [] type = "strings" -> ListsOf("str")
      [] type = "ints" -> ListsOf("int")
      [] type = "RIL_Dial" -> OneOf(Dialled)
      [] type = "RIL_CDMA_SMS_Message" -> OneOf(MessagesSent)
      [] type = "RIL_CDMA_SMS_WriteArgs" -> OneOf(MessagesWritten)
      [] type = "RIL_Call**" ->
           ArraysOf(UNION {WithUus(t) : t \in Tuples(RIL_Call)})
      [] type = "RIL_CardStatus" ->
           {CardOf(t, a) : t \in Tuples(RIL_CardStatus),
                           a \in ArraysOf(Tuples(RIL_AppStatus))}
      [] type = "RIL_SignalStrength" ->
           OneOf(Tuples(RIL_SignalStrength) \cup Tuples(<<"int", "int">>))
      [] type = "RIL_CDMA_InformationRecords" ->
           UNION {{<<a>>, <<a, b>>, <<a, b, a>>} : a, b \in InfoRecords}
      [] type \in Arrays \ {"strings", "ints"} ->
           ArraysOf(Tuples(LayoutOf(type)))
      [] OTHER -> OneOf(Tuples(LayoutOf(type)))

Data(type) ==
    CASE type = "void"    -> {NoDatum}
      [] type = "strings" -> {NoDatum} \cup {Datum(FALSE, e) : e \in ElemsOf(type)}
      [] OTHER            -> {Datum(FALSE, e) : e \in ElemsOf(type)}

(* How a client writes them. RIL_Dial ends with a flag for the UUS            *)
(* information, whatever the version of the vendor RIL.                       *)
WriteData(type, d) ==
    CASE type = "void" -> <<>>
      [] type \in Arrays -> IF d.null THEN <<-1>>
                            ELSE <<Len(d.elems)>> \o AllWords(d.elems)
      [] type = "RIL_Dial" ->
           Words(SubSeq(d.elems[1], 1, 2))
             \o (IF Len(d.elems[1]) = 2 THEN <<0>>
                 ELSE <<1>> \o Words(SubSeq(d.elems[1], 3, 5)))
      [] OTHER -> Words(d.elems[1])

(* What a vendor RIL may complete with: the right structure, a NULL pointer   *)
(* with the length zero or another one, or a length that does not fit.        *)
Fitting(elems) == {Response(FALSE, FALSE, e) : e \in elems}

AnyLength(elems) == {Response(FALSE, b, e) : b \in BOOLEAN, e \in elems}

NullPointer == {Response(TRUE, b, <<>>) : b \in BOOLEAN}

Responses(type) ==
    CASE type = "void" -> {Response(TRUE, FALSE, <<>>)}
      [] type \in {"string", "raw", "RIL_GSM_BroadcastSmsConfigInfo**",
                   "RIL_CDMA_BroadcastSmsConfigInfo**"} ->
           Fitting(ElemsOf(type)) \cup NullPointer
      [] OTHER -> AnyLength(ElemsOf(type)) \cup NullPointer

ReadCall(r) ==
    LET c == Run(r, RIL_Call \o <<"int">>)
    IN IF Last(c) = 0 THEN Drop(c) ELSE Run(Drop(c), RIL_UUS_Info)

ReadInfoRecord(r) == LET n == Step(r, "int") IN Run(n, InfoLayout(Last(n)))

(* One structure of a list; of a neighboring cell rssi comes first.           *)
ReadOne(type, r) ==
    CASE type = "RIL_Call**"           -> ReadCall(r)
      [] type = "RIL_CDMA_InformationRecords" -> ReadInfoRecord(r)
      [] type = "RIL_NeighboringCell**" -> Run(r, <<"int", "str">>)
      [] type = "RIL_CardStatus"       -> Run(r, RIL_AppStatus)
      [] OTHER                         -> Run(r, LayoutOf(type))

(* How a client reads n structures, one after the other.                      *)
ReadList(type, r, n) ==
    LET f[i \in 0..n] ==
            IF i = 0 THEN [r |-> r, es |-> <<>>]
            ELSE LET e == ReadOne(type, [f[i - 1].r EXCEPT !.args = <<>>])
                 IN [r |-> e, es |-> Append(f[i - 1].es, e.args)]
    IN f[n].es

ReadBack(type, w) ==
    LET list == ReadList(type, Start(Tail(w)), w[1])
        card == Run(Start(w), RIL_CardStatus)
        apps == Step(card, "int")
    IN CASE type = "void" -> <<>>
         [] type = "RIL_NeighboringCell**" -> Swapped(list)
         [] type \in {"RIL_Call**", "RIL_CDMA_InformationRecords"}
                     \cup (Arrays \ {"RIL_NeighboringCell**"}) -> list
         [] type = "RIL_CardStatus" ->
              <<card.args>> \o ReadList(type, apps, Last(apps))
         [] type = "RIL_CDMA_SMS_Message" -> dispatchCdmaSms(w).data.elems
         [] OTHER -> <<Run(Start(w), LayoutOf(type)).args>>

-----------------------------------------------------------------------------
(* What becomes of a block.                                                   *)
Nothing == [valid |-> FALSE, data |-> NoDatum, leak |-> 0]

Token == 5

Idle == /\ phase' = "idle"
        /\ req' = 0
        /\ sent' = Nothing
        /\ block' = <<>>
        /\ given' = Nothing
        /\ answer' = <<>>
        /\ UNCHANGED version

Init == /\ version \in {2, 3}
        /\ phase = "idle"
        /\ req = 0
        /\ sent = Nothing
        /\ block = <<>>
        /\ given = Nothing
        /\ answer = <<>>

DataType(q) == IF q \in DOMAIN RIL_REQUEST THEN RIL_REQUEST[q][1] ELSE V

ResponseType == IF phase = "pending" THEN RIL_REQUEST[req][2] ELSE V

BlockOf(q, d) == <<q, Token>> \o WriteData(DataType(q), d)

(* The client writes a block for request q; the frame it puts it in may hold  *)
(* fewer words than it wrote. The numbers 0 and 109 stand for unknown ones.   *)
SendBlock(q, d, n) ==
    LET type == DataType(q)
        words == BlockOf(q, d)
    IN /\ phase = "idle"
       /\ phase' = "sent"
       /\ req' = q
       /\ sent' = [type |-> type, datum |-> d, whole |-> n = Len(words)]
       /\ block' = SubSeq(words, 1, n)
       /\ UNCHANGED <<version, given, answer>>

(* Only the status of the second read is looked at.                           *)
headerRead(w) == Len(w) >= 2

supported(q) == q >= 1 /\ q <= Len(s_commands)

(* The request is put on s_pendingRequests before its function sees the       *)
(* block: a rejected one stays there and is never answered.                   *)
processCommandBuffer ==
    /\ phase = "sent"
    /\ IF headerRead(block) /\ supported(block[1])
       THEN LET o == dispatchFunction(s_commands[block[1]][1],
                                      SubSeq(block, 3, Len(block)))
            IN /\ phase' = IF o.valid THEN "pending" ELSE "rejected"
               /\ given' = o
       ELSE /\ phase' = "ignored"
            /\ UNCHANGED given
    /\ block' = <<>>
    /\ UNCHANGED <<version, req, sent, answer>>

(* The response function sees the response whatever the error is; when it     *)
(* fails the error word is overwritten and what follows it stays.             *)
RIL_onRequestComplete(e, r) ==
    LET f == responseFunction(s_commands[req][2], r)
        head == <<0, req, Token>>
    IN /\ phase = "pending"
       /\ phase' = "answered"
       /\ sent' = [type |-> RIL_REQUEST[req][2], resp |-> r, err |-> e]
       /\ answer' = CASE r.null              -> head \o <<e, 0, 0>>
                      [] ~r.null /\ f.ret = 0 -> head \o <<e>> \o f.w
                      [] OTHER                -> head \o <<f.ret>> \o f.w
       /\ given' = Nothing
       /\ UNCHANGED <<version, req, block>>

(* The radio state follows a change of it, the time of its arrival (two       *)
(* words) follows a NITZ time.                                                *)
morePayload(u) ==
    CASE u = 1000 -> <<10>>
      [] u = 1008 -> <<20, 21>>
      [] OTHER    -> <<>>

RIL_onUnsolicitedResponse(u, r) ==
    LET f == responseFunction(s_unsolResponses[u - 999][1], r)
    IN /\ phase = "idle"
       /\ u - 999 \in DOMAIN s_unsolResponses
       /\ req' = u
       /\ sent' = [type |-> RIL_UNSOL[u - 999], resp |-> r, err |-> 0]
       /\ IF f.ret = 0
          THEN /\ phase' = "unsol"
               /\ answer' = <<1, u>> \o f.w \o morePayload(u)
          ELSE /\ phase' = "withheld"
               /\ UNCHANGED answer
       /\ UNCHANGED <<version, block, given>>

Finish == /\ phase \in {"rejected", "ignored", "answered", "unsol", "withheld"}
          /\ Idle

Next == \/ \E q \in 0..109 : \E d \in Data(DataType(q)) :
              \E n \in 0..Len(BlockOf(q, d)) : SendBlock(q, d, n)
        \/ processCommandBuffer
        \/ \E e \in {0, 2}, r \in Responses(ResponseType) :
              RIL_onRequestComplete(e, r)
        \/ \E u \in 1000..1031 : \E r \in Responses(RIL_UNSOL[u - 999]) :
              RIL_onUnsolicitedResponse(u, r)
        \/ Finish

Spec == Init /\ [][Next]_vars

-----------------------------------------------------------------------------
(* Properties.                                                                *)

(* What the structures of ril.h allow and the dispatch functions insist on: a *)
(* number to dial, a PDU to write, and at least one int in an int array.      *)
Legal(type, d) ==
    CASE type = "RIL_Dial"          -> d.elems[1][1][2] # -1
      [] type = "RIL_SMS_WriteArgs" -> d.elems[1][2][2] # -1
      [] type = "ints"              -> d.elems # <<>>
      [] OTHER                      -> TRUE

(* What onRequest is to see of it: the empty number of a call forward is a    *)
(* NULL, a NULL buffer is an empty one, and a vendor RIL below version 3      *)
(* knows no UUS information.                                                  *)
Received(type, d) ==
    CASE type = "RIL_CallForwardInfo" ->
           [d EXCEPT !.elems[1][5][2] = IF @ = 0 THEN -1 ELSE @]
      [] type = "raw" -> [d EXCEPT !.elems[1][1][2] = IF @ = -1 THEN 0 ELSE @]
      [] type = "RIL_Dial" /\ version < 3 ->
           [d EXCEPT !.elems[1] = SubSeq(@, 1, 2)]
      [] OTHER -> d

(* The words a client wrote for the type ril.h gives the request are read by  *)
(* the dispatch function of its row into the same members, for every request. *)
DeliveredAsSent ==
    phase = "pending" /\ sent.whole =>
        given.data = Received(sent.type, sent.datum)

(* The dispatch functions look at the status of few of their reads. Still,    *)
(* wherever a block ends, onRequest receives no number or byte the function   *)
(* did not read (uninitialised memory). This is all that is said of a block   *)
(* that ends too early. A text that is cut is received as NULL and its words  *)
(* are read as the members that follow it (dispatchSIM_IO, dispatchStrings,   *)
(* dispatchString, dispatchSmsWrite); a buffer that is cut is received as a   *)
(* NULL pointer with the length announced, "cut" (dispatchRaw and the UUS     *)
(* information of dispatchDial). That a block that is whole makes neither is  *)
(* DeliveredAsSent.                                                           *)
NothingUnset ==
    phase = "pending" =>
        \A i \in DOMAIN given.data.elems :
            \A j \in DOMAIN given.data.elems[i] :
                given.data.elems[i][j][1] # "unset"

(* A block that is rejected stays pending for ever and its client waits for   *)
(* ever (invalidCommandBlock only prints): it was cut short, or it held what  *)
(* the structure does not allow.                                              *)
OnlyBrokenBlocksRejected ==
    phase \in {"rejected", "ignored"} =>
        \/ ~sent.whole
        \/ req \notin DOMAIN RIL_REQUEST
        \/ ~Legal(sent.type, sent.datum)

(* Strings are freed after onRequest, except the SMSC of an SMS to write, an  *)
(* empty call forward number and those of a rejected block.                   *)
OnlyKnownLeaks ==
    phase = "pending" /\ given.leak > 0 =>
        \/ s_commands[req][1] = "SmsWrite"
        \/ /\ s_commands[req][1] = "CallForward"
           /\ given.data.elems[1][5][2] = -1

(* A record libril knows, with a text that fits.                              *)
Marshalled(e) == e[1][2] # 9 /\ \A i \in DOMAIN e : e[i] # <<"str", TooLong>>

WellFormed(type, r) ==
    /\ ~r.bad
    /\ type = "RIL_CDMA_InformationRecords" =>
         \A i \in DOMAIN r.elems : i <= InfoRecMax => Marshalled(r.elems[i])

(* What the client is to read: UUS information without data, or of a vendor   *)
(* RIL below version 3, is left out, the ints an old signal strength lacks    *)
(* are zero, and there are at most InfoRecMax information records.            *)
Reported(type, r) ==
    CASE type = "RIL_Call**" ->
           [i \in DOMAIN r.elems |->
              IF version < 3 \/ r.elems[i][Len(r.elems[i])] = <<"raw", -1>>
              THEN SubSeq(r.elems[i], 1, 12) ELSE r.elems[i]]
      [] type = "RIL_SignalStrength" ->
           <<SubSeq(r.elems[1] \o Repeat(7, <<"int", 0>>), 1, 7)>>
      [] type = "RIL_CDMA_InformationRecords" ->
           SubSeq(r.elems, 1, Smaller(Len(r.elems), InfoRecMax))
      [] OTHER -> r.elems

(* The client that reads the answer by the type ril.h gives the request finds *)
(* the token, the error and the members the vendor RIL completed it with; of  *)
(* a response the response function refuses it finds a failure. An            *)
(* unsolicited response that is refused is not sent, and no other is kept     *)
(* back. Of a NULL response only the token and the error arrive: two zero     *)
(* words stand for the data, whatever its type is (ril.cpp:2742-2745). Not so *)
(* a page of a broadcast message: its data are the 88 bytes of a page as 3GPP *)
(* 23.041 codes it (ril.h:3297-3299), and its row of the table has            *)
(* responseString, which cuts them at the first NUL.                          *)
AnsweredAsCompleted ==
    /\ phase = "answered" =>
         /\ SubSeq(answer, 1, 3) = <<0, req, Token>>
         /\ IF sent.resp.null \/ WellFormed(sent.type, sent.resp)
            THEN /\ answer[4] = sent.err
                 /\ ~sent.resp.null =>
                      ReadBack(sent.type, SubSeq(answer, 5, Len(answer)))
                        = Reported(sent.type, sent.resp)
            ELSE answer[4] = -1
    /\ phase = "unsol" /\ ~sent.resp.null
         /\ req # RIL_UNSOL_RESPONSE_NEW_BROADCAST_SMS =>
         ReadBack(sent.type, SubSeq(answer, 3, Len(answer)))
           = Reported(sent.type, sent.resp)
    /\ phase = "withheld" =>
         sent.resp.null \/ ~WellFormed(sent.type, sent.resp)
=============================================================================
