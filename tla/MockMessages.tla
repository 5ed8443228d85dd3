---------------------------- MODULE MockMessages ----------------------------
(* The data of mock-ril on its way through three forms: the structures of     *)
(* ril.h (cpp/requests.cpp, cpp/responses.cpp), the messages of ril.proto,    *)
(* and the objects of the JavaScript (js/*.js, converted by protobuf_v8.cpp). *)
(* Of a value only the names of the fields that carry it are kept; the        *)
(* property of a JavaScript object is named here as the field of ril.proto    *)
(* whose camelcase_name it has.                                               *)
EXTENDS Naturals, FiniteSets

(* ------------------------------- ril.proto -------------------------------- *)

RilAppStatus ==
    {"app_type", "app_state", "perso_substate", "aid", "app_label",
     "pin1_replaced", "pin1", "pin2"}

RilCardStatus ==
    {"card_state", "universal_pin_state", "gsm_umts_subscription_app_index",
     "cdma_subscription_app_index", "num_applications", "applications"}

RilCall ==
    {"state", "index", "toa", "is_mpty", "is_mt", "als", "is_voice",
     "is_voice_privacy", "number", "number_presentation", "name",
     "name_presentation", "uus_info"}

RILSignalStrength ==
    {"gw_signal_strength", "gw_bit_error_rate", "cdma_dbm", "cdma_ecio",
     "evdo_dbm", "evdo_ecio", "evdo_signal_noise_ratio"}

(* The messages; one inside another is flattened into it.  The strings and    *)
(* integers of RspStrings and RspIntegers are its fields, by position.        *)
Fields ==
    [RspGetSimStatus |-> RilCardStatus \cup RilAppStatus,
     RspEnterSimPin |-> {"retries_remaining"},
     RspGetCurrentCalls |-> RilCall,
     RspSignalStrength |-> RILSignalStrength,
     RspOperator |-> {"long_alpha_ons", "short_alpha_ons", "mcc_mnc"},
     RspStrings |-> 0 .. 14,
     RspIntegers |-> 0 .. 0,
     ReqDial |-> {"address", "clir", "uus_info"},
     ReqEnterSimPin |-> {"pin"},
     ReqHangUp |-> {"connection_index"},
     ReqSeparateConnection |-> {"index"},
     ReqSetMute |-> {"state"},
     ReqScreenState |-> {"state"}]

(* -------------------------- protobuf_v8: Schema --------------------------- *)

(* Serialize: Type::ToProto asks the object for the fields of the message;    *)
(* any other property is left behind, and what is undefined is not set.       *)
serialize(message, properties) ==
    [message |-> message, fields |-> properties \cap Fields[message]]

(* Type::ToJs makes a property of every field that the message has.           *)
parse(protobuf) == protobuf.fields

emptyProtobuf == [message |-> "", fields |-> {}]

(* --------------- the objects the JavaScript answers with ------------------ *)

(* simulated_icc.js: the constructor of RilAppStatus stores its last          *)
(* argument as "pint2".                                                       *)
IccAppStatus == (RilAppStatus \ {"pin2"}) \cup {"pint2"}

(* simulated_radio.js, RilCall: no namePresentation and no uusInfo.           *)
RadioCall == RilCall \ {"name_presentation", "uus_info"}

(* -------------------- responses.cpp: message to structure ----------------- *)

(* The completion of a structure with these members, of which the ones        *)
(* copied are assigned from the fields of the message of that type: given by  *)
(* the message, or the default of protobuf, or never assigned.                *)
Structure(protobuf, message, members, copied) ==
    LET has == IF protobuf.message = message THEN protobuf.fields ELSE {}
    IN [given |-> copied \cap has, default |-> copied \ has, unset |-> members \ copied]

(* (NULL, 0)                                                                  *)
RspWithNoData(protobuf) == [given |-> {}, default |-> {}, unset |-> {}]

(* An array with a pointer to each string there is, NULL for "*magic-null*".  *)
RspStrings(protobuf) ==
    Structure(protobuf, "RspStrings", protobuf.fields, protobuf.fields)

(* strings(0), there or not.                                                  *)
RspString(protobuf) == Structure(protobuf, "RspStrings", {0}, {0})

RspIntegers(protobuf) ==
    Structure(protobuf, "RspIntegers", protobuf.fields, protobuf.fields)

(* cdma_subscription_app_index is not assigned.                               *)
RspGetSimStatus(protobuf) ==
    Structure(protobuf, "RspGetSimStatus", RilCardStatus \cup RilAppStatus,
              (RilCardStatus \ {"cdma_subscription_app_index"}) \cup RilAppStatus)

RspEnterSimPinData(protobuf) ==
    Structure(protobuf, "RspEnterSimPin", {"retries_remaining"}, {"retries_remaining"})

(* uusInfo is NULL when the message has none.                                 *)
RspGetCurrentCalls(protobuf) == Structure(protobuf, "RspGetCurrentCalls", RilCall, RilCall)

RspSignalStrength(protobuf) ==
    Structure(protobuf, "RspSignalStrength", RILSignalStrength, RILSignalStrength)

(* The same copy, for RIL_UNSOL_SIGNAL_STRENGTH.                              *)
UnsolRspSignalStrength(protobuf) == RspSignalStrength(protobuf)

RspOperator(protobuf) ==
    Structure(protobuf, "RspOperator", Fields.RspOperator, Fields.RspOperator)

(* -------------------- requests.cpp: structure to message ------------------ *)

(* The message for data that is long enough for what is read of it.           *)
Converted(long, protobuf) ==
    IF long THEN [status |-> "OK", buffer |-> protobuf]
            ELSE [status |-> "BAD_DATA", buffer |-> emptyProtobuf]

(* No data is looked at.                                                      *)
ReqWithNoData(long) == Converted(TRUE, emptyProtobuf)

ReqEnterSimPin(long) == Converted(long, serialize("ReqEnterSimPin", {"pin"}))

(* req->uus_info() is the shared default instance while the message has none  *)
(* of its own: what is written there is not part of the message.              *)
ReqDial(long) == Converted(long, serialize("ReqDial", {"address", "clir"}))

ReqHangUp(long) == Converted(long, serialize("ReqHangUp", {"connection_index"}))

ReqSeparateConnection(long) == Converted(long, serialize("ReqSeparateConnection", {"index"}))

ReqSetMute(long) == Converted(long, serialize("ReqSetMute", {"state"}))

ReqScreenState(long) == Converted(long, serialize("ReqScreenState", {"state"}))
=============================================================================
