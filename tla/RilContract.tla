----------------------------- MODULE RilContract -----------------------------
(* The interface between libril and a vendor RIL as include/telephony/ril.h   *)
(* and ril_cdma_sms.h declare it: for every request the type of "data" and of *)
(* "response", for every unsolicited response the type of "data", and for     *)
(* every structure the kinds of its members in the order of the declaration.  *)
(* Enumerations and the meaning of the values are left out: no code in        *)
(* libril looks at them.                                                      *)
EXTENDS Naturals, Sequences

(* The kinds of a member: "int" (int, char and enum members, all written as   *)
(* an int32), "byte" (unsigned char written alone), "str" (char * of a        *)
(* string) and "raw" (a length and that many bytes).                          *)
RIL_UUS_Info == <<"int", "int", "raw">>

RIL_CDMA_SignalInfoRecord == <<"int", "int", "int", "int">>

(* Without uusInfo, which is optional and follows.                            *)
RIL_Call == <<"int", "int", "int", "int", "int", "int", "int", "int",
              "str", "int", "str", "int">>

RIL_Data_Call_Response == <<"int", "int", "str", "str", "str">>

RIL_SMS_Response == <<"int", "str", "int">>

RIL_SMS_WriteArgs == <<"int", "str", "str">>

(* Without uusInfo, which is optional and follows.                            *)
RIL_Dial == <<"str", "int">>

RIL_SIM_IO == <<"int", "int", "str", "int", "int", "int", "str", "str">>

RIL_SIM_IO_Response == <<"int", "int", "str">>

RIL_CallForwardInfo == <<"int", "int", "int", "int", "str", "int">>

RIL_NeighboringCell == <<"str", "int">>

RIL_SuppSvcNotification == <<"int", "int", "int", "int", "str">>

RIL_AppStatus == <<"int", "int", "int", "str", "str", "int", "int", "int">>

(* The members before num_applications and the array.                         *)
RIL_CardStatus == <<"int", "int", "int", "int">>

RIL_CDMA_CallWaiting == <<"str", "int", "str">> \o RIL_CDMA_SignalInfoRecord

RIL_GSM_BroadcastSmsConfigInfo == <<"int", "int", "int", "int", "int">>

(* Three structures of two, two and three ints.                               *)
RIL_SignalStrength == <<"int", "int", "int", "int", "int", "int", "int">>

(* The union of an information record by its name: display records, number    *)
(* records, signal, redirecting number, line control, CLIR, audio control;    *)
(* the release record carries nothing that libril marshals.                   *)
RIL_CDMA_InformationRecord ==
    [display |-> <<"str">>, number |-> <<"str", "int", "int", "int", "int">>,
     signal |-> RIL_CDMA_SignalInfoRecord,
     redirecting |-> <<"str", "int", "int", "int", "int", "int">>,
     lineControl |-> <<"int", "int", "int", "int">>, clir |-> <<"int">>,
     audioControl |-> <<"int", "int">>]

(* The members before the digits of the address, and those between its digits *)
(* and the ones of the subaddress; the length of the bearer data follows.     *)
RIL_CDMA_SMS_Address ==
    <<"int", "byte", "int", "int", "int", "int", "int">>

RIL_CDMA_SMS_Subaddress == <<"int", "byte">>

RIL_CDMA_SMS_Ack == <<"int", "int">>

RIL_CDMA_BroadcastSmsConfigInfo == <<"int", "int", "int">>

-----------------------------------------------------------------------------
(* "data" and "response" of the requests, in the order of their numbers: V is *)
(* NULL, I an int *, S a char *, SS a char **; a structure has its own name.  *)
V == "void"

I == "ints"

S == "string"

SS == "strings"

SimPinRequests ==
    << <<V,"RIL_CardStatus">>, <<SS,I>>, <<SS,I>>, <<SS,I>>, <<SS,I>>, <<SS,I>> >>

CallListRequests ==
    << <<SS,I>>, <<SS,I>>, <<V,"RIL_Call**">>, <<"RIL_Dial",V>>, <<V,S>>,
       <<I,V>>, <<V,V>> >>

SupplementaryCallRequests ==
    << <<V,V>>, <<V,V>>, <<V,V>>, <<V,V>>, <<V,I>>, <<V,"RIL_SignalStrength">> >>

RegistrationRequests ==
    << <<V,SS>>, <<V,SS>> >>

OperatorAndSmsRequests ==
    << <<V,SS>>, <<I,V>>, <<S,V>>, <<SS,"RIL_SMS_Response">>,
       <<SS,"RIL_SMS_Response">> >>

DataCallAndUssdRequests ==
    << <<SS,SS>>, <<"RIL_SIM_IO","RIL_SIM_IO_Response">>, <<S,V>>, <<V,V>>,
       <<V,I>>, <<I,V>> >>

ForwardingRequests ==
    << <<"RIL_CallForwardInfo","RIL_CallForwardInfo**">>,
       <<"RIL_CallForwardInfo",V>>, <<I,I>>, <<I,V>>, <<I,V>>, <<V,S>>, <<V,S>> >>

FacilityRequests ==
    << <<V,V>>, <<SS,V>>, <<SS,I>>, <<SS,I>>, <<SS,V>>, <<V,I>> >>

NetworkSelectionRequests ==
    << <<V,V>>, <<S,V>>, <<V,SS>>, <<S,V>>, <<V,V>>, <<V,S>> >>

ConnectionRequests ==
    << <<I,V>>, <<I,V>>, <<V,I>>, <<V,I>>, <<V,I>>,
       <<V,"RIL_Data_Call_Response[]">> >>

OemAndScreenRequests ==
    << <<V,V>>, <<"raw","raw">>, <<SS,SS>>, <<I,V>>, <<I,V>>,
       <<"RIL_SMS_WriteArgs",I>> >>

StkProfileRequests ==
    << <<I,V>>, <<I,V>>, <<V,I>>, <<V,S>>, <<S,V>>, <<S,S>> >>

StkAndNetworkTypeRequests ==
    << <<S,V>>, <<I,V>>, <<V,V>>, <<I,V>>, <<V,I>>,
       <<V,"RIL_NeighboringCell**">>, <<I,V>> >>

CdmaPreferenceRequests ==
    << <<I,V>>, <<I,V>>, <<V,I>>, <<I,V>>, <<V,I>>, <<I,V>>, <<V,I>> >>

CdmaSmsRequests ==
    << <<S,V>>, <<SS,V>>, <<S,V>>,
       <<"RIL_CDMA_SMS_Message","RIL_SMS_Response">>, <<"RIL_CDMA_SMS_Ack",V>>,
       <<V,"RIL_GSM_BroadcastSmsConfigInfo**">>,
       <<"RIL_GSM_BroadcastSmsConfigInfo**",V>> >>

BroadcastSmsRequests ==
    << <<I,V>>, <<V,"RIL_CDMA_BroadcastSmsConfigInfo**">>,
       <<"RIL_CDMA_BroadcastSmsConfigInfo**",V>>, <<I,V>>, <<V,SS>>,
       <<"RIL_CDMA_SMS_WriteArgs",I>>, <<I,V>> >>

(* The last five are this vendor's; their types are those of the clients in   *)
(* riltest.                                                                   *)
IdentityAndVendorRequests ==
    << <<V,SS>>, <<V,V>>, <<V,S>>, <<S,V>>, <<I,V>>, <<V,V>>, <<SS,SS>>,
       <<SS,SS>>, <<SS,V>>, <<SS,SS>>, <<SS,SS>> >>

(* The number of a request is its place in this sequence.                     *)
RIL_REQUEST ==
    SimPinRequests \o CallListRequests \o SupplementaryCallRequests
      \o RegistrationRequests \o OperatorAndSmsRequests
      \o DataCallAndUssdRequests \o ForwardingRequests \o FacilityRequests
      \o NetworkSelectionRequests \o ConnectionRequests
      \o OemAndScreenRequests \o StkProfileRequests
      \o StkAndNetworkTypeRequests \o CdmaPreferenceRequests
      \o CdmaSmsRequests \o BroadcastSmsRequests
      \o IdentityAndVendorRequests

(* "data" of the unsolicited responses, from number 1000 on.                  *)
StateChangedUnsol ==
    << V, V, V, S, S, I, SS, V, S >>

StkAndSimUnsol ==
    << "RIL_SignalStrength", "RIL_Data_Call_Response[]",
       "RIL_SuppSvcNotification", V, S, S, I, V, I,
       "RIL_CDMA_SignalInfoRecord", V >>

CdmaUnsol ==
    << "RIL_CDMA_SMS_Message", "raw", V, I, V, "RIL_CDMA_CallWaiting", I,
       "RIL_CDMA_InformationRecords", "raw", I, V, SS >>

(* The number of an unsolicited response is 999 plus its place; the data of   *)
(* NEW_BROADCAST_SMS is a page of 88 bytes.                                   *)
RIL_UNSOL_RESPONSE_NEW_BROADCAST_SMS == 1021

RIL_UNSOL == StateChangedUnsol \o StkAndSimUnsol \o CdmaUnsol
=============================================================================
