--------------------------- MODULE MCReferenceRil ---------------------------
(* Three scenarios: every request and every answer to it while the channel    *)
(* may close; a radio that is switched on and off while the channel closes    *)
(* and is opened again; calls that come, go and change while the client asks  *)
(* for them, dials, answers and hangs up.                                     *)
EXTENDS ReferenceRil

EveryRequest == [requests |-> DOMAIN Requests \cup {"onDataCallListChanged"},
                 opens |-> 1, closes |-> TRUE, events |-> 0]

Reopening == [requests |-> {"RADIO_POWER"}, opens |-> 2, closes |-> TRUE,
              events |-> 0]

\* The client's list converges on a channel that stays open: no close here.
Calls == [requests |-> {"GET_CURRENT_CALLS", "DIAL", "HANGUP", "ANSWER"},
          opens |-> 1, closes |-> FALSE, events |-> 6]

MCScenarios == {EveryRequest, Reopening, Calls}
=============================================================================
