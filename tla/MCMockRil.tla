----------------------------- MODULE MCMockRil -----------------------------
(* The instances of MockRil.                                                *)
EXTENDS MockRil

Times(n, choices) == [k \in 1 .. n |-> choices]

\* Every request there is, and one the mock does not know.
EveryRequest ==
  [ril |-> Times(2, IccRequests \cup RadioRequests \cup {"UNKNOWN"}), ctrl |-> <<>>,
   clients |-> 0, minute |-> TRUE, patient |-> FALSE]

\* Every control command, twice.
EveryCommand ==
  [ril |-> <<{"SET_MUTE"}>>, clients |-> 1, minute |-> FALSE, patient |-> FALSE,
   ctrl |-> Times(2, ctrlServerDispatchTable \cup
                     {"CTRL_CMD_ECHO", "CTRL_CMD_GET_RADIO_STATE", "CTRL_CMD_SET_RADIO_STATE",
                      "UNKNOWN_ABOVE_BASE", "UNKNOWN_BELOW_BASE"})]

\* Calls in both directions; the control clients come in turn.
Calls ==
  [ril |-> <<{"DIAL", "HANGUP", "ANSWER"}>>, ctrl |-> Times(2, {"CTRL_CMD_SET_MT_CALL"}),
   clients |-> 2, minute |-> FALSE, patient |-> FALSE]

\* What the framework does with the calls it has.
CallControl ==
  [ril |-> Times(3, {"DIAL", "HANGUP_WAITING_OR_BACKGROUND",
                     "HANGUP_FOREGROUND_RESUME_BACKGROUND",
                     "SWITCH_WAITING_OR_HOLDING_AND_ACTIVE", "CONFERENCE", "SEPARATE_CONNECTION"}),
   ctrl |-> <<>>, clients |-> 0, minute |-> FALSE, patient |-> TRUE]

\* One call is held, one is active and one comes in; the framework hangs up.
\* It makes a request when it has the answer to the one before.
HeldActiveComing ==
  [ril |-> <<{"DIAL"}, {"SWITCH_WAITING_OR_HOLDING_AND_ACTIVE"}, {"DIAL"},
             {"HANGUP_WAITING_OR_BACKGROUND"}>>,
   ctrl |-> <<{"CTRL_CMD_SET_MT_CALL"}>>, clients |-> 1, minute |-> FALSE, patient |-> TRUE]

MCScenarios == {EveryRequest, EveryCommand, Calls, CallControl, HeldActiveComing}
=============================================================================
