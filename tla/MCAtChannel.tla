---------------------------- MODULE MCAtChannel ----------------------------
(***************************************************************************)
(* Small instances of AtChannel.                                           *)
(***************************************************************************)
EXTENDS AtChannel

MCTypes == ATTypes

\* One kind of each shape: no line, one line, a prompt first.
MCLiveTypes == {"NO_RESULT", "SINGLELINE", "SMS"}
MCUnsols == {"other"}

\* The first and the last microsecond that give a valid deadline.
MCUsecs == {0, 749999}

\* And the first that does not.
MCAnyUsecs == {749999, 750000}
=============================================================================
