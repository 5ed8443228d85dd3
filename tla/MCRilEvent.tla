---------------------------- MODULE MCRilEvent ----------------------------
(***************************************************************************)
(* Small instances of RilEvent: descriptors 3 (pipe), 5 (listen) and, for  *)
(* the command socket, one below or one above the listening socket.  A     *)
(* thread that closes a number it read earlier always hits the next        *)
(* connection, the worse case.                                             *)
(***************************************************************************)
EXTENDS RilEvent

TimerSymmetry == Permutations(Timers)

MCDelays == {0, 1}
MCOneDelay == {1}
MCLowFd == {4}
MCHighFd == {6}
MCNoFaults == {}
MCFaults == {"pipe", "accept", "read", "write", "eintr"}
=============================================================================
