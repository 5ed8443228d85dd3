---------------------------- MODULE MCRilMarshal ----------------------------
(* The marshalling with short CDMA arrays, on a build with 32-bit pointers.   *)
EXTENDS RilMarshal
=============================================================================
