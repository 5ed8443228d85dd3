--------------------------- MODULE MCRilRequests ---------------------------
(***************************************************************************)
(* Small instances of RilRequests: two clients in succession whose         *)
(* connections may or may not get the same descriptor, and enough          *)
(* RequestInfo blocks for every request, so that calloc never fails and    *)
(* addresses are used again.                                               *)
(***************************************************************************)
EXTENDS RilRequests, TLC

ASSUME HeapSuffices == Cardinality(Infos) >= MaxRequests

InfoWorkerSymmetry == Permutations(Infos) \cup Permutations(Workers)

MCFds == {4, 5}
MCOneFd == {4}
MCBlocks == {"valid", "badcode", "badargs"}
MCValid == {"valid"}
MCVendor == {"once", "twice", "worker", "never"}
MCWorker == {"worker"}
MCCompletes == {"once", "twice", "worker"}
MCSizes == {"fits", "large"}
MCFits == {"fits"}
MCEnds == {"shut", "closed"}
MCClosed == {"closed"}
MCShut == {"shut"}
=============================================================================
