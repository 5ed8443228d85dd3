--------------------------- MODULE WorkQueueSpec ---------------------------
(***************************************************************************)
(* What a WorkerQueue of mock-ril promises to those who add work to it     *)
(* (worker.h): a pointer added is handed to the worker once; pointers      *)
(* added without delay are handed over in the order of their Add; one      *)
(* added with a delay not before the delay is over.  The i-th pointer      *)
(* added is item i.                                                        *)
(***************************************************************************)
EXTENDS Integers, Sequences

VARIABLES
  clock,     \* elapsedRealtime
  due,       \* the items added so far, in order: 0 or the time each is due
  waiting,   \* the items that have not been handed to the worker
  taken      \* the items handed to the worker, in order

Init == clock = 0 /\ due = <<>> /\ waiting = {} /\ taken = <<>>

Tick ==
  /\ clock' = clock + 1
  /\ UNCHANGED <<due, waiting, taken>>

Add ==
  /\ Len(due') = Len(due) + 1 /\ SubSeq(due', 1, Len(due)) = due
  /\ due'[Len(due')] = 0 \/ due'[Len(due')] > clock
  /\ waiting' = waiting \cup {Len(due')}
  /\ UNCHANGED <<clock, taken>>

Deliver(i) ==
  /\ i \in waiting
  /\ due[i] <= clock
  /\ due[i] = 0 => \A j \in waiting : due[j] = 0 => i <= j
  /\ waiting' = waiting \ {i}
  /\ taken' = Append(taken, i)
  /\ UNCHANGED <<clock, due>>

Next == Tick \/ Add \/ \E i \in waiting : Deliver(i)

Spec == Init /\ [][Next]_<<clock, due, waiting, taken>>
=============================================================================
