---------------------------- MODULE WorkerQueue ----------------------------
(***************************************************************************)
(* WorkerThread and WorkerQueue of mock-ril (mock-ril/src/cpp/worker.cpp): *)
(* producers add pointers, at once or with a delay; the worker thread      *)
(* takes them and calls Process; another thread stops the worker.          *)
(*                                                                         *)
(* mutex_ covers the queues.  state_ is an atomic variable that the mutex  *)
(* does not cover, and the stopping thread signals cond_ without it.       *)
(* Records are recycled through free_list_.                                *)
(***************************************************************************)
EXTENDS Integers, Sequences, FiniteSets, SequencesExt

CONSTANTS
  MaxItems,     \* bound: calls of Add and AddDelayed
  Delays,       \* delays callers ask for, 0 for Add
  MaxTime,      \* bound: nothing is delayed after this time
  Stops         \* whether somebody calls Stop

ASSUME WorkerAssumption ==
  /\ MaxItems \in Nat /\ MaxTime \in Nat /\ Stops \in BOOLEAN
  /\ Delays \subseteq 0 .. MaxTime

Items == 1 .. MaxItems
Records == 1 .. MaxItems

VARIABLES
  clock,        \* elapsedRealtime
  state_,       \* "INITIALIZED", "RUNNING", "STOPPING", "STOPPED"
  locked,       \* mutex_ is held by the worker between two of its steps
  q_, free_list_,   \* sequences of records
  delayed_q_,   \* a set of records, the queue by time
  record,       \* record -> [time, p]
  nrec,         \* records created so far
  wpc, wr,      \* the worker: control point, the record it has taken
  deadline,     \* when the worker's timed wait ends
  woken,        \* cond_ was signalled while the worker waited
  spc,          \* the stopping thread
  due,          \* history: 0 or due time of each item added
  taken,        \* history: items taken from q_, in order
  processed     \* history: the pointers Process was called with

queueVars == <<q_, free_list_, delayed_q_, record, nrec>>
histVars == <<due, taken, processed>>
vars == <<clock, state_, locked, queueVars, wpc, wr, deadline, woken, spc, histVars>>

Init ==
  /\ clock = 0 /\ state_ = "INITIALIZED" /\ locked = FALSE
  /\ q_ = <<>> /\ free_list_ = <<>> /\ delayed_q_ = {}
  /\ record = [r \in Records |-> [time |-> 0, p |-> 0]] /\ nrec = 0
  /\ wpc = "new" /\ wr = 0 /\ deadline = 0 /\ woken = FALSE /\ spc = "idle"
  /\ due = <<>> /\ taken = <<>> /\ processed = <<>>

isRunning == state_ = "RUNNING"

\* pthread_cond_signal: nobody but the worker waits.
signalled == woken \/ wpc \in {"wait", "timedwait"}

-----------------------------------------------------------------------------
(* Producers.                                                              *)

\* Mutant: a recycled record stays on the free list.
restFree_kept == free_list_

\* free_list_.pop_front()
restFree == Tail(free_list_)

\* The record obtain_record returns: a recycled one if there is any.
obtained == IF free_list_ = <<>> THEN nrec + 1 ELSE Head(free_list_)

\* The time of a new record, 0 without a delay.
recordTime(delay) == IF delay # 0 THEN clock + delay ELSE 0

obtain_record(delay) ==
  /\ IF free_list_ = <<>> THEN nrec' = nrec + 1 /\ UNCHANGED free_list_
                          ELSE free_list_' = restFree /\ UNCHANGED nrec
  /\ record' = [record EXCEPT ![obtained] =
                  [time |-> recordTime(delay), p |-> Len(due) + 1]]
  /\ due' = Append(due, IF delay # 0 THEN clock + delay ELSE 0)

\* Mutant: Add puts the record at the front.
queued_front(r) == <<r>> \o q_

\* q_.push_back(r)
queued(r) == Append(q_, r)

\* Mutant: the size is looked at before the record is pushed.
addSignal_late == IF Len(q_) = 1 THEN signalled ELSE woken

\* if (q_.size() == 1) after the push.
addSignal == IF Len(q_) = 0 THEN signalled ELSE woken

Add ==
  /\ Len(due) < MaxItems /\ ~locked /\ 0 \in Delays
  /\ obtain_record(0)
  /\ q_' = queued(obtained)
  /\ woken' = addSignal
  /\ UNCHANGED <<clock, state_, locked, delayed_q_, wpc, wr, deadline, spc, taken, processed>>

\* r is at the top of the delayed queue once it has been added.
\* push does not move it past one of the same time.
onTop(r) == \A x \in delayed_q_ : record'[r].time < record[x].time

\* Mutant: only the first delayed record wakes the worker.
delayedSignal_first(r) == IF q_ = <<>> /\ delayed_q_ = {} THEN signalled ELSE woken

\* The worker is told when it has to wait for less.
delayedSignal(r) == IF q_ = <<>> /\ onTop(r) THEN signalled ELSE woken

AddDelayed(delay) ==
  /\ Len(due) < MaxItems /\ ~locked /\ delay > 0 /\ clock <= MaxTime
  /\ obtain_record(delay)
  /\ delayed_q_' = delayed_q_ \cup {obtained}
  /\ woken' = delayedSignal(obtained)
  /\ UNCHANGED <<clock, state_, locked, q_, wpc, wr, deadline, spc, taken, processed>>

-----------------------------------------------------------------------------
(* WorkerQueueThread::Worker.                                              *)

goto(label) == wpc' = label

\* WorkerThread::Work, on the thread that Run creates and waits for.
workerWork ==
  /\ wpc = "new"
  /\ state_' = "RUNNING"
  /\ goto("top")
  /\ UNCHANGED <<clock, locked, queueVars, wr, deadline, woken, spc, histVars>>

\* while (isRunning()) pthread_mutex_lock(&mutex_);
workerTop ==
  /\ wpc = "top"
  /\ goto(IF isRunning THEN "lock" ELSE "exit")
  /\ UNCHANGED <<clock, state_, locked, queueVars, wr, deadline, woken, spc, histVars>>

workerLock ==
  /\ wpc = "lock" /\ ~locked
  /\ locked' = TRUE
  /\ goto("check")
  /\ UNCHANGED <<clock, state_, queueVars, wr, deadline, woken, spc, histVars>>

\* while (isRunning() && q_.size() == 0)
workerCheck ==
  /\ wpc = "check"
  /\ goto(IF isRunning /\ q_ = <<>> THEN "look" ELSE "take")
  /\ UNCHANGED <<clock, state_, locked, queueVars, wr, deadline, woken, spc, histVars>>

\* Both queues are empty: wait.
workerWait ==
  /\ wpc = "look" /\ delayed_q_ = {}
  /\ locked' = FALSE /\ woken' = FALSE
  /\ goto("wait")
  /\ UNCHANGED <<clock, state_, queueVars, wr, deadline, spc, histVars>>

\* delayed_q_.top()->time - now <= 0
isDue(r) == record[r].time - clock <= 0

dueRecords == {r \in delayed_q_ : isDue(r)}

\* The due records in the order of their times, equal ones in any order.
isDueOrder(s) ==
  /\ Range(s) = dueRecords /\ Len(s) = Cardinality(dueRecords)
  /\ \A i, j \in DOMAIN s : i < j => record[s[i]].time <= record[s[j]].time

\* Move the records that are due to q_.
workerMove ==
  /\ wpc = "look" /\ dueRecords # {}
  /\ \E s \in SetToSeqs(dueRecords) :
       /\ isDueOrder(s)
       /\ q_' = q_ \o s
  /\ delayed_q_' = delayed_q_ \ dueRecords
  /\ goto("check")
  /\ UNCHANGED <<clock, state_, locked, free_list_, record, nrec, wr, deadline, woken, spc, histVars>>

\* None is due: a timed wait, which returns at once and with the mutex held
\* when tv_nsec comes out at a second or more.
workerTimedwait ==
  /\ wpc = "look" /\ delayed_q_ # {} /\ dueRecords = {}
  /\ \/ /\ locked' = FALSE /\ woken' = FALSE
        /\ \E r \in delayed_q_ :
             /\ \A x \in delayed_q_ : record[r].time <= record[x].time
             /\ deadline' = record[r].time
        /\ goto("timedwait")
     \/ /\ goto("check")
        /\ UNCHANGED <<locked, woken, deadline>>
  /\ UNCHANGED <<clock, state_, queueVars, wr, spc, histVars>>

\* Signalled, or the deadline has passed.
workerWake ==
  /\ wpc \in {"wait", "timedwait"} /\ ~locked
  /\ woken \/ (wpc = "timedwait" /\ clock >= deadline)
  /\ locked' = TRUE
  /\ deadline' = 0
  /\ goto("check")
  /\ UNCHANGED <<clock, state_, queueVars, wr, woken, spc, histVars>>

\* Take the first record, recycle it and unlock.
workerTake ==
  /\ wpc = "take" /\ isRunning
  /\ wr' = Head(q_) /\ q_' = Tail(q_)
  /\ free_list_' = <<Head(q_)>> \o free_list_
  /\ taken' = Append(taken, record[Head(q_)].p)
  /\ locked' = FALSE
  /\ goto("process")
  /\ UNCHANGED <<clock, state_, delayed_q_, record, nrec, deadline, woken, spc, due, processed>>

workerTakeStopped ==
  /\ wpc = "take" /\ ~isRunning
  /\ locked' = FALSE
  /\ goto("top")
  /\ UNCHANGED <<clock, state_, queueVars, wr, deadline, woken, spc, histVars>>

\* wq->Process(r->p): the record is read after it was released.
workerProcess ==
  /\ wpc = "process"
  /\ processed' = Append(processed, record[wr].p)
  /\ wr' = 0
  /\ goto("top")
  /\ UNCHANGED <<clock, state_, locked, queueVars, deadline, woken, spc, due, taken>>

\* WorkerThread::Work, after Worker has returned.
workerExit ==
  /\ wpc = "exit"
  /\ state_' = "STOPPED"
  /\ goto("gone")
  /\ UNCHANGED <<clock, locked, queueVars, wr, deadline, woken, spc, histVars>>

WorkerStep ==
  \/ workerWork \/ workerTop \/ workerLock \/ workerCheck \/ workerWait \/ workerMove
  \/ workerTimedwait \/ workerWake \/ workerTake \/ workerTakeStopped
  \/ workerProcess \/ workerExit

-----------------------------------------------------------------------------
(* WorkerThread::Stop.                                                     *)

BeginStopping ==
  /\ Stops /\ spc = "idle" /\ isRunning
  /\ state_' = "STOPPING"
  /\ spc' = "signal"
  /\ UNCHANGED <<clock, locked, queueVars, wpc, wr, deadline, woken, histVars>>

\* WaitUntilStopped: one signal, without the mutex, then a poll.
stopSignal ==
  /\ spc = "signal"
  /\ woken' = signalled
  /\ spc' = "poll"
  /\ UNCHANGED <<clock, state_, locked, queueVars, wpc, wr, deadline, histVars>>

stopPoll ==
  /\ spc = "poll" /\ state_ # "STOPPING"
  /\ spc' = "done"
  /\ UNCHANGED <<clock, state_, locked, queueVars, wpc, wr, deadline, woken, histVars>>

StopStep == stopSignal \/ stopPoll

Tick ==
  /\ clock < 2 * MaxTime
  /\ clock' = clock + 1
  /\ UNCHANGED <<state_, locked, queueVars, wpc, wr, deadline, woken, spc, histVars>>

-----------------------------------------------------------------------------
Next ==
  \/ Add \/ \E delay \in Delays : AddDelayed(delay)
  \/ WorkerStep \/ BeginStopping \/ StopStep \/ Tick

Spec == Init /\ [][Next]_vars

\* The worker and the stopping thread run when they can, and time passes.
FairSpec == Spec /\ WF_vars(WorkerStep) /\ WF_vars(StopStep) /\ WF_vars(Tick)

-----------------------------------------------------------------------------
(* Properties.                                                             *)

\* A record is in one place only: queued, delayed or free, and once there, so
\* that recycling never puts two pointers in one record (obtain_record,
\* release_record).
RecordsInOnePlace ==
  /\ Len(q_) + Cardinality(delayed_q_) + Len(free_list_) = nrec
  /\ Range(q_) \cup delayed_q_ \cup Range(free_list_) = 1 .. nrec

\* The worker never sleeps while there is something to do, and never beyond
\* the time of the earliest delayed record, whenever records were added
\* (the signals of Add and AddDelayed against the waits of Worker).
NeverOversleeps ==
  (wpc \in {"wait", "timedwait"} /\ ~woken) =>
    /\ q_ = <<>>
    /\ \A r \in delayed_q_ : wpc = "timedwait" /\ deadline <= record[r].time

\* The queue hands over what was added as WorkQueueSpec promises: what waits
\* are the pointers of the records in the two queues.
Promise ==
  INSTANCE WorkQueueSpec
    WITH waiting <- {record[r].p : r \in Range(q_) \cup delayed_q_}
HandsOverAsPromised == Promise!Spec

\* Every item is taken in the end, unless the worker is stopped.
ItemTaken ==
  \A i \in Items : Len(due) >= i ~> (i \in Range(taken) \/ state_ \in {"STOPPING", "STOPPED"})

\* "Process will be called with a pointer": with each pointer added, once.
ProcessedAsTaken ==
  \A i \in DOMAIN processed : processed[i] = taken[i]

=============================================================================
