------------------------- MODULE WorkerQueueProofs -------------------------
(***************************************************************************)
(* Proofs about WorkerQueue, for any number of pointers and any delays: a  *)
(* record is in one place only, the worker never oversleeps, and the queue *)
(* implements WorkQueueSpec.                                               *)
(*                                                                         *)
(* RecordsInOnePlace counts; to know that a record obtained is new to the  *)
(* delayed queue the induction needs the three places disjoint and the     *)
(* sequences without repetition (PlaceInv).  The refinement needs to know  *)
(* what the live records hold (PointerInv).                                *)
(***************************************************************************)
EXTENDS WorkerQueue, SequenceTheorems, FiniteSetTheorems, TLAPS

Distinct(s) == \A i, j \in 1 .. Len(s) : s[i] = s[j] => i = j

\* The records that hold a pointer not yet taken.
Live == Range(q_) \cup delayed_q_

QueueType ==
  /\ clock \in Nat /\ nrec \in Nat /\ deadline \in Nat
  /\ q_ \in Seq(Records) /\ free_list_ \in Seq(Records) /\ delayed_q_ \subseteq Records
  /\ record \in [Records -> [time : Nat, p : Nat]]
  /\ due \in Seq(Nat) /\ taken \in Seq(Nat)
  /\ nrec <= Len(due) /\ Len(due) <= MaxItems

PlaceInv ==
  /\ Distinct(q_) /\ Distinct(free_list_)
  /\ Range(q_) \cap delayed_q_ = {} /\ Range(q_) \cap Range(free_list_) = {}
  /\ delayed_q_ \cap Range(free_list_) = {}

PointerInv ==
  /\ \A r \in Live : record[r].p \in 1 .. Len(due) /\ record[r].time = due[record[r].p]
  /\ \A r, x \in Live : record[r].p = record[x].p => r = x
  /\ \A r \in Range(q_) : record[r].time <= clock
  /\ \A r \in delayed_q_ : record[r].time > 0
  /\ \A i, j \in 1 .. Len(q_) :
       i < j /\ record[q_[i]].time = 0 /\ record[q_[j]].time = 0 =>
         record[q_[i]].p < record[q_[j]].p

WorkerInv ==
  /\ wpc \in {"check", "look", "take"} => locked
  /\ wpc = "look" => q_ = <<>>
  /\ wpc = "take" /\ isRunning => q_ # <<>>

IInv ==
  /\ QueueType /\ RecordsInOnePlace /\ PlaceInv /\ PointerInv /\ WorkerInv
  /\ NeverOversleeps

-----------------------------------------------------------------------------
(* Sequences.                                                              *)

\* What Append, Tail and a new head do to the elements of a sequence.
LEMMA AppendFacts ==
  ASSUME NEW S, NEW s \in Seq(S), NEW e \in S
  PROVE  /\ Append(s, e) \in Seq(S) /\ Len(Append(s, e)) = Len(s) + 1
         /\ \A i \in 1 .. Len(s) : Append(s, e)[i] = s[i]
         /\ Append(s, e)[Len(s) + 1] = e
         /\ Range(Append(s, e)) = Range(s) \cup {e}
         /\ Distinct(s) /\ e \notin Range(s) => Distinct(Append(s, e))
<1>1. /\ Append(s, e) \in Seq(S) /\ Len(Append(s, e)) = Len(s) + 1
      /\ \A i \in 1 .. Len(s) : Append(s, e)[i] = s[i]
      /\ Append(s, e)[Len(s) + 1] = e /\ Len(s) \in Nat
  BY AppendProperties, LenProperties
<1>2. Range(s) = {s[i] : i \in 1 .. Len(s)}
  BY RangeEquality
<1>3. Range(Append(s, e)) = {Append(s, e)[i] : i \in 1 .. Len(s) + 1}
  BY <1>1, RangeEquality
<1>4. Range(Append(s, e)) = Range(s) \cup {e}
  BY <1>1, <1>2, <1>3
<1>5. ASSUME Distinct(s), e \notin Range(s) PROVE Distinct(Append(s, e))
  BY <1>1, <1>2, <1>5 DEF Distinct
<1> QED BY <1>1, <1>4, <1>5

LEMMA HeadTailFacts ==
  ASSUME NEW S, NEW s \in Seq(S), s # <<>>
  PROVE  /\ Tail(s) \in Seq(S) /\ Len(Tail(s)) = Len(s) - 1 /\ Len(s) > 0
         /\ \A i \in 1 .. Len(s) - 1 : Tail(s)[i] = s[i + 1]
         /\ Head(s) = s[1] /\ Head(s) \in S
         /\ Range(s) = Range(Tail(s)) \cup {Head(s)}
         /\ Distinct(s) => Distinct(Tail(s)) /\ Head(s) \notin Range(Tail(s))
<1>1. /\ Tail(s) \in Seq(S) /\ Len(Tail(s)) = Len(s) - 1 /\ Len(s) \in Nat /\ Len(s) > 0
      /\ \A i \in 1 .. Len(s) - 1 : Tail(s)[i] = s[i + 1]
      /\ Head(s) = s[1] /\ Head(s) \in S
  BY HeadTailProperties, EmptySeq, LenProperties
<1>2. Range(s) = {s[i] : i \in 1 .. Len(s)}
  BY RangeEquality
<1>3. Range(Tail(s)) = {Tail(s)[i] : i \in 1 .. Len(s) - 1}
  BY <1>1, RangeEquality
<1>4. Range(s) = Range(Tail(s)) \cup {Head(s)}
  <2>1. \A i \in 1 .. Len(s) : i = 1 \/ (i - 1 \in 1 .. Len(s) - 1 /\ s[i] = Tail(s)[i - 1])
    BY <1>1
  <2>2. \A i \in 1 .. Len(s) - 1 : i + 1 \in 1 .. Len(s)
    BY <1>1
  <2>3. ASSUME NEW x \in Range(s) PROVE x \in Range(Tail(s)) \cup {Head(s)}
    <3>1. PICK i \in 1 .. Len(s) : x = s[i]
      BY <1>2
    <3> QED BY <1>1, <1>3, <2>1, <3>1
  <2>4. ASSUME NEW x \in Range(Tail(s)) PROVE x \in Range(s)
    <3>1. PICK i \in 1 .. Len(s) - 1 : x = Tail(s)[i]
      BY <1>3
    <3> QED BY <1>1, <1>2, <2>2, <3>1
  <2>5. Head(s) \in Range(s)
    BY <1>1, <1>2
  <2> QED BY <2>3, <2>4, <2>5
<1>5. ASSUME Distinct(s) PROVE Distinct(Tail(s)) /\ Head(s) \notin Range(Tail(s))
  BY <1>1, <1>3, <1>5 DEF Distinct
<1> QED BY <1>1, <1>4, <1>5

LEMMA ConsFacts ==
  ASSUME NEW S, NEW s \in Seq(S), NEW e \in S
  PROVE  /\ <<e>> \o s \in Seq(S) /\ Len(<<e>> \o s) = Len(s) + 1
         /\ Range(<<e>> \o s) = Range(s) \cup {e}
         /\ Distinct(s) /\ e \notin Range(s) => Distinct(<<e>> \o s)
<1> DEFINE t == <<e>> \o s
<1>1. <<e>> \in Seq(S) /\ Len(<<e>>) = 1 /\ <<e>>[1] = e /\ Len(s) \in Nat
  BY LenProperties
<1>2. /\ t \in Seq(S) /\ Len(t) = Len(s) + 1
      /\ \A i \in 1 .. Len(s) + 1 : t[i] = IF i <= 1 THEN <<e>>[i] ELSE s[i - 1]
  BY <1>1, ConcatProperties
<1>3. t[1] = e /\ \A i \in 2 .. Len(s) + 1 : t[i] = s[i - 1]
  BY <1>1, <1>2
<1>4. Range(s) = {s[i] : i \in 1 .. Len(s)}
  BY RangeEquality
<1>5. Range(t) = Range(s) \cup {e}
  <2>1. Range(t) = Range(<<e>>) \cup Range(s)
    BY <1>1, RangeConcatenation, ZenonT(60)
  <2>2. Range(<<e>>) = {e}
    BY DEF Range
  <2> QED BY <2>1, <2>2
<1>6. ASSUME Distinct(s), e \notin Range(s) PROVE Distinct(t)
  <2>1. \A i \in 2 .. Len(s) + 1 : i - 1 \in 1 .. Len(s) /\ t[i] # e
    BY <1>1, <1>3, <1>4, <1>6
  <2> QED BY <1>1, <1>2, <1>3, <1>6, <2>1 DEF Distinct
<1> QED BY <1>2, <1>5, <1>6

-----------------------------------------------------------------------------
USE DEF queueVars, histVars, goto, isRunning

(* The producers.                                                          *)

LEMMA IntervalGrows ==
  ASSUME NEW n \in Nat
  PROVE  1 .. n + 1 = (1 .. n) \cup {n + 1}
<1>1. \A i : i \in 1 .. n + 1 <=> i \in 1 .. n \/ i = n + 1
  OBVIOUS
<1> QED BY <1>1

\* The delayed queue is finite, and what is queued or delayed was created.
LEMMA PlacesBounded ==
  ASSUME QueueType, RecordsInOnePlace
  PROVE  /\ IsFiniteSet(delayed_q_) /\ Cardinality(delayed_q_) \in Nat
         /\ Len(q_) \in Nat /\ Len(free_list_) \in Nat /\ Len(due) \in Nat
         /\ \A r \in Range(q_) \cup delayed_q_ \cup Range(free_list_) : r \in 1 .. nrec
<1>1. IsFiniteSet(1 .. MaxItems)
  BY FS_Interval, WorkerAssumption
<1>2. IsFiniteSet(delayed_q_) /\ Cardinality(delayed_q_) \in Nat
  BY <1>1, FS_Subset, FS_CardinalityType DEF QueueType, Records
<1> QED BY <1>2, LenProperties DEF QueueType, RecordsInOnePlace

\* obtain_record hands out a record that is nowhere else, whether it is new or
\* recycled, and the free list loses no other.
LEMMA RecordObtained ==
  ASSUME QueueType, RecordsInOnePlace, PlaceInv, Len(due) < MaxItems,
         NEW delay \in Nat, obtain_record(delay)
  PROVE  /\ obtained \in Records /\ obtained \notin Live
         /\ free_list_' \in Seq(Records) /\ Distinct(free_list_')
         /\ obtained \notin Range(free_list_')
         /\ Range(free_list_') \subseteq Range(free_list_)
         /\ nrec' \in Nat /\ nrec' <= Len(due) + 1
         /\ Len(q_) + Cardinality(delayed_q_) + 1 + Len(free_list_') = nrec'
         /\ Live \cup {obtained} \cup Range(free_list_') = 1 .. nrec'
<1>1. /\ IsFiniteSet(delayed_q_) /\ Cardinality(delayed_q_) \in Nat
      /\ Len(q_) \in Nat /\ Len(free_list_) \in Nat /\ Len(due) \in Nat
      /\ \A r \in Range(q_) \cup delayed_q_ \cup Range(free_list_) : r \in 1 .. nrec
  BY PlacesBounded
<1>2. CASE free_list_ = <<>>
  <2>1. obtained = nrec + 1 /\ nrec' = nrec + 1 /\ free_list_' = <<>>
    BY <1>2 DEF obtain_record, obtained
  <2>2. Range(free_list_) = {} /\ Range(free_list_') = {} /\ Len(free_list_) = 0
    BY <1>2, <2>1 DEF Range
  <2>3. Distinct(free_list_')
    BY <2>1 DEF Distinct
  <2>4. 1 .. nrec' = (1 .. nrec) \cup {nrec + 1}
    BY <2>1, IntervalGrows DEF QueueType
  <2>5. obtained \in Records
    BY <1>1, <2>1, WorkerAssumption DEF QueueType, Records
  <2> QED BY <1>1, <1>2, <2>1, <2>2, <2>3, <2>4, <2>5
          DEF QueueType, RecordsInOnePlace, Live
<1>3. CASE free_list_ # <<>>
  <2>1. obtained = Head(free_list_) /\ nrec' = nrec /\ free_list_' = Tail(free_list_)
    BY <1>3 DEF obtain_record, obtained, restFree
  <2>2. /\ Tail(free_list_) \in Seq(Records) /\ Len(Tail(free_list_)) = Len(free_list_) - 1
        /\ Range(free_list_) = Range(Tail(free_list_)) \cup {Head(free_list_)}
        /\ Head(free_list_) \in Records
        /\ Distinct(Tail(free_list_)) /\ Head(free_list_) \notin Range(Tail(free_list_))
    BY <1>3, HeadTailFacts DEF QueueType, PlaceInv
  <2>3. obtained \notin Live
    BY <2>1, <2>2 DEF PlaceInv, Live
  <2>4. Live \cup {obtained} \cup Range(free_list_') = 1 .. nrec'
    BY <2>1, <2>2 DEF RecordsInOnePlace, Live
  <2>5. /\ nrec' \in Nat /\ nrec' <= Len(due) + 1
        /\ Len(q_) + Cardinality(delayed_q_) + 1 + Len(free_list_') = nrec'
    <3>1. nrec \in Nat /\ nrec <= Len(due)
      BY DEF QueueType
    <3>2. Len(free_list_') = Len(free_list_) - 1
      BY <2>1, <2>2
    <3>3. Len(q_) + Cardinality(delayed_q_) + Len(free_list_) = nrec
      BY DEF RecordsInOnePlace
    <3> QED BY <1>1, <2>1, <3>1, <3>2, <3>3
  <2> QED BY <2>1, <2>2, <2>3, <2>4, <2>5
<1> QED BY <1>2, <1>3

\* What obtain_record writes: the record's contents and the history of Adds.
LEMMA RecordWritten ==
  ASSUME QueueType, RecordsInOnePlace, PlaceInv, Len(due) < MaxItems,
         NEW delay \in Nat, obtain_record(delay)
  PROVE  /\ record' \in [Records -> [time : Nat, p : Nat]]
         /\ \A r \in Records \ {obtained} : record'[r] = record[r]
         /\ record'[obtained].p = Len(due) + 1
         /\ record'[obtained].time = recordTime(delay)
         /\ due' \in Seq(Nat) /\ Len(due') = Len(due) + 1
         /\ \A i \in 1 .. Len(due) : due'[i] = due[i]
         /\ due'[Len(due) + 1] = recordTime(delay)
         /\ recordTime(delay) \in Nat
<1>1. obtained \in Records
  BY RecordObtained
<1>2. recordTime(delay) \in Nat /\ due' = Append(due, recordTime(delay))
  BY DEF recordTime, obtain_record, QueueType
<1>3. Len(due) \in Nat
  BY LenProperties DEF QueueType
<1>4. /\ record' \in [Records -> [time : Nat, p : Nat]]
      /\ \A r \in Records \ {obtained} : record'[r] = record[r]
      /\ record'[obtained].p = Len(due) + 1
      /\ record'[obtained].time = recordTime(delay)
  <2> DEFINE new == [time |-> recordTime(delay), p |-> Len(due) + 1]
  <2>1. record' = [record EXCEPT ![obtained] = new]
    BY DEF obtain_record
  <2>2. new \in [time : Nat, p : Nat] /\ new.p = Len(due) + 1
        /\ new.time = recordTime(delay)
    BY <1>2, <1>3
  <2> HIDE DEF new
  <2> QED BY <1>1, <2>1, <2>2 DEF QueueType
<1>5. /\ due' \in Seq(Nat) /\ Len(due') = Len(due) + 1
      /\ \A i \in 1 .. Len(due) : due'[i] = due[i]
      /\ due'[Len(due) + 1] = recordTime(delay)
  BY <1>2, AppendFacts DEF QueueType
<1> QED BY <1>2, <1>4, <1>5

\* The pointers of the live records once a new one is among them.
LEMMA PointersAdded ==
  ASSUME QueueType, RecordsInOnePlace, PlaceInv, PointerInv, Len(due) < MaxItems,
         NEW delay \in Nat, obtain_record(delay),
         Range(q_') \cup delayed_q_' = Live \cup {obtained}
  PROVE  /\ \A r \in Live' :
              record'[r].p \in 1 .. Len(due') /\ record'[r].time = due'[record'[r].p]
         /\ \A r, x \in Live' : record'[r].p = record'[x].p => r = x
         /\ \A r \in Live : record'[r] = record[r]
<1>1. obtained \in Records /\ obtained \notin Live /\ Live \subseteq Records
  <2>1. Range(q_) \subseteq Records
    BY RangeOfSeq DEF QueueType
  <2> QED BY <2>1, RecordObtained DEF QueueType, Live
<1>2. Live' = Live \cup {obtained}
  BY DEF Live
<1>3. \A r \in Live : record'[r] = record[r]
  BY <1>1, RecordWritten
<1>4. /\ record'[obtained].p = Len(due) + 1 /\ Len(due') = Len(due) + 1
      /\ record'[obtained].time = due'[Len(due) + 1]
      /\ \A i \in 1 .. Len(due) : due'[i] = due[i]
      /\ Len(due) \in Nat
  BY RecordWritten, PlacesBounded
<1>5. \A r \in Live :
        record[r].p \in 1 .. Len(due) /\ record[r].time = due[record[r].p]
  BY DEF PointerInv
<1>6. ASSUME NEW r \in Live'
      PROVE  record'[r].p \in 1 .. Len(due') /\ record'[r].time = due'[record'[r].p]
  BY <1>2, <1>3, <1>4, <1>5
<1>7. ASSUME NEW r \in Live', NEW x \in Live', record'[r].p = record'[x].p PROVE r = x
  <2>1. CASE r \in Live /\ x \in Live
    BY <1>3, <1>7, <2>1 DEF PointerInv
  <2>2. CASE r = obtained /\ x \in Live
    BY <1>3, <1>4, <1>5, <1>7, <2>2
  <2>3. CASE r \in Live /\ x = obtained
    BY <1>3, <1>4, <1>5, <1>7, <2>3
  <2> QED BY <1>2, <2>1, <2>2, <2>3
<1> QED BY <1>3, <1>6, <1>7

\* Add
LEMMA AddInv == ASSUME IInv, Add PROVE IInv'
<1> USE DEF IInv
<1> DEFINE r == obtained
<1>1. /\ obtain_record(0) /\ Len(due) < MaxItems /\ 0 \in Nat /\ ~ locked
      /\ q_' = Append(q_, r) /\ woken' = addSignal /\ delayed_q_' = delayed_q_
      /\ clock' = clock /\ wpc' = wpc /\ deadline' = deadline /\ taken' = taken
      /\ locked' = locked /\ state_' = state_
  BY DEF Add, queued
<1>2. /\ r \in Records /\ r \notin Live
      /\ free_list_' \in Seq(Records) /\ Distinct(free_list_')
      /\ r \notin Range(free_list_') /\ Range(free_list_') \subseteq Range(free_list_)
      /\ nrec' \in Nat /\ nrec' <= Len(due) + 1
      /\ Len(q_) + Cardinality(delayed_q_) + 1 + Len(free_list_') = nrec'
      /\ Live \cup {r} \cup Range(free_list_') = 1 .. nrec'
  BY <1>1, RecordObtained
<1>3. /\ record' \in [Records -> [time : Nat, p : Nat]]
      /\ record'[r].p = Len(due) + 1 /\ record'[r].time = 0
      /\ due' \in Seq(Nat) /\ Len(due') = Len(due) + 1
  BY <1>1, RecordWritten DEF recordTime
<1>4. /\ Len(q_) \in Nat /\ Len(due) \in Nat /\ Cardinality(delayed_q_) \in Nat
      /\ Len(free_list_') \in Nat
  BY <1>2, PlacesBounded, LenProperties
<1> HIDE DEF r
<1>a. q_ \in Seq(Records) /\ Distinct(q_) /\ r \notin Range(q_) /\ clock \in Nat
  BY <1>2 DEF QueueType, PlaceInv, Live
<1>5. /\ q_' \in Seq(Records) /\ Len(q_') = Len(q_) + 1
      /\ \A i \in 1 .. Len(q_) : q_'[i] = q_[i]
      /\ q_'[Len(q_) + 1] = r
      /\ Range(q_') = Range(q_) \cup {r} /\ Distinct(q_')
  BY <1>1, <1>2, <1>a, AppendFacts
<1>6. /\ \A x \in Live' :
           record'[x].p \in 1 .. Len(due') /\ record'[x].time = due'[record'[x].p]
      /\ \A x, y \in Live' : record'[x].p = record'[y].p => x = y
      /\ \A x \in Live : record'[x] = record[x]
  BY <1>1, <1>5, PointersAdded DEF r, Live
<1>7. QueueType'
  <2>1. nrec' <= Len(due') /\ Len(due') <= MaxItems
    BY <1>1, <1>2, <1>3, <1>4, WorkerAssumption
  <2> QED BY <1>1, <1>2, <1>3, <1>5, <2>1 DEF QueueType
<1>8. RecordsInOnePlace'
  <2>1. Range(q_') \cup delayed_q_' \cup Range(free_list_') = 1 .. nrec'
    BY <1>1, <1>2, <1>5 DEF Live
  <2>2. Len(q_') + Cardinality(delayed_q_') + Len(free_list_') = nrec'
    BY <1>1, <1>2, <1>4, <1>5
  <2> QED BY <2>1, <2>2 DEF RecordsInOnePlace
<1>9. PlaceInv'
  BY <1>1, <1>2, <1>5 DEF PlaceInv, Live
<1>10. PointerInv'
  <2>1. \A x \in Range(q_') : record'[x].time <= clock'
    BY <1>1, <1>3, <1>5, <1>6, <1>a DEF PointerInv, Live
  <2>2. \A x \in delayed_q_' : record'[x].time > 0
    BY <1>1, <1>6 DEF PointerInv, Live
  <2>3. \A i \in 1 .. Len(q_) : q_[i] \in Live
    BY <1>a, RangeEquality DEF Live
  <2>4. ASSUME NEW i \in 1 .. Len(q_'), NEW j \in 1 .. Len(q_'), i < j,
               record'[q_'[i]].time = 0, record'[q_'[j]].time = 0
        PROVE  record'[q_'[i]].p < record'[q_'[j]].p
    <3>1. i \in 1 .. Len(q_) /\ q_'[i] = q_[i] /\ record'[q_[i]] = record[q_[i]]
      BY <1>4, <1>5, <1>6, <2>3, <2>4
    <3>2. CASE j \in 1 .. Len(q_)
      BY <1>5, <1>6, <2>3, <2>4, <3>1, <3>2 DEF PointerInv
    <3>3. CASE j = Len(q_) + 1
      <4>1. record[q_[i]].p \in 1 .. Len(due)
        BY <2>3, <3>1 DEF PointerInv
      <4> QED BY <1>3, <1>4, <1>5, <3>1, <3>3, <4>1, SMTT(30)
    <3> QED BY <1>4, <1>5, <3>2, <3>3
  <2> QED BY <1>6, <2>1, <2>2, <2>4 DEF PointerInv
<1>11. WorkerInv'
  BY <1>1, <1>5, EmptySeq DEF WorkerInv
<1>12. NeverOversleeps'
  <2>1. SUFFICES ASSUME wpc \in {"wait", "timedwait"}, ~ woken' PROVE FALSE
    BY <1>1 DEF NeverOversleeps
  <2>2. ~ woken /\ Len(q_) # 0
    BY <1>1, <2>1 DEF addSignal, signalled
  <2> QED BY <2>1, <2>2, EmptySeq DEF NeverOversleeps
<1> QED BY <1>7, <1>8, <1>9, <1>10, <1>11, <1>12

\* AddDelayed
LEMMA AddDelayedInv ==
  ASSUME IInv, NEW delay \in Delays, AddDelayed(delay)
  PROVE  IInv'
<1> USE DEF IInv
<1> DEFINE r == obtained
<1>1. /\ obtain_record(delay) /\ Len(due) < MaxItems /\ ~ locked
      /\ delayed_q_' = delayed_q_ \cup {r} /\ woken' = delayedSignal(r) /\ q_' = q_
      /\ clock' = clock /\ wpc' = wpc /\ deadline' = deadline /\ taken' = taken
      /\ locked' = locked /\ state_' = state_ /\ delay > 0
  BY DEF AddDelayed
<1>2. delay \in Nat
  BY WorkerAssumption
<1>3. /\ r \in Records /\ r \notin Live
      /\ free_list_' \in Seq(Records) /\ Distinct(free_list_')
      /\ r \notin Range(free_list_') /\ Range(free_list_') \subseteq Range(free_list_)
      /\ nrec' \in Nat /\ nrec' <= Len(due) + 1
      /\ Len(q_) + Cardinality(delayed_q_) + 1 + Len(free_list_') = nrec'
      /\ Live \cup {r} \cup Range(free_list_') = 1 .. nrec'
  BY <1>1, <1>2, RecordObtained
<1>4. clock \in Nat /\ delayed_q_ \subseteq Records
  BY DEF QueueType
<1>5. /\ record' \in [Records -> [time : Nat, p : Nat]]
      /\ record'[r].time = clock + delay
      /\ due' \in Seq(Nat) /\ Len(due') = Len(due) + 1
  BY <1>1, <1>2, <1>4, RecordWritten DEF recordTime
<1>6. /\ Len(q_) \in Nat /\ Len(due) \in Nat /\ Cardinality(delayed_q_) \in Nat
      /\ Len(free_list_') \in Nat /\ IsFiniteSet(delayed_q_)
  BY <1>3, PlacesBounded, LenProperties
<1> HIDE DEF r
<1>7. /\ \A x \in Live' :
           record'[x].p \in 1 .. Len(due') /\ record'[x].time = due'[record'[x].p]
      /\ \A x, y \in Live' : record'[x].p = record'[y].p => x = y
      /\ \A x \in Live : record'[x] = record[x]
  BY <1>1, <1>2, PointersAdded DEF r, Live
<1>8. QueueType'
  <2>1. nrec' <= Len(due') /\ Len(due') <= MaxItems
    BY <1>1, <1>3, <1>5, <1>6, WorkerAssumption
  <2> QED BY <1>1, <1>3, <1>4, <1>5, <2>1 DEF QueueType
<1>9. RecordsInOnePlace'
  <2>1. Range(q_') \cup delayed_q_' \cup Range(free_list_') = 1 .. nrec'
    BY <1>1, <1>3 DEF Live
  <2>2. Cardinality(delayed_q_') = Cardinality(delayed_q_) + 1
    BY <1>1, <1>3, <1>6, FS_AddElement DEF Live
  <2>3. Len(q_') + Cardinality(delayed_q_') + Len(free_list_') = nrec'
    BY <1>1, <1>3, <1>6, <2>2
  <2> QED BY <2>1, <2>3 DEF RecordsInOnePlace
<1>10. PlaceInv'
  BY <1>1, <1>3 DEF PlaceInv, Live
<1>11. PointerInv'
  <2>1. \A x \in Range(q_') : record'[x].time <= clock'
    BY <1>1, <1>7 DEF PointerInv, Live
  <2>2. \A x \in delayed_q_' : record'[x].time > 0
    BY <1>1, <1>2, <1>4, <1>5, <1>7 DEF PointerInv, Live
  <2>3. \A i \in 1 .. Len(q_) : q_[i] \in Live
    BY RangeEquality DEF Live, QueueType
  <2>4. \A i, j \in 1 .. Len(q_') :
          i < j /\ record'[q_'[i]].time = 0 /\ record'[q_'[j]].time = 0 =>
            record'[q_'[i]].p < record'[q_'[j]].p
    BY <1>1, <1>7, <2>3 DEF PointerInv
  <2> QED BY <1>7, <2>1, <2>2, <2>4 DEF PointerInv
<1>12. WorkerInv'
  BY <1>1 DEF WorkerInv
<1>13. NeverOversleeps'
  <2>1. SUFFICES ASSUME wpc \in {"wait", "timedwait"}, ~ woken'
                 PROVE  q_ = <<>> /\ \A x \in delayed_q_ \cup {r} :
                          wpc = "timedwait" /\ deadline <= record'[x].time
    BY <1>1 DEF NeverOversleeps
  <2>2. ~ woken /\ q_ = <<>> /\ ~ onTop(r)
    <3>1. signalled
      BY <2>1 DEF signalled
    <3>2. ~ woken
      BY <1>1, <2>1, <3>1 DEF delayedSignal
    <3> QED BY <1>1, <2>1, <3>1, <3>2 DEF delayedSignal, NeverOversleeps
  <2>3. \A x \in delayed_q_ : wpc = "timedwait" /\ deadline <= record[x].time
    BY <2>1, <2>2 DEF NeverOversleeps
  <2>4. PICK x \in delayed_q_ : ~ (record'[r].time < record[x].time)
    BY <2>2 DEF onTop
  <2>5. deadline \in Nat /\ record[x].time \in Nat /\ record'[r].time \in Nat
    BY <1>3, <1>4, <1>5 DEF QueueType
  <2>6. deadline <= record'[r].time
    BY <2>3, <2>4, <2>5
  <2> QED BY <1>7, <2>2, <2>3, <2>6 DEF Live
<1> QED BY <1>8, <1>9, <1>10, <1>11, <1>12, <1>13

-----------------------------------------------------------------------------
(* The worker.                                                             *)

\* Take the first record and recycle it.
LEMMA workerTakeInv == ASSUME IInv, workerTake PROVE IInv'
<1> USE DEF IInv
<1> DEFINE r == Head(q_)
<1>1. /\ wpc = "take" /\ isRunning /\ q_' = Tail(q_) /\ free_list_' = <<r>> \o free_list_
      /\ taken' = Append(taken, record[r].p) /\ wpc' = "process"
      /\ clock' = clock /\ state_' = state_ /\ delayed_q_' = delayed_q_ /\ due' = due
      /\ record' = record /\ nrec' = nrec /\ deadline' = deadline
  BY DEF workerTake
<1>2. q_ # <<>> /\ q_ \in Seq(Records) /\ free_list_ \in Seq(Records)
  BY <1>1 DEF WorkerInv, QueueType
<1>3. /\ q_' \in Seq(Records) /\ Len(q_') = Len(q_) - 1 /\ Len(q_) > 0
      /\ \A i \in 1 .. Len(q_) - 1 : q_'[i] = q_[i + 1]
      /\ r \in Records /\ Range(q_) = Range(q_') \cup {r}
      /\ Distinct(q_') /\ r \notin Range(q_')
  BY <1>1, <1>2, HeadTailFacts DEF PlaceInv
<1>4. /\ free_list_' \in Seq(Records) /\ Len(free_list_') = Len(free_list_) + 1
      /\ Range(free_list_') = Range(free_list_) \cup {r} /\ Distinct(free_list_')
  BY <1>1, <1>2, <1>3, ConsFacts DEF PlaceInv
<1>5. /\ Len(q_) \in Nat /\ Len(free_list_) \in Nat /\ Cardinality(delayed_q_) \in Nat
  BY PlacesBounded
<1>6. taken' \in Seq(Nat)
  <2>1. record[r].p \in Nat /\ taken \in Seq(Nat)
    BY <1>3 DEF QueueType
  <2> QED BY <1>1, <2>1, AppendFacts
<1> HIDE DEF r
<1>7. QueueType'
  BY <1>1, <1>3, <1>4, <1>6 DEF QueueType
<1>8. RecordsInOnePlace'
  <2>1. Range(q_') \cup delayed_q_' \cup Range(free_list_') = 1 .. nrec'
    BY <1>1, <1>3, <1>4 DEF RecordsInOnePlace
  <2>2. Len(q_') + Cardinality(delayed_q_') + Len(free_list_') = nrec'
    BY <1>1, <1>3, <1>4, <1>5 DEF RecordsInOnePlace
  <2> QED BY <2>1, <2>2 DEF RecordsInOnePlace
<1>9. PlaceInv'
  BY <1>1, <1>3, <1>4 DEF PlaceInv
<1>10. PointerInv'
  <2>1. \A i \in 1 .. Len(q_') : i + 1 \in 1 .. Len(q_) /\ q_'[i] = q_[i + 1]
    BY <1>3, <1>5
  <2>2. \A i, j \in 1 .. Len(q_') :
          i < j /\ record'[q_'[i]].time = 0 /\ record'[q_'[j]].time = 0 =>
            record'[q_'[i]].p < record'[q_'[j]].p
    BY <1>1, <1>5, <2>1 DEF PointerInv
  <2> QED BY <1>1, <1>3, <2>2 DEF PointerInv, Live
<1>11. WorkerInv' /\ NeverOversleeps'
  BY <1>1 DEF WorkerInv, NeverOversleeps
<1> QED BY <1>7, <1>8, <1>9, <1>10, <1>11

\* Move the records that are due: the queue was empty, so that it becomes the
\* due records in some order.
LEMMA workerMoveInv == ASSUME IInv, workerMove PROVE IInv'
<1> USE DEF IInv
<1>1. /\ wpc = "look" /\ wpc' = "check" /\ delayed_q_' = delayed_q_ \ dueRecords
      /\ clock' = clock /\ state_' = state_ /\ locked' = locked /\ due' = due
      /\ free_list_' = free_list_ /\ taken' = taken
      /\ record' = record /\ nrec' = nrec /\ deadline' = deadline
  BY DEF workerMove
<1>2. PICK s \in SetToSeqs(dueRecords) : isDueOrder(s) /\ q_' = q_ \o s
  BY DEF workerMove
<1>3. q_ = <<>> /\ locked
  BY <1>1 DEF WorkerInv
<1>4. /\ IsFiniteSet(delayed_q_) /\ IsFiniteSet(dueRecords)
      /\ dueRecords \subseteq delayed_q_ /\ dueRecords \subseteq Records
      /\ Cardinality(dueRecords) \in Nat /\ Cardinality(delayed_q_) \in Nat
      /\ delayed_q_ \subseteq Records
  BY PlacesBounded, FS_Subset, FS_CardinalityType DEF QueueType, dueRecords
<1>5. /\ s \in [1 .. Cardinality(dueRecords) -> dueRecords]
      /\ \A i, j \in 1 .. Cardinality(dueRecords) : i # j => s[i] # s[j]
  BY DEF SetToSeqs
<1>6. /\ s \in Seq(Records) /\ Len(s) = Cardinality(dueRecords)
      /\ Range(s) = dueRecords /\ Distinct(s)
  BY <1>2, <1>4, <1>5 DEF isDueOrder, Distinct
<1>7. q_' = s
  BY <1>2, <1>3, <1>6, ConcatEmptySeq
<1>8. Range(q_) = {} /\ Len(q_) = 0
  BY <1>3 DEF Range
<1>9. QueueType'
  BY <1>1, <1>4, <1>6, <1>7 DEF QueueType
<1>10. RecordsInOnePlace'
  <2>1. Cardinality(delayed_q_ \ dueRecords)
          = Cardinality(delayed_q_) - Cardinality(dueRecords)
    <3>1. /\ IsFiniteSet(delayed_q_ \ dueRecords)
          /\ Cardinality(delayed_q_ \ dueRecords) \in Nat
      BY <1>4, FS_Subset, FS_CardinalityType
    <3>2. (delayed_q_ \ dueRecords) \cup dueRecords = delayed_q_
          /\ (delayed_q_ \ dueRecords) \cap dueRecords = {}
      BY <1>4
    <3>3. Cardinality(delayed_q_)
            = Cardinality(delayed_q_ \ dueRecords) + Cardinality(dueRecords) - 0
      BY <1>4, <3>1, <3>2, FS_Union, FS_EmptySet
    <3> QED BY <1>4, <3>1, <3>3
  <2>2. Range(q_') \cup delayed_q_' \cup Range(free_list_') = 1 .. nrec'
    BY <1>1, <1>4, <1>6, <1>7, <1>8 DEF RecordsInOnePlace
  <2>3. Len(free_list_) \in Nat
    BY PlacesBounded
  <2>4. Len(q_') + Cardinality(delayed_q_') + Len(free_list_') = nrec'
    BY <1>1, <1>4, <1>6, <1>7, <1>8, <2>1, <2>3 DEF RecordsInOnePlace
  <2> QED BY <2>2, <2>4 DEF RecordsInOnePlace
<1>11. PlaceInv'
  BY <1>1, <1>4, <1>6, <1>7 DEF PlaceInv
<1>12. PointerInv'
  <2>1. Live' = Live
    BY <1>1, <1>4, <1>6, <1>7, <1>8 DEF Live
  <2>2. \A r \in dueRecords : record[r].time <= clock /\ record[r].time > 0
    BY <1>4 DEF dueRecords, isDue, QueueType, PointerInv
  <2>3. \A i \in 1 .. Len(q_') : q_'[i] \in dueRecords
    BY <1>5, <1>6, <1>7
  <2>4. \A i, j \in 1 .. Len(q_') :
          i < j /\ record'[q_'[i]].time = 0 /\ record'[q_'[j]].time = 0 =>
            record'[q_'[i]].p < record'[q_'[j]].p
    BY <1>1, <2>2, <2>3
  <2> QED BY <1>1, <1>6, <1>7, <2>1, <2>2, <2>4 DEF PointerInv
<1>13. WorkerInv' /\ NeverOversleeps'
  BY <1>1, <1>3 DEF WorkerInv, NeverOversleeps
<1> QED BY <1>9, <1>10, <1>11, <1>12, <1>13

\* The worker goes to sleep: nothing is queued, and the deadline is the time of
\* the earliest delayed record.
LEMMA workerSleepInv ==
  ASSUME IInv, workerWait \/ workerTimedwait
  PROVE  IInv'
<1> USE DEF IInv
<1>1. /\ wpc = "look" /\ q_ = <<>> /\ q_' = q_ /\ delayed_q_' = delayed_q_
      /\ free_list_' = free_list_ /\ record' = record /\ nrec' = nrec
      /\ clock' = clock /\ state_' = state_ /\ due' = due /\ taken' = taken
  BY DEF workerWait, workerTimedwait, WorkerInv
<1>2. CASE workerWait
  <2>1. QueueType' /\ RecordsInOnePlace' /\ PlaceInv' /\ PointerInv'
    BY <1>1, <1>2 DEF workerWait, QueueType, RecordsInOnePlace, PlaceInv, PointerInv, Live
  <2>2. WorkerInv' /\ NeverOversleeps'
    BY <1>1, <1>2 DEF workerWait, WorkerInv, NeverOversleeps
  <2> QED BY <2>1, <2>2
<1>3. CASE workerTimedwait
  <2>1. RecordsInOnePlace' /\ PlaceInv' /\ PointerInv'
    BY <1>1 DEF RecordsInOnePlace, PlaceInv, PointerInv, Live
  <2>2. \/ /\ wpc' = "timedwait" /\ locked' = FALSE
           /\ \E r \in delayed_q_ : /\ \A x \in delayed_q_ : record[r].time <= record[x].time
                                    /\ deadline' = record[r].time
        \/ wpc' = "check" /\ locked' = locked /\ deadline' = deadline
    BY <1>3 DEF workerTimedwait
  <2>3. QueueType'
    BY <1>1, <2>2 DEF QueueType
  <2>4. WorkerInv' /\ NeverOversleeps'
    BY <1>1, <2>2 DEF WorkerInv, NeverOversleeps
  <2> QED BY <2>1, <2>3, <2>4
<1> QED BY <1>2, <1>3

\* The steps that leave the queues alone and do not go to sleep.
LEMMA QuietInv ==
  ASSUME IInv,
         \/ workerWork \/ workerTop \/ workerLock \/ workerCheck \/ workerWake
         \/ workerTakeStopped \/ workerProcess \/ workerExit
         \/ BeginStopping \/ StopStep \/ Tick \/ UNCHANGED vars
  PROVE  IInv'
<1> USE DEF IInv
<1> USE DEF workerWork, workerTop, workerLock, workerCheck, workerWake,
            workerTakeStopped, workerProcess, workerExit, BeginStopping, StopStep,
            stopSignal, stopPoll, Tick, vars
<1>1. /\ q_' = q_ /\ delayed_q_' = delayed_q_ /\ free_list_' = free_list_
      /\ record' = record /\ nrec' = nrec /\ due' = due /\ taken' = taken
  OBVIOUS
<1>2. clock' \in Nat /\ clock' >= clock /\ deadline' \in Nat
  BY SMTT(30) DEF QueueType
<1>3. QueueType' /\ RecordsInOnePlace' /\ PlaceInv'
  BY <1>1, <1>2 DEF QueueType, RecordsInOnePlace, PlaceInv
<1>4. PointerInv'
  <2>1. \A r \in Range(q_) : record[r].time \in Nat /\ record[r].time <= clock
    BY RangeOfSeq DEF QueueType, PointerInv
  <2>2. clock \in Nat
    BY DEF QueueType
  <2>3. \A r \in Range(q_') : record'[r].time <= clock'
    BY <1>1, <1>2, <2>1, <2>2
  <2> QED BY <1>1, <2>3 DEF PointerInv, Live
<1>5. WorkerInv'
  BY <1>1 DEF WorkerInv
<1>6. NeverOversleeps'
  BY <1>1 DEF NeverOversleeps, signalled
<1> QED BY <1>3, <1>4, <1>5, <1>6

\* The invariant holds at the start.
LEMMA InitInv == ASSUME Init PROVE IInv
<1>1. Range(<<>>) = {} /\ Cardinality({}) = 0
  BY FS_EmptySet DEF Range
<1>2. QueueType
  BY WorkerAssumption DEF Init, QueueType
<1>3. RecordsInOnePlace
  BY <1>1 DEF Init, RecordsInOnePlace
<1>4. PlaceInv /\ PointerInv
  BY <1>1 DEF Init, PlaceInv, PointerInv, Live, Distinct
<1>5. WorkerInv /\ NeverOversleeps
  BY DEF Init, WorkerInv, NeverOversleeps
<1> QED BY <1>2, <1>3, <1>4, <1>5 DEF IInv

\* Every step keeps it.
LEMMA NextInv == ASSUME IInv, [Next]_vars PROVE IInv'
BY AddInv, AddDelayedInv, workerTakeInv, workerMoveInv, workerSleepInv, QuietInv
   DEF Next, WorkerStep

\* The inductive invariant holds throughout.
LEMMA Invariance == Spec => []IInv
<1>1. Init => IInv
  BY InitInv
<1>2. IInv /\ [Next]_vars => IInv'
  BY NextInv
<1> QED BY <1>1, <1>2, PTL DEF Spec

-----------------------------------------------------------------------------
(* The theorems.                                                           *)

\* A record is queued, delayed or free, and once there, however records are
\* recycled.
THEOREM RecordsPlaced == Spec => []RecordsInOnePlace
<1>1. IInv => RecordsInOnePlace
  BY DEF IInv
<1> QED BY <1>1, Invariance, PTL

\* The worker never sleeps while there is something to do, nor beyond the time
\* of the earliest delayed record.
THEOREM WorkerNeverOversleeps == Spec => []NeverOversleeps
<1>1. IInv => NeverOversleeps
  BY DEF IInv
<1> QED BY <1>1, Invariance, PTL

\* What waits, in the terms of WorkQueueSpec.
waitingItems == {record[r].p : r \in Range(q_) \cup delayed_q_}

\* Adding a record is the Add of WorkQueueSpec.
LEMMA AddImplements ==
  ASSUME IInv, Len(due) < MaxItems, NEW delay \in Nat, obtain_record(delay),
         Range(q_') \cup delayed_q_' = Live \cup {obtained},
         clock' = clock, taken' = taken
  PROVE  Promise!Add
<1> USE DEF IInv
<1>1. /\ due' \in Seq(Nat) /\ Len(due') = Len(due) + 1
      /\ \A i \in 1 .. Len(due) : due'[i] = due[i]
      /\ due'[Len(due) + 1] = recordTime(delay)
      /\ record'[obtained].p = Len(due) + 1
  BY RecordWritten
<1>2. clock \in Nat /\ due \in Seq(Nat) /\ Len(due) \in Nat
  BY LenProperties DEF QueueType
<1>3. SubSeq(due', 1, Len(due)) = due
  <2>1. \A i \in 1 .. Len(due) : due'[i] \in Nat
    BY <1>1, <1>2, ElementOfSeq
  <2>2. /\ SubSeq(due', 1, Len(due)) \in Seq(Nat)
        /\ Len(SubSeq(due', 1, Len(due))) = Len(due)
        /\ \A i \in 1 .. Len(due) : SubSeq(due', 1, Len(due))[i] = due'[i]
    BY <1>2, <2>1, SubSeqProperties
  <2> QED BY <1>1, <1>2, <2>2, SeqEqual
<1>4. due'[Len(due')] = 0 \/ due'[Len(due')] > clock
  BY <1>1, <1>2 DEF recordTime
<1>5. waitingItems' = waitingItems \cup {Len(due')}
  <2>1. \A r \in Live : record'[r] = record[r]
    BY PointersAdded
  <2>2. waitingItems' = {record'[r].p : r \in Live \cup {obtained}}
    BY DEF waitingItems
  <2> QED BY <1>1, <2>1, <2>2 DEF waitingItems, Live
<1> QED BY <1>1, <1>3, <1>4, <1>5 DEF Promise!Add, waitingItems

\* Taking the first record is the Deliver of WorkQueueSpec.
LEMMA TakeImplements ==
  ASSUME IInv, workerTake
  PROVE  \E i \in waitingItems : Promise!Deliver(i)
<1> USE DEF IInv
<1> DEFINE r == Head(q_)  i == record[r].p
<1>1. /\ wpc = "take" /\ isRunning /\ q_' = Tail(q_) /\ taken' = Append(taken, i)
      /\ clock' = clock /\ delayed_q_' = delayed_q_ /\ due' = due /\ record' = record
  BY DEF workerTake
<1>2. q_ # <<>> /\ q_ \in Seq(Records)
  BY <1>1 DEF WorkerInv, QueueType
<1>3. /\ Len(q_) \in Nat /\ Len(q_) > 0 /\ r = q_[1]
      /\ Range(q_) = Range(q_') \cup {r} /\ r \notin Range(q_')
  BY <1>1, <1>2, HeadTailFacts, LenProperties DEF PlaceInv
<1>4. r \in Live /\ r \notin Live' /\ Live = Live' \cup {r}
  BY <1>1, <1>3 DEF Live, PlaceInv
<1>5. i \in waitingItems /\ due[i] = record[r].time /\ record[r].time <= clock
  BY <1>3, <1>4 DEF waitingItems, Live, PointerInv
<1>6. ASSUME due[i] = 0, NEW j \in waitingItems, due[j] = 0 PROVE i <= j
  <2>1. PICK x \in Live : j = record[x].p
    BY DEF waitingItems, Live
  <2>2. record[x].time = 0 /\ record[r].time = 0
    BY <1>5, <1>6, <2>1 DEF PointerInv
  <2>3. x \in Range(q_)
    BY <2>1, <2>2 DEF Live, PointerInv
  <2>4. PICK k \in 1 .. Len(q_) : x = q_[k]
    BY <1>2, <2>3, RangeEquality
  <2>5. i \in Nat /\ j \in Nat
    BY <1>4, <2>1 DEF PointerInv
  <2>6. CASE k = 1
    BY <1>3, <2>1, <2>4, <2>5, <2>6
  <2>7. CASE k > 1
    <3>1. record[q_[1]].p < record[q_[k]].p
      BY <1>3, <2>2, <2>4, <2>7 DEF PointerInv
    <3> QED BY <1>3, <2>1, <2>4, <2>5, <3>1
  <2> QED BY <1>3, <2>6, <2>7
<1>7. waitingItems' = waitingItems \ {i}
  <2>1. waitingItems' = {record[x].p : x \in Live'} /\ waitingItems = {record[x].p : x \in Live}
    BY <1>1 DEF waitingItems, Live
  <2>2. \A x \in Live' : record[x].p # i
    BY <1>4 DEF PointerInv
  <2> QED BY <1>4, <2>1, <2>2
<1>8. Promise!Deliver(i)
  <2> HIDE DEF i
  <2> QED BY <1>1, <1>5, <1>6, <1>7 DEF Promise!Deliver, waitingItems
<1> HIDE DEF i
<1> QED BY <1>5, <1>8 DEF Promise!Deliver

\* Moving records from one queue to the other is no step of WorkQueueSpec.
LEMMA MoveImplements ==
  ASSUME IInv, workerMove
  PROVE  waitingItems' = waitingItems /\ UNCHANGED <<clock, due, taken>>
<1> USE DEF IInv
<1>1. /\ wpc = "look" /\ delayed_q_' = delayed_q_ \ dueRecords
      /\ clock' = clock /\ due' = due /\ taken' = taken /\ record' = record
  BY DEF workerMove
<1>2. PICK s \in SetToSeqs(dueRecords) : isDueOrder(s) /\ q_' = q_ \o s
  BY DEF workerMove
<1>3. q_ = <<>>
  BY <1>1 DEF WorkerInv
<1>4. Cardinality(dueRecords) \in Nat /\ dueRecords \subseteq delayed_q_
  BY PlacesBounded, FS_Subset, FS_CardinalityType DEF dueRecords
<1>5. s \in Seq(dueRecords) /\ Range(s) = dueRecords
  BY <1>2, <1>4 DEF SetToSeqs, isDueOrder
<1>6. q_' = s /\ Range(q_) = {}
  BY <1>2, <1>3, <1>5, ConcatEmptySeq DEF Range
<1>7. Range(q_') \cup delayed_q_' = Range(q_) \cup delayed_q_
  BY <1>1, <1>4, <1>5, <1>6
<1> QED BY <1>1, <1>7 DEF waitingItems

\* WorkerQueue implements WorkQueueSpec: what was added is handed over once,
\* without delay in order, with a delay not before it is due.
THEOREM Implements == Spec => HandsOverAsPromised
<1>1. Init => Promise!Init
  BY DEF Init, Promise!Init, Range
<1>2. ASSUME IInv, [Next]_vars PROVE [Promise!Next]_<<clock, due, waitingItems, taken>>
  <2> USE <1>2 DEF IInv
  <2>1. CASE Add
    <3>1. /\ obtain_record(0) /\ Len(due) < MaxItems /\ q_' = Append(q_, obtained)
          /\ delayed_q_' = delayed_q_ /\ clock' = clock /\ taken' = taken
      BY <2>1 DEF Add, queued
    <3>2. obtained \in Records /\ q_ \in Seq(Records)
      BY <3>1, RecordObtained DEF QueueType
    <3>3. Range(q_') \cup delayed_q_' = Live \cup {obtained}
      BY <3>1, <3>2, AppendFacts DEF Live
    <3> QED BY <3>1, <3>3, AddImplements DEF Promise!Next
  <2>2. ASSUME NEW delay \in Delays, AddDelayed(delay) PROVE Promise!Next
    <3>1. Range(q_') \cup delayed_q_' = Live \cup {obtained}
      BY <2>2 DEF AddDelayed, Live
    <3> QED BY <2>2, <3>1, WorkerAssumption, AddImplements DEF AddDelayed, Promise!Next
  <2>3. CASE workerTake
    BY <2>3, TakeImplements DEF Promise!Next, waitingItems
  <2>4. CASE workerMove
    BY <2>4, MoveImplements
  <2>5. CASE Tick
    BY <2>5 DEF Tick, Promise!Next, Promise!Tick, waitingItems
  <2>6. CASE \/ workerWork \/ workerTop \/ workerLock \/ workerCheck \/ workerWait
             \/ workerTimedwait \/ workerWake \/ workerTakeStopped \/ workerProcess
             \/ workerExit \/ BeginStopping \/ StopStep \/ UNCHANGED vars
    BY <2>6 DEF workerWork, workerTop, workerLock, workerCheck, workerWait,
       workerTimedwait, workerWake, workerTakeStopped, workerProcess, workerExit,
       BeginStopping, StopStep, stopSignal, stopPoll, vars, waitingItems
  <2> QED BY <2>1, <2>2, <2>3, <2>4, <2>5, <2>6 DEF Next, WorkerStep
<1>3. ASSUME IInv, [Next]_vars
      PROVE  [Promise!Next]_<<clock, due, {record[r].p : r \in Range(q_) \cup delayed_q_}, taken>>
  BY <1>2, <1>3 DEF waitingItems
<1> QED BY <1>1, <1>3, Invariance, PTL DEF Spec, HandsOverAsPromised, Promise!Spec
=============================================================================
