--------------------------- MODULE RilTimerProofs ---------------------------
(***************************************************************************)
(* RilEvent calls timers back in the order of their timeouts, for any      *)
(* number of threads, timers and delays.                                   *)
(*                                                                         *)
(* The order of what waits is not enough: a block is freed and allocated   *)
(* again, and both overwrite its timeout.  HeldInv says that the lists     *)
(* never link a block that a callback or a caller of ril_timer_add holds.  *)
(***************************************************************************)
EXTENDS RilEventProofs

\* p is another timer than q, and no later.
Before(p, q) == p # q /\ timeout[p] <= timeout[q]

Unlisted(p) ==
  /\ \A i \in 1 .. Len(pending_list) : pending_list[i] # p
  /\ \A j \in 1 .. Len(timer_list) : timer_list[j] # p

\* What waits is in order, the expired timers before those of the list, and
\* none of it is earlier than the timer called back last.
OrderInv ==
  /\ \A i, j \in 1 .. Len(timer_list) : i < j => Before(timer_list[i], timer_list[j])
  /\ \A i, j \in 1 .. Len(pending_list) :
       i < j /\ pending_list[i] \in Timers /\ pending_list[j] \in Timers =>
         Before(pending_list[i], pending_list[j])
  /\ \A i \in 1 .. Len(pending_list), j \in 1 .. Len(timer_list) :
       pending_list[i] \in Timers => Before(pending_list[i], timer_list[j])
  /\ \A i \in 1 .. Len(pending_list) : pending_list[i] \in Timers =>
       /\ pending_list[i] \in live
       /\ lastFired <= timeout[pending_list[i]] /\ timeout[pending_list[i]] < now
  /\ \A j \in 1 .. Len(timer_list) :
       timer_list[j] \in live /\ lastFired <= timeout[timer_list[j]]
  /\ lastFired <= now

\* The block of the callback that runs, and those about to be added.
InCallback == dpc \in {"timer", "free"}
Adding(t) == tpc[t] = "timer_add"
HeldInv ==
  /\ InCallback => cur \in live /\ Unlisted(cur)
  /\ \A t \in Threads : Adding(t) =>
       /\ targ[t][1] \in live /\ Unlisted(targ[t][1])
       /\ InCallback => targ[t][1] # cur
  /\ \A t, u \in Threads : Adding(t) /\ Adding(u) /\ t # u => targ[t][1] # targ[u][1]

TimerInv == OrderInv /\ HeldInv

-----------------------------------------------------------------------------
USE DEF FdEvents, QuietPoints, listVars, timerVars, loopVars, callerVars, sockVars

(* Adding a timer.                                                         *)

\* InsertAt, element by element.
Inserted(s, i, x, k) == IF k < i THEN s[k] ELSE IF k = i THEN x ELSE s[k - 1]

LEMMA InsertAtElements ==
  ASSUME NEW S, NEW s \in Seq(S), NEW i \in 1 .. Len(s) + 1, NEW x \in S
  PROVE  /\ InsertAt(s, i, x) \in Seq(S) /\ Len(InsertAt(s, i, x)) = Len(s) + 1
         /\ \A k \in 1 .. Len(s) + 1 :
              InsertAt(s, i, x)[k] = Inserted(s, i, x, k)
<1> DEFINE n == Len(s)
           a == SubSeq(s, 1, i - 1)
           b == <<x>>
           c == SubSeq(s, i, n)
<1>1. n \in Nat /\ i \in 1 .. n + 1 /\ \A k \in 1 .. n : s[k] \in S BY LenProperties
<1>2. a \in Seq(S) /\ Len(a) = i - 1 /\ \A k \in 1 .. i - 1 : a[k] = s[k]
  <2> HIDE DEF n
  <2>1. \A k \in 1 .. i - 1 : s[k] \in S BY <1>1
  <2>2. 1 \in Int /\ i - 1 \in Int BY <1>1
  <2>3. /\ a \in Seq(S) /\ Len(a) = IF 1 <= i - 1 THEN (i - 1) - 1 + 1 ELSE 0
        /\ \A k \in 1 .. (i - 1) - 1 + 1 : a[k] = s[1 + k - 1]
    BY <2>1, <2>2, SubSeqProperties
  <2> HIDE DEF a
  <2> QED BY <1>1, <2>3
<1>3. c \in Seq(S) /\ Len(c) = n - i + 1 /\ \A k \in 1 .. n - i + 1 : c[k] = s[k + i - 1]
  <2> HIDE DEF n
  <2>1. \A k \in i .. n : s[k] \in S BY <1>1
  <2>2. i \in Int /\ n \in Int BY <1>1
  <2>3. /\ c \in Seq(S) /\ Len(c) = IF i <= n THEN n - i + 1 ELSE 0
        /\ \A k \in 1 .. n - i + 1 : c[k] = s[i + k - 1]
    BY <2>1, <2>2, SubSeqProperties
  <2> HIDE DEF c
  <2> QED BY <1>1, <2>3
<1>4. b \in Seq(S) /\ Len(b) = 1 /\ b[1] = x OBVIOUS
<1>5. InsertAt(s, i, x) = (a \o b) \o c BY DEF InsertAt
<1> HIDE DEF a, b, c, n
<1>6. /\ a \o b \in Seq(S) /\ Len(a \o b) = i
      /\ \A k \in 1 .. i : (a \o b)[k] = IF k < i THEN s[k] ELSE x
  <2>1. /\ a \o b \in Seq(S) /\ Len(a \o b) = Len(a) + Len(b)
        /\ \A k \in 1 .. Len(a) + Len(b) : (a \o b)[k] = IF k <= Len(a) THEN a[k] ELSE b[k - Len(a)]
    BY <1>2, <1>4, ConcatProperties, Zenon
  <2>2. Len(a) = i - 1 /\ Len(b) = 1 BY <1>2, <1>4
  <2>3. \A k \in 1 .. i : (a \o b)[k] = IF k <= i - 1 THEN a[k] ELSE b[k - (i - 1)]
    BY <1>1, <2>1, <2>2
  <2>4. \A k \in 1 .. i : IF k < i THEN k \in 1 .. i - 1 /\ k <= i - 1 ELSE k - (i - 1) = 1 /\ ~(k <= i - 1)
    BY <1>1
  <2>5. \A k \in 1 .. i : (a \o b)[k] = IF k < i THEN s[k] ELSE x BY <1>2, <1>4, <2>3, <2>4
  <2> QED BY <1>1, <2>1, <2>2, <2>5
<1> DEFINE ab == a \o b
<1> HIDE DEF ab
<1>7. /\ ab \in Seq(S) /\ Len(ab) = i
      /\ \A k \in 1 .. i : ab[k] = IF k < i THEN s[k] ELSE x
  BY <1>6 DEF ab
<1>8. /\ ab \o c \in Seq(S) /\ Len(ab \o c) = n + 1
      /\ \A k \in 1 .. n + 1 : (ab \o c)[k] = IF k < i THEN s[k] ELSE IF k = i THEN x ELSE s[k - 1]
  <2>1. /\ ab \o c \in Seq(S) /\ Len(ab \o c) = Len(ab) + Len(c)
        /\ \A k \in 1 .. Len(ab) + Len(c) : (ab \o c)[k] = IF k <= Len(ab) THEN ab[k] ELSE c[k - Len(ab)]
    BY <1>3, <1>7, ConcatProperties, Zenon
  <2>2. Len(ab) = i /\ Len(c) = n - i + 1 /\ Len(ab) + Len(c) = n + 1 BY <1>1, <1>3, <1>7
  <2>3. \A k \in 1 .. n + 1 : (ab \o c)[k] = IF k <= i THEN ab[k] ELSE c[k - i] BY <2>1, <2>2
  <2>4. \A k \in 1 .. n + 1 :
          IF k <= i THEN k \in 1 .. i ELSE k - i \in 1 .. n - i + 1 /\ (k - i) + i - 1 = k - 1
    BY <1>1
  <2>5. \A k \in 1 .. n + 1 : ~(k <= i) => c[k - i] = s[k - 1] BY <1>3, <2>4
  <2>6. \A k \in 1 .. n + 1 :
          (ab \o c)[k] = IF k < i THEN s[k] ELSE IF k = i THEN x ELSE s[k - 1]
    <3> TAKE k \in 1 .. n + 1
    <3> DEFINE y == (ab \o c)[k]
    <3>1. y = IF k <= i THEN ab[k] ELSE c[k - i] BY <2>3
    <3> HIDE DEF y
    <3>2. CASE k <= i
      <4>1. y = ab[k] /\ k \in 1 .. i BY <2>4, <3>1, <3>2
      <4>2. y = IF k < i THEN s[k] ELSE x BY <1>7, <4>1
      <4> QED BY <1>1, <3>2, <4>2 DEF y
    <3>3. CASE ~(k <= i)
      <4>1. y = s[k - 1] /\ ~(k < i) /\ k # i BY <1>1, <2>5, <3>1, <3>3
      <4> QED BY <4>1 DEF y
    <3> QED BY <3>2, <3>3
  <2> QED BY <2>1, <2>2, <2>6
<1> QED BY <1>5, <1>8 DEF Inserted, ab, n

\* ril_timer_add of a block that no list links: the order is kept, and no
\* other block is linked.
LEMMA AddedInOrder ==
  ASSUME TypeOK, OrderInv, NEW p \in Timers, NEW d \in Nat, ril_timer_add(p, d),
         Unlisted(p), p \in live', live \subseteq live',
         UNCHANGED <<now, pending_list, lastFired>>
  PROVE  OrderInv' /\ \A q : Unlisted(q) /\ q # p => Unlisted(q)'
<1>1. /\ timer_list \in Seq(Timers) /\ timeout \in [Timers -> Nat] /\ now \in Nat
      /\ pending_list \in Seq(FdEvents \cup Timers) /\ lastFired \in Nat
  BY DEF TypeOK, TimerType, LoopType
<1> DEFINE n == Len(timer_list)
           m == Len(pending_list)
<1>2. PICK i \in 1 .. n + 1 :
        /\ isInsertionPoint(i, now + d)
        /\ timer_list' = InsertAt(timer_list, i, p)
  BY DEF ril_timer_add
<1>3. n \in Nat /\ m \in Nat /\ \A k \in 1 .. n : timer_list[k] \in Timers BY <1>1
<1>4. /\ Len(timer_list') = n + 1
      /\ \A k \in 1 .. n + 1 :
           timer_list'[k] = IF k < i THEN timer_list[k] ELSE IF k = i THEN p ELSE timer_list[k - 1]
  <2>1. timer_list \in Seq(Timers) /\ i \in 1 .. Len(timer_list) + 1 BY <1>1, <1>2
  <2>2. /\ Len(InsertAt(timer_list, i, p)) = Len(timer_list) + 1
        /\ \A k \in 1 .. Len(timer_list) + 1 :
             InsertAt(timer_list, i, p)[k] = Inserted(timer_list, i, p, k)
    BY <2>1, InsertAtElements, ZenonT(60)
  <2> QED BY <1>2, <2>2, Zenon DEF Inserted
<1>5. /\ timeout'[p] = now + d
      /\ \A q \in Timers \ {p} : timeout'[q] = timeout[q]
  BY <1>1 DEF ril_timer_add
<1>6. /\ \A k \in 1 .. n : timer_list[k] # p
      /\ \A k \in 1 .. m : pending_list[k] # p
  BY DEF Unlisted
<1>7. /\ \A k \in 1 .. i - 1 : timeout[timer_list[k]] < now + d
      /\ i <= n => timeout[timer_list[i]] >= now + d
  BY <1>2 DEF isInsertionPoint
<1> HIDE DEF n, m
<1>8. \A j \in i .. n : timeout[timer_list[j]] >= now + d
  <2> SUFFICES ASSUME NEW j \in i .. n PROVE timeout[timer_list[j]] >= now + d OBVIOUS
  <2>1. i \in 1 .. n /\ j \in 1 .. n /\ timeout[timer_list[i]] >= now + d BY <1>2, <1>3, <1>7
  <2>2. i < j => timeout[timer_list[i]] <= timeout[timer_list[j]]
    BY <2>1 DEF OrderInv, Before, n
  <2>3. timeout[timer_list[i]] \in Nat /\ timeout[timer_list[j]] \in Nat BY <1>1, <1>3, <2>1
  <2> QED BY <1>1, <1>2, <2>1, <2>2, <2>3
<1>9. \A k \in 1 .. n + 1 : timer_list'[k] # p =>
        \E j \in 1 .. n : timer_list'[k] = timer_list[j]
  BY <1>2, <1>3, <1>4
<1>10. \A q : Unlisted(q) /\ q # p => Unlisted(q)'
  BY <1>4, <1>9 DEF Unlisted, n
<1>11. \A k, l \in 1 .. n + 1 : k < l => Before(timer_list[k], timer_list[l])'
  <2> SUFFICES ASSUME NEW k \in 1 .. n + 1, NEW l \in 1 .. n + 1, k < l
               PROVE  /\ timer_list'[k] # timer_list'[l]
                      /\ timeout'[timer_list'[k]] <= timeout'[timer_list'[l]]
    BY DEF Before
  <2>1. \A x, y \in 1 .. n : x < y =>
          timer_list[x] # timer_list[y] /\ timeout[timer_list[x]] <= timeout[timer_list[y]]
    BY DEF OrderInv, Before, n
  <2>2. \A x \in 1 .. n : timeout'[timer_list[x]] = timeout[timer_list[x]] /\ timeout[timer_list[x]] \in Nat
    BY <1>1, <1>3, <1>5, <1>6
  <2>3. CASE k = i
    <3>1. timer_list'[k] = p /\ timer_list'[l] = timer_list[l - 1] /\ l - 1 \in i .. n /\ l - 1 \in 1 .. n
      BY <1>2, <1>3, <1>4, <2>3
    <3>2. timeout[timer_list[l - 1]] >= now + d BY <1>8, <3>1
    <3> QED BY <1>1, <1>5, <1>6, <2>2, <3>1, <3>2
  <2>4. CASE l = i
    <3>1. timer_list'[l] = p /\ timer_list'[k] = timer_list[k] /\ k \in 1 .. i - 1 /\ k \in 1 .. n
      BY <1>2, <1>3, <1>4, <2>4
    <3>2. timeout[timer_list[k]] < now + d BY <1>7, <3>1
    <3> QED BY <1>1, <1>5, <1>6, <2>2, <3>1, <3>2
  <2>5. CASE k # i /\ l # i
    <3> DEFINE x == IF k < i THEN k ELSE k - 1
               y == IF l < i THEN l ELSE l - 1
    <3>1. /\ timer_list'[k] = timer_list[x] /\ timer_list'[l] = timer_list[y]
          /\ x \in 1 .. n /\ y \in 1 .. n /\ x < y
      BY <1>2, <1>3, <1>4, <2>5
    <3> HIDE DEF x, y
    <3> QED BY <2>1, <2>2, <3>1
  <2> QED BY <2>3, <2>4, <2>5
<1>12. \A k \in 1 .. m : pending_list[k] \in Timers =>
         /\ pending_list[k] # p /\ pending_list[k] \in live'
         /\ timeout'[pending_list[k]] = timeout[pending_list[k]]
         /\ timeout[pending_list[k]] \in Nat
         /\ lastFired <= timeout[pending_list[k]] /\ timeout[pending_list[k]] < now
  BY <1>1, <1>5, <1>6 DEF OrderInv, m
<1>13. \A k \in 1 .. m, l \in 1 .. n + 1 :
         pending_list[k] \in Timers => Before(pending_list[k], timer_list[l])'
  <2> SUFFICES ASSUME NEW k \in 1 .. m, NEW l \in 1 .. n + 1, pending_list[k] \in Timers
               PROVE  /\ pending_list'[k] # timer_list'[l]
                      /\ timeout'[pending_list'[k]] <= timeout'[timer_list'[l]]
    BY DEF Before
  <2>1. CASE timer_list'[l] = p
    <3> DEFINE t == timeout[pending_list[k]]
    <3>1. t \in Nat /\ t < now /\ now \in Nat BY <1>1, <1>12
    <3>2. t <= now + d
      <4> HIDE DEF t
      <4> QED BY <3>1
    <3> QED BY <1>5, <1>12, <2>1, <3>2
  <2>2. CASE timer_list'[l] # p
    <3>1. PICK j \in 1 .. n : timer_list'[l] = timer_list[j] BY <1>9, <2>2
    <3>2. pending_list[k] # timer_list[j] /\ timeout[pending_list[k]] <= timeout[timer_list[j]]
      BY DEF OrderInv, Before, n, m
    <3>3. timeout'[timer_list[j]] = timeout[timer_list[j]] BY <1>3, <1>5, <1>6
    <3> QED BY <1>12, <3>1, <3>2, <3>3
  <2> QED BY <2>1, <2>2
<1>14. \A k, l \in 1 .. m : k < l /\ pending_list[k] \in Timers /\ pending_list[l] \in Timers =>
         Before(pending_list[k], pending_list[l])'
  BY <1>12 DEF OrderInv, Before, m
<1>15. \A l \in 1 .. n + 1 : timer_list'[l] \in live' /\ lastFired <= timeout'[timer_list'[l]]
  <2> SUFFICES ASSUME NEW l \in 1 .. n + 1
               PROVE  timer_list'[l] \in live' /\ lastFired <= timeout'[timer_list'[l]]
    OBVIOUS
  <2>1. CASE timer_list'[l] = p
    <3>1. lastFired <= now BY DEF OrderInv
    <3> QED BY <1>1, <1>5, <2>1, <3>1
  <2>2. CASE timer_list'[l] # p
    <3>1. PICK j \in 1 .. n : timer_list'[l] = timer_list[j] BY <1>9, <2>2
    <3>2. timer_list[j] \in live /\ lastFired <= timeout[timer_list[j]] BY DEF OrderInv, n
    <3>3. timeout'[timer_list[j]] = timeout[timer_list[j]] BY <1>3, <1>5, <1>6
    <3> QED BY <3>1, <3>2, <3>3
  <2> QED BY <2>1, <2>2
<1>16. OrderInv'
  <2>1. lastFired' <= now' BY DEF OrderInv
  <2>2. Len(timer_list') = n + 1 /\ Len(pending_list') = m BY <1>4 DEF m
  <2> QED BY <1>11, <1>12, <1>13, <1>14, <1>15, <2>1, <2>2 DEF OrderInv
<1> QED BY <1>10, <1>16

\* A block that is not live is in no list.
LEMMA FreshUnlisted ==
  ASSUME OrderInv, NEW p \in Timers \ live
  PROVE  Unlisted(p)
BY DEF OrderInv, Unlisted

\* A timer requested on the dispatch thread.
LEMMA DispatchTimerOrder ==
  ASSUME TypeOK, TimerInv, NEW d \in Nat, DispatchTimer(d),
         UNCHANGED <<now, loopVars, callerVars>>, InCallback' => InCallback
  PROVE  TimerInv'
<1>1. PICK p \in Timers \ live : ril_timer_add(p, d) /\ live' = live \cup {p}
  BY DEF DispatchTimer
<1>2. Unlisted(p) BY FreshUnlisted DEF TimerInv
<1>3. OrderInv' /\ \A q : Unlisted(q) /\ q # p => Unlisted(q)'
  BY <1>1, <1>2, AddedInOrder DEF TimerInv
<1>4. HeldInv'
  <2>1. InCallback' => cur' \in live' /\ Unlisted(cur)'
    <3>1. InCallback => cur \in live /\ Unlisted(cur) BY DEF TimerInv, HeldInv
    <3>2. \A q : q = cur /\ Unlisted(q) /\ q # p => Unlisted(cur)' BY <1>3 DEF Unlisted
    <3> QED BY <1>1, <3>1, <3>2
  <2>2. ASSUME NEW t \in Threads, Adding(t)'
        PROVE  /\ targ'[t][1] \in live' /\ Unlisted(targ[t][1])'
               /\ InCallback' => targ'[t][1] # cur'
    <3>1. /\ targ[t][1] \in live /\ Unlisted(targ[t][1])
          /\ InCallback => targ[t][1] # cur
      BY <2>2 DEF TimerInv, HeldInv, Adding
    <3>2. \A q : q = targ[t][1] /\ Unlisted(q) /\ q # p => Unlisted(targ[t][1])'
      BY <1>3 DEF Unlisted
    <3> QED BY <1>1, <3>1, <3>2
  <2>3. \A t, u \in Threads : Adding(t)' /\ Adding(u)' /\ t # u => targ'[t][1] # targ'[u][1]
    BY DEF TimerInv, HeldInv, Adding
  <2> QED BY <2>1, <2>2, <2>3 DEF HeldInv
<1> QED BY <1>3, <1>4 DEF TimerInv

\* A step that touches no timer, and starts no callback of one.
LEMMA OtherOrder ==
  ASSUME TimerInv, UNCHANGED <<now, timerVars, pending_list, cur, lastFired>>,
         InCallback' => InCallback,
         \A t \in Threads : Adding(t)' => Adding(t) /\ targ'[t] = targ[t]
  PROVE  TimerInv'
<1>1. OrderInv' BY DEF TimerInv, OrderInv, Before
<1>2. HeldInv' BY DEF TimerInv, HeldInv, Unlisted
<1> QED BY <1>1, <1>2 DEF TimerInv

\* Expired timers change lists: those of the front, in their order.
LEMMA processTimeoutsOrder == ASSUME IInv, TimerInv, processTimeouts PROVE TimerInv'
<1>1. pending_list = <<>> BY DEF IInv, processTimeouts, PendingInv
<1>2. PICK n \in 0 .. Len(timer_list) :
        /\ \A i \in 1 .. n : Expired(timer_list[i])
        /\ pending_list' = pending_list \o SubSeq(timer_list, 1, n)
        /\ timer_list' = SubSeq(timer_list, n + 1, Len(timer_list))
  BY DEF processTimeouts
<1>3. timer_list \in Seq(Timers) /\ timeout \in [Timers -> Nat] /\ now \in Nat
  BY DEF IInv, TypeOK, TimerType
<1> DEFINE m == Len(timer_list)
           a == SubSeq(timer_list, 1, n)
           b == SubSeq(timer_list, n + 1, m)
<1>4. m \in Nat /\ n \in 0 .. m /\ \A k \in 1 .. m : timer_list[k] \in Timers
  BY <1>2, <1>3
<1>5. a \in Seq(Timers) /\ Len(a) = n /\ \A k \in 1 .. n : a[k] = timer_list[k]
  <2> HIDE DEF m
  <2>1. \A k \in 1 .. n : timer_list[k] \in Timers BY <1>4
  <2>2. 1 \in Int /\ n \in Int BY <1>4
  <2>3. /\ a \in Seq(Timers) /\ Len(a) = IF 1 <= n THEN n - 1 + 1 ELSE 0
        /\ \A k \in 1 .. n - 1 + 1 : a[k] = timer_list[1 + k - 1]
    BY <2>1, <2>2, SubSeqProperties
  <2> HIDE DEF a
  <2> QED BY <1>4, <2>3
<1>6. Len(b) = m - n /\ \A k \in 1 .. m - n : b[k] = timer_list[n + k]
  <2> HIDE DEF m
  <2>1. \A k \in n + 1 .. m : timer_list[k] \in Timers BY <1>4
  <2>2. n + 1 \in Int /\ m \in Int BY <1>4
  <2>3. /\ Len(b) = IF n + 1 <= m THEN m - (n + 1) + 1 ELSE 0
        /\ \A k \in 1 .. m - (n + 1) + 1 : b[k] = timer_list[(n + 1) + k - 1]
    BY <2>1, <2>2, SubSeqProperties
  <2> HIDE DEF b
  <2> QED BY <1>4, <2>3
<1>7. pending_list' = a /\ timer_list' = b
  BY <1>1, <1>2, <1>5, ConcatEmptySeq
<1>8. UNCHANGED <<now, timeout, live, cur, lastFired, tpc, targ>> /\ ~ InCallback'
  BY DEF processTimeouts, InCallback
<1> HIDE DEF a, b, m
<1>9. \A k \in 1 .. n : k \in 1 .. m /\ timer_list[k] \in Timers /\ timeout[timer_list[k]] < now
  BY <1>2, <1>3, <1>4 DEF Expired
<1>10. \A k \in 1 .. m - n : n + k \in 1 .. m /\ n < n + k BY <1>4
<1>11. /\ \A x, y \in 1 .. m : x < y => Before(timer_list[x], timer_list[y])
       /\ \A x \in 1 .. m : timer_list[x] \in live /\ lastFired <= timeout[timer_list[x]]
       /\ lastFired <= now
  BY DEF TimerInv, OrderInv, m
<1>12. \A x, y \in Timers : Before(x, y) => x # y /\ timeout'[x] <= timeout'[y]
  BY <1>8 DEF Before
<1>13. OrderInv'
  <2>1. \A x, y \in 1 .. m - n : x < y => n + x < n + y BY <1>4
  <2>2. \A x, y \in 1 .. m - n : x < y => Before(timer_list[x], timer_list[y])'
    BY <1>6, <1>7, <1>8, <1>10, <1>11, <2>1 DEF Before
  <2>3. \A x, y \in 1 .. n : x < y => Before(pending_list[x], pending_list[y])'
    BY <1>5, <1>7, <1>8, <1>9, <1>11 DEF Before
  <2>4. \A x \in 1 .. n, y \in 1 .. m - n : x < n + y BY <1>4
  <2>5. \A x \in 1 .. n, y \in 1 .. m - n : Before(pending_list[x], timer_list[y])'
    <3> TAKE x \in 1 .. n, y \in 1 .. m - n
    <3>1. Before(timer_list[x], timer_list[n + y]) BY <1>9, <1>10, <1>11, <2>4
    <3>2. pending_list'[x] = timer_list[x] /\ timer_list'[y] = timer_list[n + y]
      BY <1>5, <1>6, <1>7
    <3> QED BY <1>8, <3>1, <3>2 DEF Before
  <2>6. \A x \in 1 .. n :
          /\ pending_list'[x] \in live' /\ lastFired' <= timeout'[pending_list'[x]]
          /\ timeout'[pending_list'[x]] < now'
    BY <1>5, <1>7, <1>8, <1>9, <1>11
  <2>7. \A y \in 1 .. m - n : timer_list'[y] \in live' /\ lastFired' <= timeout'[timer_list'[y]]
    BY <1>6, <1>7, <1>8, <1>10, <1>11
  <2>8. Len(pending_list') = n /\ Len(timer_list') = m - n /\ lastFired' <= now'
    BY <1>5, <1>6, <1>7, <1>8, <1>11
  <2> QED BY <2>2, <2>3, <2>5, <2>6, <2>7, <2>8 DEF OrderInv
<1>14. \A q : Unlisted(q) => (\A x \in 1 .. m : timer_list[x] # q) BY DEF Unlisted, m
<1>15. HeldInv'
  <2>1. ASSUME NEW t \in Threads, Adding(t)'
        PROVE  targ'[t][1] \in live' /\ Unlisted(targ[t][1])'
    <3>1. targ[t][1] \in live /\ Unlisted(targ[t][1])
      BY <1>8, <2>1 DEF TimerInv, HeldInv, Adding
    <3> DEFINE q == targ[t][1]
    <3>2. \A x \in 1 .. m : timer_list[x] # q BY <1>14, <3>1
    <3>3. (\A x \in 1 .. n : a[x] # q) /\ (\A x \in 1 .. m - n : b[x] # q)
      <4> HIDE DEF q
      <4>1. \A x \in 1 .. n : a[x] # q BY <1>5, <1>9, <3>2
      <4>2. \A x \in 1 .. m - n : b[x] # q BY <1>6, <1>10, <3>2
      <4> QED BY <4>1, <4>2
    <3> QED BY <1>5, <1>6, <1>7, <1>8, <3>1, <3>3 DEF Unlisted
  <2>2. \A t, u \in Threads : Adding(t)' /\ Adding(u)' /\ t # u => targ'[t][1] # targ'[u][1]
    BY <1>8 DEF TimerInv, HeldInv, Adding
  <2> QED BY <1>8, <2>1, <2>2 DEF HeldInv
<1> QED BY <1>13, <1>15 DEF TimerInv

\* Ready descriptors come after the timers that have expired.
LEMMA ReadiesAppended ==
  ASSUME IInv, processReadReadies
  PROVE  /\ Len(pending_list) \in Nat /\ Len(pending_list') \in Nat
         /\ Len(pending_list) <= Len(pending_list')
         /\ \A k \in 1 .. Len(pending_list) : pending_list'[k] = pending_list[k]
         /\ \A k \in 1 .. Len(pending_list') : k > Len(pending_list) => pending_list'[k] \in FdEvents
<1>1. /\ ReadySlots \subseteq Slots
      /\ \A i \in ReadySlots : watch_table[i] \in FdEvents
  BY DEF ReadySlots, IInv, TypeOK, TableType
<1> DEFINE n == Cardinality(ReadySlots)
<1>2. n \in Nat
  <2>1. IsFiniteSet(Slots) BY EventsAssumption, FS_Interval, 0 \in Int, MAX_FD_EVENTS - 1 \in Int DEF Slots
  <2> QED BY <1>1, <2>1, FS_Subset, FS_CardinalityType
<1>3. PICK walk \in [1 .. n -> ReadySlots] :
        pending_list' = pending_list \o [k \in DOMAIN walk |-> watch_table[walk[k]]]
  BY DEF processReadReadies
<1> DEFINE fired == [k \in 1 .. n |-> watch_table[walk[k]]]
           S == FdEvents \cup Timers
<1>4. fired \in Seq(S) /\ Len(fired) = n /\ \A k \in 1 .. n : fired[k] \in FdEvents
  <2> HIDE DEF n
  <2>1. \A k \in 1 .. n : watch_table[walk[k]] \in FdEvents BY <1>1, <1>3
  <2> QED BY <1>2, <2>1
<1>5. pending_list \in Seq(S) /\ pending_list' = pending_list \o fired
  BY <1>3 DEF IInv, TypeOK, LoopType
<1> HIDE DEF n, fired, S
<1> DEFINE m == Len(pending_list)
<1>6. m \in Nat BY <1>5
<1>7. /\ Len(pending_list') = m + Len(fired)
      /\ \A k \in 1 .. m + Len(fired) :
           pending_list'[k] = IF k <= m THEN pending_list[k] ELSE fired[k - m]
  BY <1>4, <1>5, ConcatProperties, Zenon
<1>8. Len(pending_list') = m + n /\ 1 .. m \subseteq 1 .. m + Len(fired)
  BY <1>2, <1>4, <1>6, <1>7
<1> HIDE DEF m
<1>9. \A k \in 1 .. m : pending_list'[k] = pending_list[k] BY <1>6, <1>7, <1>8
<1>10. \A k \in 1 .. m + n : k > m => pending_list'[k] = fired[k - m] /\ k - m \in 1 .. n
  BY <1>2, <1>4, <1>6, <1>7
<1>11. \A k \in 1 .. m + n : k > m => pending_list'[k] \in FdEvents BY <1>4, <1>10
<1> QED BY <1>2, <1>6, <1>8, <1>9, <1>11 DEF m

LEMMA processReadReadiesOrder == ASSUME IInv, TimerInv, processReadReadies PROVE TimerInv'
<1> DEFINE m == Len(pending_list)
           l == Len(pending_list')
<1>1. /\ m \in Nat /\ l \in Nat /\ m <= l
      /\ \A k \in 1 .. m : pending_list'[k] = pending_list[k]
      /\ \A k \in 1 .. l : k > m => pending_list'[k] \in FdEvents
  BY ReadiesAppended
<1>2. UNCHANGED <<now, timer_list, timeout, live, cur, lastFired, tpc, targ>> /\ ~ InCallback'
  BY DEF processReadReadies, InCallback
<1>3. FdEvents \cap Timers = {} BY EventsAssumption
<1> HIDE DEF m, l
<1>4. \A k \in 1 .. l : pending_list'[k] \in Timers => k \in 1 .. m /\ pending_list'[k] = pending_list[k]
  BY <1>1, <1>3
<1>5. OrderInv'
  <2> DEFINE n == Len(timer_list)
  <2>1. /\ \A i, j \in 1 .. n : i < j => Before(timer_list[i], timer_list[j])
        /\ \A i, j \in 1 .. m : i < j /\ pending_list[i] \in Timers /\ pending_list[j] \in Timers =>
             Before(pending_list[i], pending_list[j])
        /\ \A i \in 1 .. m, j \in 1 .. n : pending_list[i] \in Timers => Before(pending_list[i], timer_list[j])
        /\ \A i \in 1 .. m : pending_list[i] \in Timers =>
             /\ pending_list[i] \in live
             /\ lastFired <= timeout[pending_list[i]] /\ timeout[pending_list[i]] < now
        /\ \A j \in 1 .. n : timer_list[j] \in live /\ lastFired <= timeout[timer_list[j]]
        /\ lastFired <= now
    BY DEF TimerInv, OrderInv, m
  <2>2. Len(timer_list') = n /\ Len(pending_list') = l BY <1>2 DEF l
  <2> HIDE DEF n
  <2>3. \A i, j \in 1 .. n : i < j => Before(timer_list[i], timer_list[j])' BY <1>2, <2>1 DEF Before
  <2>4. \A i, j \in 1 .. l :
          i < j /\ pending_list'[i] \in Timers /\ pending_list'[j] \in Timers =>
            Before(pending_list[i], pending_list[j])'
    BY <1>2, <1>4, <2>1 DEF Before
  <2>5. \A i \in 1 .. l, j \in 1 .. n :
          pending_list'[i] \in Timers => Before(pending_list[i], timer_list[j])'
    BY <1>2, <1>4, <2>1 DEF Before
  <2>6. \A i \in 1 .. l : pending_list'[i] \in Timers =>
          /\ pending_list'[i] \in live'
          /\ lastFired' <= timeout'[pending_list'[i]] /\ timeout'[pending_list'[i]] < now'
    BY <1>2, <1>4, <2>1
  <2> QED BY <1>2, <2>1, <2>2, <2>3, <2>4, <2>5, <2>6 DEF OrderInv
<1>6. HeldInv'
  <2>1. ASSUME NEW t \in Threads, Adding(t)'
        PROVE  targ'[t][1] \in live' /\ Unlisted(targ[t][1])'
    <3> DEFINE q == targ[t][1]
    <3>1. q \in live /\ Unlisted(q) BY <1>2, <2>1 DEF TimerInv, HeldInv, Adding
    <3>2. q \in Timers BY <3>1 DEF IInv, TypeOK, TimerType
    <3>3. q = targ'[t][1] BY <1>2
    <3>4. \A k \in 1 .. m : pending_list[k] # q BY <3>1 DEF Unlisted, m
    <3>5. \A k \in 1 .. l : pending_list'[k] # q
      <4> HIDE DEF q
      <4> QED BY <1>4, <3>2, <3>4
    <3> QED BY <1>2, <3>1, <3>5 DEF Unlisted, l
  <2>2. \A t, u \in Threads : Adding(t)' /\ Adding(u)' /\ t # u => targ'[t][1] # targ'[u][1]
    BY <1>2 DEF TimerInv, HeldInv, Adding
  <2> QED BY <1>2, <2>1, <2>2 DEF HeldInv
<1> QED BY <1>5, <1>6 DEF TimerInv

\* firePending takes the first of what waits, so nothing left is earlier.
LEMMA firePendingOrder ==
  ASSUME IInv, TimerInv, firePending
  PROVE  TimerInv' /\ lastFired' >= lastFired
<1>1. /\ timer_list \in Seq(Timers) /\ timeout \in [Timers -> Nat] /\ now \in Nat
      /\ pending_list \in Seq(FdEvents \cup Timers) /\ lastFired \in Nat /\ live \subseteq Timers
  BY DEF IInv, TypeOK, TimerType, LoopType
<1>2. /\ UNCHANGED <<now, timer_list, timeout, live, tpc, targ>> /\ dpc = "fire"
  BY DEF firePending
<1>3. CASE pending_list = <<>>
  <2>1. dpc' = "copy" /\ UNCHANGED <<pending_list, cur, lastFired>> BY <1>3 DEF firePending
  <2>2. TimerInv' BY <1>2, <2>1, OtherOrder DEF InCallback, Adding
  <2> QED BY <1>1, <2>1, <2>2
<1>4. CASE pending_list # <<>>
  <2> DEFINE e == Head(pending_list)
             m == Len(pending_list)
             n == Len(timer_list)
  <2>1. /\ e = pending_list[1] /\ e \in FdEvents \cup Timers /\ m \in Nat \ {0}
        /\ Len(pending_list') = m - 1
        /\ \A k \in 1 .. m - 1 : pending_list'[k] = pending_list[k + 1]
    <3>1. pending_list' = Tail(pending_list) BY <1>4 DEF firePending
    <3> DEFINE S == FdEvents \cup Timers
    <3>2. pending_list \in Seq(S) BY <1>1
    <3>3. e \in S /\ e = pending_list[1]
      <4> HIDE DEF S
      <4> QED BY <1>4, <3>2
    <3>4. m \in Nat \ {0} BY <1>4, <3>2, LenProperties
    <3>5. Len(pending_list') = m - 1 /\ \A k \in 1 .. m - 1 : pending_list'[k] = pending_list[k + 1]
      <4> HIDE DEF S
      <4> QED BY <1>4, <3>1, <3>2, HeadTailProperties, LenProperties
    <3> QED BY <3>3, <3>4, <3>5
  <2>2. IF e \in Timers THEN dpc' = "timer" /\ cur' = e /\ lastFired' = timeout[e]
        ELSE dpc' = e /\ cur' = cur /\ lastFired' = lastFired
    BY <1>4 DEF firePending
  <2>3. /\ \A i, j \in 1 .. n : i < j => Before(timer_list[i], timer_list[j])
        /\ \A i, j \in 1 .. m : i < j /\ pending_list[i] \in Timers /\ pending_list[j] \in Timers =>
             Before(pending_list[i], pending_list[j])
        /\ \A i \in 1 .. m, j \in 1 .. n : pending_list[i] \in Timers => Before(pending_list[i], timer_list[j])
        /\ \A i \in 1 .. m : pending_list[i] \in Timers =>
             /\ pending_list[i] \in live
             /\ lastFired <= timeout[pending_list[i]] /\ timeout[pending_list[i]] < now
        /\ \A j \in 1 .. n : timer_list[j] \in live /\ lastFired <= timeout[timer_list[j]]
        /\ lastFired <= now
    BY DEF TimerInv, OrderInv
  <2>4. Len(timer_list') = n BY <1>2
  <2> HIDE DEF e, m, n
  <2>5. 1 \in 1 .. m /\ \A k \in 1 .. m - 1 : k + 1 \in 1 .. m /\ 1 < k + 1 BY <2>1
  <2>6. \A k, l \in 1 .. m - 1 : k < l => k + 1 < l + 1 BY <2>1
  <2>7. e \in Timers =>
          /\ e \in live /\ lastFired <= timeout[e] /\ timeout[e] < now
          /\ \A k \in 1 .. m - 1 : pending_list[k + 1] \in Timers => Before(e, pending_list[k + 1])
          /\ \A j \in 1 .. n : Before(e, timer_list[j])
    BY <2>1, <2>3, <2>5
  <2>8. lastFired' >= lastFired /\ lastFired' <= now'
    <3>1. CASE e \in Timers
      <4>1. timeout[e] \in Nat BY <1>1, <3>1
      <4> QED BY <1>1, <1>2, <2>2, <2>7, <3>1, <4>1
    <3>2. CASE e \notin Timers BY <1>1, <1>2, <2>2, <2>3, <3>2
    <3> QED BY <3>1, <3>2
  <2>9. /\ \A k \in 1 .. m - 1 : pending_list[k + 1] \in Timers =>
             lastFired' <= timeout[pending_list[k + 1]]
        /\ \A j \in 1 .. n : lastFired' <= timeout[timer_list[j]]
    BY <2>2, <2>3, <2>5, <2>7 DEF Before
  <2>10. OrderInv'
    <3>1. \A i, j \in 1 .. n : i < j => Before(timer_list[i], timer_list[j])' BY <1>2, <2>3 DEF Before
    <3>2. \A i, j \in 1 .. m - 1 :
            i < j /\ pending_list'[i] \in Timers /\ pending_list'[j] \in Timers =>
              Before(pending_list[i], pending_list[j])'
      <4> SUFFICES ASSUME NEW i \in 1 .. m - 1, NEW j \in 1 .. m - 1, i < j,
                          pending_list'[i] \in Timers, pending_list'[j] \in Timers
                   PROVE  Before(pending_list[i], pending_list[j])'
        OBVIOUS
      <4>1. pending_list'[i] = pending_list[i + 1] /\ pending_list'[j] = pending_list[j + 1] BY <2>1
      <4>2. i + 1 \in 1 .. m /\ j + 1 \in 1 .. m /\ i + 1 < j + 1 BY <2>5, <2>6
      <4>3. Before(pending_list[i + 1], pending_list[j + 1]) BY <2>3, <4>1, <4>2
      <4> QED BY <1>2, <4>1, <4>3 DEF Before
    <3>3. \A i \in 1 .. m - 1, j \in 1 .. n :
            pending_list'[i] \in Timers => Before(pending_list[i], timer_list[j])'
      BY <1>2, <2>1, <2>3, <2>5, SMTT(30) DEF Before
    <3>4. \A i \in 1 .. m - 1 : pending_list'[i] \in Timers =>
            /\ pending_list'[i] \in live'
            /\ lastFired' <= timeout'[pending_list'[i]] /\ timeout'[pending_list'[i]] < now'
      BY <1>2, <2>1, <2>3, <2>5, <2>9
    <3>5. \A j \in 1 .. n : timer_list'[j] \in live' /\ lastFired' <= timeout'[timer_list'[j]]
      BY <1>2, <2>3, <2>9
    <3> QED BY <2>1, <2>4, <2>8, <3>1, <3>2, <3>3, <3>4, <3>5 DEF OrderInv
  <2>11. HeldInv'
    <3>1. InCallback' <=> e \in Timers BY <2>1, <2>2 DEF InCallback
    <3>2. e \in Timers => cur' \in live' /\ Unlisted(cur)'
      <4>1. e \in Timers => \A k \in 1 .. m - 1 : pending_list[k + 1] # e BY <2>7 DEF Before
      <4>2. e \in Timers => \A j \in 1 .. n : timer_list[j] # e BY <2>7 DEF Before
      <4> QED BY <1>2, <2>1, <2>2, <2>4, <2>7, <4>1, <4>2 DEF Unlisted
    <3>3. ASSUME NEW t \in Threads, Adding(t)'
          PROVE  /\ targ'[t][1] \in live' /\ Unlisted(targ[t][1])'
                 /\ InCallback' => targ'[t][1] # cur'
      <4> DEFINE q == targ[t][1]
      <4>1. q \in live /\ Unlisted(q) /\ q = targ'[t][1]
        BY <1>2, <3>3 DEF TimerInv, HeldInv, Adding
      <4> HIDE DEF q
      <4>2. (\A k \in 1 .. m : pending_list[k] # q) /\ (\A j \in 1 .. n : timer_list[j] # q)
        BY <4>1 DEF Unlisted, m, n
      <4>3. \A k \in 1 .. m - 1 : pending_list'[k] # q BY <2>1, <2>5, <4>2
      <4>4. e # q BY <2>1, <2>5, <4>2
      <4> QED BY <1>2, <2>1, <2>2, <2>4, <3>1, <4>1, <4>2, <4>3, <4>4 DEF Unlisted
    <3>4. \A t, u \in Threads : Adding(t)' /\ Adding(u)' /\ t # u => targ'[t][1] # targ'[u][1]
      BY <1>2 DEF TimerInv, HeldInv, Adding
    <3> QED BY <3>1, <3>2, <3>3, <3>4 DEF HeldInv
  <2> QED BY <2>8, <2>10, <2>11 DEF TimerInv
<1> QED BY <1>3, <1>4

\* The block that is freed is in no list.
LEMMA userTimerFreeOrder == ASSUME IInv, TimerInv, userTimerFree PROVE TimerInv'
<1>1. /\ live' = live \ {cur} /\ timeout' = [timeout EXCEPT ![cur] = 0] /\ InCallback /\ ~ InCallback'
      /\ UNCHANGED <<now, timer_list, pending_list, lastFired, tpc, targ>>
  BY DEF userTimerFree, InCallback
<1>2. cur \in live /\ Unlisted(cur) BY <1>1 DEF TimerInv, HeldInv
<1>3. /\ timeout \in [Timers -> Nat] /\ timer_list \in Seq(Timers) BY DEF IInv, TypeOK, TimerType
<1>4. \A q \in Timers \ {cur} : timeout'[q] = timeout[q] /\ (q \in live => q \in live')
  BY <1>1, <1>3
<1>5. /\ \A i \in 1 .. Len(pending_list) : pending_list[i] # cur
      /\ \A j \in 1 .. Len(timer_list) : timer_list[j] # cur /\ timer_list[j] \in Timers
  BY <1>2, <1>3 DEF Unlisted
<1>6. OrderInv'
  <2>1. \A p, q \in Timers \ {cur} : Before(p, q) => p # q /\ timeout'[p] <= timeout'[q]
    BY <1>4 DEF Before
  <2>2. \A i, j \in 1 .. Len(timer_list) : i < j => Before(timer_list[i], timer_list[j])'
    BY <1>1, <1>4, <1>5 DEF TimerInv, OrderInv, Before
  <2>3. \A i, j \in 1 .. Len(pending_list) :
          i < j /\ pending_list[i] \in Timers /\ pending_list[j] \in Timers =>
            Before(pending_list[i], pending_list[j])'
    BY <1>1, <1>4, <1>5 DEF TimerInv, OrderInv, Before
  <2>4. \A i \in 1 .. Len(pending_list), j \in 1 .. Len(timer_list) :
          pending_list[i] \in Timers => Before(pending_list[i], timer_list[j])'
    BY <1>1, <1>4, <1>5 DEF TimerInv, OrderInv, Before
  <2>5. \A i \in 1 .. Len(pending_list) : pending_list[i] \in Timers =>
          /\ pending_list[i] \in live'
          /\ lastFired <= timeout'[pending_list[i]] /\ timeout'[pending_list[i]] < now
    BY <1>4, <1>5 DEF TimerInv, OrderInv
  <2>6. \A j \in 1 .. Len(timer_list) : timer_list[j] \in live' /\ lastFired <= timeout'[timer_list[j]]
    BY <1>4, <1>5 DEF TimerInv, OrderInv
  <2>7. lastFired <= now BY DEF TimerInv, OrderInv
  <2> QED BY <1>1, <2>2, <2>3, <2>4, <2>5, <2>6, <2>7 DEF OrderInv
<1>7. HeldInv' BY <1>1 DEF TimerInv, HeldInv, Unlisted, Adding
<1> QED BY <1>6, <1>7 DEF TimerInv

\* A thread allocates a block nobody has...
LEMMA requestTimedCallbackOrder ==
  ASSUME IInv, TimerInv, NEW t \in Threads, requestTimedCallback(t)
  PROVE  TimerInv'
<1>1. PICK d \in Delays, p \in Timers \ live :
        live' = live \cup {p} /\ targ' = [targ EXCEPT ![t] = <<p, d>>]
  BY DEF requestTimedCallback
<1>2. /\ tpc' = [tpc EXCEPT ![t] = "timer_add"]
      /\ UNCHANGED <<now, timer_list, timeout, pending_list, lastFired, cur, dpc>>
  BY DEF requestTimedCallback
<1>3. /\ DOMAIN targ = Threads /\ DOMAIN tpc = Threads BY DEF IInv, TypeOK, CallerType
<1>4. /\ targ'[t][1] = p
      /\ \A u \in Threads \ {t} : targ'[u] = targ[u] /\ (Adding(u)' => Adding(u))
  BY <1>1, <1>2, <1>3 DEF Adding
<1>5. Unlisted(p) BY FreshUnlisted DEF TimerInv
<1>6. OrderInv' BY <1>1, <1>2 DEF TimerInv, OrderInv, Before
<1>7. HeldInv'
  <2>1. InCallback' => cur' \in live' /\ Unlisted(cur)' /\ p # cur
    BY <1>1, <1>2 DEF TimerInv, HeldInv, InCallback, Unlisted
  <2>2. ASSUME NEW u \in Threads, Adding(u)'
        PROVE  /\ targ'[u][1] \in live' /\ Unlisted(targ[u][1])'
               /\ InCallback' => targ'[u][1] # cur'
    <3>1. CASE u = t BY <1>1, <1>2, <1>4, <1>5, <2>1, <3>1 DEF Unlisted
    <3>2. CASE u # t BY <1>1, <1>2, <1>4, <2>2, <3>2 DEF TimerInv, HeldInv, InCallback, Unlisted
    <3> QED BY <3>1, <3>2
  <2>3. \A u \in Threads \ {t} : Adding(u)' => targ'[u][1] # p
    BY <1>1, <1>4 DEF TimerInv, HeldInv
  <2>4. \A u, v \in Threads : Adding(u)' /\ Adding(v)' /\ u # v => targ'[u][1] # targ'[v][1]
    BY <1>4, <2>3 DEF TimerInv, HeldInv
  <2> QED BY <2>1, <2>2, <2>4 DEF HeldInv
<1> QED BY <1>6, <1>7 DEF TimerInv

\* ...and adds it later.
LEMMA timerAddOrder == ASSUME IInv, TimerInv, NEW t \in Threads, timerAdd(t) PROVE TimerInv'
<1> DEFINE p == targ[t][1]
           d == targ[t][2]
<1>1. /\ Adding(t) /\ ril_timer_add(p, d)
      /\ tpc' = [tpc EXCEPT ![t] = "trigger"] /\ targ' = [targ EXCEPT ![t] = NULL]
      /\ UNCHANGED <<now, live, pending_list, lastFired, cur, dpc>>
  BY DEF timerAdd, Adding
<1>2. p \in Timers /\ d \in Nat
  <2>1. targ[t] \in Timers \X Delays BY <1>1 DEF IInv, TypeOK, CallerType, Adding
  <2> QED BY <2>1, TimeAssumption
<1>3. p \in live /\ Unlisted(p) /\ (InCallback => p # cur) BY <1>1 DEF TimerInv, HeldInv
<1>4. OrderInv' /\ \A q : Unlisted(q) /\ q # p => Unlisted(q)'
  <2> HIDE DEF p, d
  <2> QED BY <1>1, <1>2, <1>3, AddedInOrder DEF TimerInv, IInv
<1>5. \A u \in Threads : Adding(u)' => u # t /\ Adding(u) /\ targ'[u] = targ[u]
  <2>1. DOMAIN targ = Threads /\ DOMAIN tpc = Threads BY DEF IInv, TypeOK, CallerType
  <2> QED BY <1>1, <2>1 DEF Adding
<1>6. HeldInv'
  <2>1. InCallback' => cur' \in live' /\ Unlisted(cur)'
    <3>1. InCallback => cur \in live /\ Unlisted(cur) BY DEF TimerInv, HeldInv
    <3>2. \A q : q = cur' /\ Unlisted(q)' => Unlisted(cur)' BY DEF Unlisted
    <3> HIDE DEF p
    <3> QED BY <1>1, <1>3, <1>4, <3>1, <3>2 DEF InCallback
  <2>2. ASSUME NEW u \in Threads, Adding(u)'
        PROVE  /\ targ'[u][1] \in live' /\ Unlisted(targ[u][1])'
               /\ InCallback' => targ'[u][1] # cur'
    <3> DEFINE x == targ[u][1]
    <3>1. u # t /\ Adding(u) /\ x = targ'[u][1] BY <1>5, <2>2
    <3>2. /\ x \in live /\ Unlisted(x) /\ (InCallback => x # cur) /\ x # p
      BY <1>1, <3>1 DEF TimerInv, HeldInv
    <3>3. \A q : q = x /\ Unlisted(q)' => Unlisted(targ[u][1])' BY <3>1 DEF Unlisted
    <3> HIDE DEF p, x
    <3> QED BY <1>1, <1>4, <3>1, <3>2, <3>3 DEF InCallback
  <2>3. \A u, v \in Threads : Adding(u)' /\ Adding(v)' /\ u # v => targ'[u][1] # targ'[v][1]
    BY <1>5 DEF TimerInv, HeldInv
  <2> QED BY <2>1, <2>2, <2>3 DEF HeldInv
<1> QED BY <1>4, <1>6 DEF TimerInv

\* The clock.
LEMMA TickOrder == ASSUME IInv, TimerInv, Tick PROVE TimerInv'
<1>1. /\ now' = now + 1
      /\ UNCHANGED <<timer_list, timeout, live, pending_list, lastFired, cur, dpc, tpc, targ>>
  BY DEF Tick
<1>2. now \in Nat /\ lastFired \in Nat /\ timeout \in [Timers -> Nat]
  BY DEF IInv, TypeOK, TimerType, LoopType
<1>3. lastFired <= now' BY <1>1, <1>2 DEF TimerInv, OrderInv
<1>4. \A q \in Timers : timeout[q] < now => timeout[q] < now' BY <1>1, <1>2
<1>5. OrderInv' BY <1>1, <1>3, <1>4 DEF TimerInv, OrderInv, Before
<1>6. HeldInv' BY <1>1 DEF TimerInv, HeldInv, InCallback, Adding, Unlisted
<1> QED BY <1>5, <1>6 DEF TimerInv

-----------------------------------------------------------------------------
LEMMA InitOrder == ASSUME Init PROVE TimerInv
<1>1. /\ timer_list = <<>> /\ pending_list = <<>> /\ lastFired = 0 /\ now = 0 /\ dpc = "start"
      /\ tpc = [t \in Threads |-> "idle"]
  BY DEF Init
<1>2. OrderInv BY <1>1 DEF OrderInv
<1>3. HeldInv BY <1>1 DEF HeldInv, InCallback, Adding
<1> QED BY <1>2, <1>3 DEF TimerInv

\* Only firePending calls a timer back.
LEMMA StepOrder ==
  ASSUME IInv, TimerInv, [Next]_vars
  PROVE  TimerInv' /\ [lastFired' >= lastFired]_vars
<1>1. TypeOK BY DEF IInv
<1>2. /\ DOMAIN tpc = Threads /\ DOMAIN targ = Threads /\ Main \in Threads
  BY <1>1, ThreadsAssumption DEF TypeOK, CallerType
<1>3. lastFired \in Nat BY <1>1 DEF TypeOK, LoopType
<1>4. CASE firePending BY <1>4, firePendingOrder
<1>5. CASE processTimeouts \/ processReadReadies \/ userTimerFree
  <2>1. TimerInv' BY <1>5, processTimeoutsOrder, processReadReadiesOrder, userTimerFreeOrder
  <2>2. lastFired' = lastFired BY <1>5 DEF processTimeouts, processReadReadies, userTimerFree
  <2> QED BY <1>3, <2>1, <2>2
<1>6. CASE userTimerCallback \/ onNewCommandConnect \/ processCommandsRecord
  <2>1. /\ UNCHANGED <<now, loopVars, callerVars>> /\ (InCallback' => InCallback)
        /\ \/ UNCHANGED <<listVars, timerVars, pipe>>
           \/ \E d \in Delays \cup {WakeDelay} : DispatchTimer(d)
    BY <1>6 DEF userTimerCallback, onNewCommandConnect, processCommandsRecord, InCallback
  <2>2. CASE UNCHANGED <<listVars, timerVars, pipe>>
    BY <2>1, <2>2, <1>3, OtherOrder DEF Adding
  <2>3. ASSUME NEW d \in Delays \cup {WakeDelay}, DispatchTimer(d) PROVE TimerInv'
    <3>1. d \in Nat BY TimeAssumption
    <3> QED BY <1>1, <2>1, <2>3, <3>1, DispatchTimerOrder
  <2> QED BY <1>3, <2>1, <2>2, <2>3
<1>7. CASE \E t \in Threads : timerAdd(t) \/ requestTimedCallback(t)
  <2>1. TimerInv' BY <1>7, timerAddOrder, requestTimedCallbackOrder
  <2>2. lastFired' = lastFired BY <1>7 DEF timerAdd, requestTimedCallback
  <2> QED BY <1>3, <2>1, <2>2
<1>8. CASE Tick
  <2>1. lastFired' = lastFired BY <1>8 DEF Tick
  <2> QED BY <1>3, <1>8, <2>1, TickOrder
<1>9. CASE \/ eventLoopStart \/ eventLoopPipe \/ eventLoopAddWakeup \/ copyReadFds
           \/ calcNextTimeout \/ selectEnter \/ selectReturn \/ selectEintr
           \/ processWakeupCallback \/ listenCallback \/ listenAddCommands
           \/ processCommandsEagain \/ processCommandsClose \/ processCommandsDel \/ rearmListen
  <2>1. UNCHANGED <<now, timerVars, pending_list, cur, lastFired, callerVars>> /\ ~ InCallback'
    BY <1>9 DEF eventLoopStart, eventLoopPipe, eventLoopAddWakeup, copyReadFds, calcNextTimeout,
                selectEnter, selectReturn, selectEintr, processWakeupCallback, listenCallback, acceptFailed,
                listenAddCommands, processCommandsEagain, processCommandsClose,
                processCommandsDel, rearmListen, InCallback
  <2> QED BY <1>3, <2>1, OtherOrder DEF Adding
<1>10. CASE \/ registerListen \/ clientConnect \/ clientSend \/ clientClose \/ UNCHANGED vars
            \/ \E t \in Threads : triggerEvLoop(t) \/ blockingWriteFails(t) \/ sendResponseFd(t)
            \/ registerFdSet \/ registerNfds
  <2>1. UNCHANGED <<now, timerVars, pending_list, cur, lastFired, dpc, targ>>
    BY <1>10 DEF registerListen, clientConnect, clientSend, clientClose, vars, triggerEvLoop,
                 blockingWriteFails, sendResponseFd, registerFdSet, registerNfds
  <2>2. \A u \in Threads : Adding(u)' => Adding(u)
    BY <1>2, <1>10 DEF registerListen, clientConnect, clientSend, clientClose, vars, triggerEvLoop,
                       blockingWriteFails, sendResponseFd, registerFdSet, registerNfds, Adding
  <2> QED BY <1>3, <2>1, <2>2, OtherOrder DEF InCallback
<1> QED BY <1>4, <1>5, <1>6, <1>7, <1>8, <1>9, <1>10 DEF Next, eventLoop, callerStep

\* Timers are called back in the order of their timeouts, whoever requests
\* them and whenever, on every interleaving of the dispatch thread with the
\* threads that request them (ril_timer_add, processTimeouts, firePending).
THEOREM TimersCalledInOrder == Spec => TimersInOrder
<1>1. Init => IInv /\ TimerInv BY InitInv, InitOrder
<1>2. (IInv /\ TimerInv) /\ [Next]_vars => (IInv /\ TimerInv)' BY NextInv, StepOrder
<1>3. (IInv /\ TimerInv) /\ [Next]_vars => [lastFired' >= lastFired]_vars BY StepOrder
<1> QED BY <1>1, <1>2, <1>3, PTL DEF Spec, TimersInOrder

=============================================================================
