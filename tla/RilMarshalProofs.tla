-------------------------- MODULE RilMarshalProofs --------------------------
(* Theorems about RilMarshal.                                                 *)
EXTENDS RilMarshal, SequenceTheorems, WellFoundedInduction, TLAPS

-----------------------------------------------------------------------------
(* Induction. The set of the numbers that have a property takes the place of  *)
(* the property.                                                              *)

LEMMA EveryNumber ==
  ASSUME NEW P, 0 \in P, \A n \in Nat : n \in P => n + 1 \in P
  PROVE  \A n \in Nat : n \in P
<1> DEFINE R == OpToRel(<, Nat)
           Out == Nat \ P
<1> SUFFICES ASSUME Out # {} PROVE FALSE OBVIOUS
<1>1. IsWellFoundedOn(R, Nat) BY NatLessThanWellFounded
<1>2. \A x, y \in Nat : x < y => <<x, y>> \in R BY DEF OpToRel
<1> HIDE DEF R
<1>3. Out \subseteq Nat OBVIOUS
<1>4. PICK x \in Out : \A y \in Out : ~(<<y, x>> \in R)
  <2> HIDE DEF Out
  <2> QED BY <1>1, <1>3, WFMin
<1>5. x \in Nat /\ x # 0 OBVIOUS
<1>6. x - 1 \in Nat /\ x - 1 < x BY <1>5
<1>7. x - 1 \in P BY <1>2, <1>4, <1>5, <1>6
<1>8. (x - 1) + 1 \in P BY <1>6, <1>7
<1> QED BY <1>5, <1>8

-----------------------------------------------------------------------------
(* What the recursive functions of RilMarshal compute, step by step.          *)

LEMMA RunSteps ==
  ASSUME NEW r, NEW kinds, Len(kinds) \in Nat
  PROVE  \E f : /\ f[0] = r
                /\ \A i \in 1 .. Len(kinds) : f[i] = Step(f[i - 1], kinds[i])
                /\ Run(r, kinds) = f[Len(kinds)]
<1> DEFINE n == Len(kinds)
           Steps(f, m) == f = [i \in 0 .. m |-> IF i = 0 THEN r ELSE Step(f[i - 1], kinds[i])]
           P == {m \in Nat : \E f : Steps(f, m)}
<1>1. 0 \in P
  <2>1. Steps([i \in 0 .. 0 |-> r], 0) OBVIOUS
  <2> QED BY <2>1
<1>2. ASSUME NEW m \in Nat, m \in P PROVE m + 1 \in P
  <2>1. PICK f : Steps(f, m) BY <1>2
  <2> DEFINE g == [i \in 0 .. m + 1 |-> IF i = m + 1 THEN Step(f[m], kinds[m + 1]) ELSE f[i]]
  <2>2. Steps(g, m + 1)
    <3>1. \A i \in 0 .. m : f[i] = IF i = 0 THEN r ELSE Step(f[i - 1], kinds[i])
      BY <2>1
    <3>2. \A i \in 0 .. m : g[i] = f[i] OBVIOUS
    <3>3. \A i \in 0 .. m + 1 : g[i] = IF i = 0 THEN r ELSE Step(g[i - 1], kinds[i])
      <4> TAKE i \in 0 .. m + 1
      <4>1. CASE i = m + 1 BY <4>1
      <4>2. CASE i # m + 1
        <5>1. i \in 0 .. m /\ (i # 0 => i - 1 \in 0 .. m) BY <4>2
        <5> QED BY <3>1, <3>2, <5>1
      <4> QED BY <4>1, <4>2
    <3> QED BY <3>3
  <2> HIDE DEF g
  <2> QED BY <2>2
<1>3. n \in P
  <2> HIDE DEF P
  <2>1. \A m \in Nat : m \in P BY <1>1, <1>2, EveryNumber
  <2> QED BY <2>1
<1>4. PICK f : Steps(f, n) BY <1>3
<1> DEFINE g == CHOOSE h : Steps(h, n)
<1>5. Steps(g, n) BY <1>4
<1>6. Run(r, kinds) = g[n] BY DEF Run
<1> HIDE DEF g
<1>7. /\ g[0] = r /\ \A i \in 1 .. n : g[i] = Step(g[i - 1], kinds[i]) BY <1>5
<1> QED BY <1>6, <1>7

LEMMA RunAppend ==
  ASSUME NEW r, NEW K, NEW kinds \in Seq(K), NEW k \in K
  PROVE  Run(r, Append(kinds, k)) = Step(Run(r, kinds), k)
<1> DEFINE n == Len(kinds)
           more == Append(kinds, k)
<1>1. n \in Nat /\ Len(more) = n + 1 /\ more[n + 1] = k /\ \A i \in 1 .. n : more[i] = kinds[i]
  BY AppendProperties, LenProperties
<1> HIDE DEF more
<1>2. PICK f : /\ f[0] = r
               /\ \A i \in 1 .. n : f[i] = Step(f[i - 1], kinds[i])
               /\ Run(r, kinds) = f[n]
  BY <1>1, RunSteps
<1>3. PICK g : /\ g[0] = r
               /\ \A i \in 1 .. n + 1 : g[i] = Step(g[i - 1], more[i])
               /\ Run(r, more) = g[n + 1]
  <2>1. Len(more) \in Nat BY <1>1
  <2> QED BY SMTT(30), <1>1, <2>1, RunSteps
<1> HIDE DEF n
<1> DEFINE P == {m \in Nat : m <= n => f[m] = g[m]}
<1>4. 0 \in P BY <1>2, <1>3
<1>5. ASSUME NEW m \in Nat, m \in P PROVE m + 1 \in P
  <2> SUFFICES ASSUME m + 1 <= n PROVE f[m + 1] = g[m + 1] OBVIOUS
  <2>1. m <= n /\ m + 1 \in 1 .. n /\ m + 1 \in 1 .. n + 1 /\ (m + 1) - 1 = m BY <1>1
  <2>2. f[m] = g[m] BY <1>5, <2>1
  <2>3. f[m + 1] = Step(f[m], kinds[m + 1]) BY <1>2, <2>1
  <2>4. g[m + 1] = Step(g[m], more[m + 1]) BY <1>3, <2>1
  <2> QED BY <1>1, <2>1, <2>2, <2>3, <2>4
<1>6. n \in P
  <2> HIDE DEF P
  <2> QED BY <1>1, <1>4, <1>5, EveryNumber
<1>7. f[n] = g[n] BY <1>6
<1>8. g[n + 1] = Step(g[n], k)
  <2>1. n + 1 \in 1 .. n + 1 /\ (n + 1) - 1 = n BY <1>1
  <2> QED BY <1>1, <1>3, <2>1
<1> QED BY <1>2, <1>3, <1>7, <1>8 DEF more

LEMMA RunNothing == ASSUME NEW r PROVE Run(r, <<>>) = r
<1>1. Len(<<>>) = 0 OBVIOUS
<1>2. PICK f : f[0] = r /\ Run(r, <<>>) = f[Len(<<>>)] BY <1>1, RunSteps
<1> QED BY <1>1, <1>2

\* A set of readers that every read keeps is kept by the whole run.
LEMMA RunKeeps ==
  ASSUME NEW X, NEW K, NEW r \in X, NEW kinds \in Seq(K),
         \A x \in X : \A k \in K : Step(x, k) \in X
  PROVE  Run(r, kinds) \in X
<1> DEFINE n == Len(kinds)
<1>1. n \in Nat /\ \A i \in 1 .. n : kinds[i] \in K BY LenProperties
<1>2. PICK f : /\ f[0] = r
               /\ \A i \in 1 .. n : f[i] = Step(f[i - 1], kinds[i])
               /\ Run(r, kinds) = f[n]
  BY <1>1, RunSteps
<1> DEFINE P == {m \in Nat : m <= n => f[m] \in X}
<1> HIDE DEF n
<1>3. 0 \in P BY <1>2
<1>4. ASSUME NEW m \in Nat, m \in P PROVE m + 1 \in P
  <2> SUFFICES ASSUME m + 1 <= n PROVE f[m + 1] \in X OBVIOUS
  <2>1. m <= n /\ m + 1 \in 1 .. n /\ (m + 1) - 1 = m BY <1>1
  <2>2. f[m] \in X /\ kinds[m + 1] \in K BY <1>1, <1>4, <2>1
  <2>3. f[m + 1] = Step(f[m], kinds[m + 1]) BY <1>2, <2>1
  <2> QED BY <2>2, <2>3
<1>5. n \in P
  <2> HIDE DEF P
  <2> QED BY <1>1, <1>3, <1>4, EveryNumber
<1> QED BY <1>2, <1>5, <1>1

\* A recursive function over 0 .. n exists.
Keeps(F, n, X) == \A i \in 1 .. n : \A x \in X : F[i][x] \in X
Iterates(f, F, n, X, a) ==
  /\ f \in [0 .. n -> X] /\ f[0] = a
  /\ \A i \in 1 .. n : f[i] = F[i][f[i - 1]]

LEMMA Recursion ==
  ASSUME NEW X, NEW a \in X, NEW n \in Nat, NEW F, Keeps(F, n, X)
  PROVE  \E f : Iterates(f, F, n, X, a)
<1> USE DEF Keeps
<1> DEFINE Steps(f, m) == f[0] = a /\ \A i \in 1 .. m : f[i] = F[i][f[i - 1]]
           P == {m \in Nat : m <= n => \E f \in [0 .. m -> X] : Steps(f, m)}
<1>1. 0 \in P
  <2> DEFINE g == [i \in 0 .. 0 |-> a]
  <2>1. g \in [0 .. 0 -> X] /\ Steps(g, 0) OBVIOUS
  <2> HIDE DEF g
  <2> QED BY <2>1
<1>2. ASSUME NEW m \in Nat, m \in P PROVE m + 1 \in P
  <2> SUFFICES ASSUME m + 1 <= n PROVE \E f \in [0 .. m + 1 -> X] : Steps(f, m + 1) OBVIOUS
  <2>1. PICK f \in [0 .. m -> X] : Steps(f, m) BY <1>2
  <2> DEFINE g == [i \in 0 .. m + 1 |-> IF i = m + 1 THEN F[m + 1][f[m]] ELSE f[i]]
  <2>2. g \in [0 .. m + 1 -> X] BY <2>1
  <2>3. Steps(g, m + 1)
    <3>1. g[0] = a BY <2>1
    <3>2. ASSUME NEW i \in 1 .. m + 1 PROVE g[i] = F[i][g[i - 1]]
      <4>1. CASE i = m + 1 BY <4>1
      <4>2. CASE i # m + 1 BY <2>1, <4>2
      <4> QED BY <4>1, <4>2
    <3> QED BY <3>1, <3>2
  <2> HIDE DEF g
  <2> QED BY <2>2, <2>3
<1>3. n \in P
  <2> HIDE DEF P
  <2> QED BY <1>1, <1>2, EveryNumber
<1> QED BY <1>3 DEF Iterates

LEMMA ConcatSteps ==
  ASSUME NEW T, NEW seqs \in Seq(Seq(T))
  PROVE  \E f \in [0 .. Len(seqs) -> Seq(T)] :
           /\ f[0] = <<>>
           /\ \A i \in 1 .. Len(seqs) : f[i] = f[i - 1] \o seqs[i]
           /\ Concat(seqs) = f[Len(seqs)]
<1> DEFINE n == Len(seqs)
           X == Seq(T)
           F == [i \in 1 .. n |-> [x \in X |-> x \o seqs[i]]]
           Steps(f) == f = [i \in 0 .. n |-> IF i = 0 THEN <<>> ELSE f[i - 1] \o seqs[i]]
<1>1. n \in Nat /\ \A i \in 1 .. n : seqs[i] \in X BY LenProperties
<1>2. <<>> \in X /\ \A i \in 1 .. n : \A x \in X : F[i][x] \in X /\ F[i][x] = x \o seqs[i]
  BY <1>1, ConcatProperties
<1> HIDE DEF X, F, n
<1>3. PICK h : Iterates(h, F, n, X, <<>>)
  <2>1. Keeps(F, n, X) BY <1>2 DEF Keeps
  <2> QED BY <1>1, <1>2, <2>1, Recursion
<1>4. Steps(h)
  <2>1. ASSUME NEW i \in 1 .. n PROVE h[i] = h[i - 1] \o seqs[i]
    <3>1. i - 1 \in 0 .. n BY <1>1
    <3>2. h[i - 1] \in X BY <1>3, <3>1 DEF Iterates
    <3>3. h[i] = F[i][h[i - 1]] BY <1>3 DEF Iterates
    <3> QED BY <1>2, <3>2, <3>3, Zenon
  <2>2. ASSUME NEW i \in 0 .. n PROVE h[i] = IF i = 0 THEN <<>> ELSE h[i - 1] \o seqs[i]
    <3>1. CASE i = 0 BY <1>3, <3>1 DEF Iterates
    <3>2. CASE i # 0
      <4>1. i \in 1 .. n BY <1>1, <3>2
      <4> QED BY <2>1, <3>2, <4>1, Zenon
    <3> QED BY <3>1, <3>2
  <2> QED BY <1>3, <2>2 DEF Iterates
<1> DEFINE g == CHOOSE f : Steps(f)
<1>5. Steps(g) BY <1>4
<1>6. Concat(seqs) = g[n] BY DEF Concat, n
<1> HIDE DEF g
<1>7. g[0] = <<>> /\ \A i \in 1 .. n : g[i] = g[i - 1] \o seqs[i] BY SMTT(30), <1>1, <1>5
<1>8. \A i \in 0 .. n : g[i] \in X
  <2> DEFINE P == {m \in Nat : m <= n => g[m] \in X}
  <2>1. 0 \in P BY <1>2, <1>7
  <2>2. ASSUME NEW m \in Nat, m \in P PROVE m + 1 \in P
    <3> SUFFICES ASSUME m + 1 <= n PROVE g[m + 1] \in X OBVIOUS
    <3>1. m <= n /\ m + 1 \in 1 .. n /\ (m + 1) - 1 = m BY <1>1
    <3>2. g[m] \in Seq(T) /\ seqs[m + 1] \in Seq(T) BY <1>1, <2>2, <3>1 DEF X
    <3>3. g[m] \o seqs[m + 1] \in Seq(T) BY <3>2, ConcatProperties
    <3> QED BY <1>7, <3>1, <3>3 DEF X
  <2>3. \A m \in Nat : m \in P
    <3> HIDE DEF P
    <3> QED BY <2>1, <2>2, EveryNumber
  <2> QED BY <1>1, <2>3
<1>9. g \in [0 .. n -> X] BY <1>5, <1>8
<1> QED BY <1>6, <1>7, <1>9 DEF n, X

LEMMA ConcatIsSeq ==
  ASSUME NEW T, NEW seqs \in Seq(Seq(T))
  PROVE  Concat(seqs) \in Seq(T)
<1>1. Len(seqs) \in Nat BY LenProperties
<1>2. PICK f \in [0 .. Len(seqs) -> Seq(T)] : Concat(seqs) = f[Len(seqs)] BY ConcatSteps
<1> QED BY <1>1, <1>2

LEMMA ConcatNothing == Concat(<<>>) = <<>>
<1>1. <<>> \in Seq(Seq({})) /\ Len(<<>>) = 0 OBVIOUS
<1>2. PICK f \in [0 .. Len(<<>>) -> Seq({})] : f[0] = <<>> /\ Concat(<<>>) = f[Len(<<>>)]
  BY <1>1, ConcatSteps
<1> QED BY <1>1, <1>2

LEMMA AppendParts ==
  ASSUME NEW T, NEW vals \in Seq(T), NEW v \in T
  PROVE  /\ Append(vals, v) \in Seq(T) /\ Len(Append(vals, v)) = Len(vals) + 1
         /\ \A i \in 1 .. Len(vals) : Append(vals, v)[i] = vals[i]
         /\ Append(vals, v)[Len(vals) + 1] = v
BY AppendProperties

LEMMA ConcatAppend ==
  ASSUME NEW T, NEW seqs \in Seq(Seq(T)), NEW s \in Seq(T)
  PROVE  Concat(Append(seqs, s)) = Concat(seqs) \o s
<1> DEFINE n == Len(seqs)
           more == Append(seqs, s)
<1>1. /\ n \in Nat /\ more \in Seq(Seq(T)) /\ Len(more) = n + 1 /\ more[n + 1] = s
      /\ \A i \in 1 .. n : more[i] = seqs[i]
  BY AppendProperties, LenProperties
<1> HIDE DEF more
<1>2. PICK f \in [0 .. n -> Seq(T)] :
        /\ f[0] = <<>> /\ Concat(seqs) = f[n]
        /\ \A i \in 1 .. n : f[i] = f[i - 1] \o seqs[i]
  BY <1>1, ConcatSteps
<1>3. PICK g \in [0 .. Len(more) -> Seq(T)] :
        /\ g[0] = <<>> /\ \A i \in 1 .. Len(more) : g[i] = g[i - 1] \o more[i]
        /\ Concat(more) = g[Len(more)]
  BY <1>1, ConcatSteps
<1> HIDE DEF n
<1> DEFINE P == {m \in Nat : m <= n => f[m] = g[m]}
<1>4. 0 \in P BY <1>2, <1>3
<1>5. ASSUME NEW m \in Nat, m \in P PROVE m + 1 \in P
  <2> SUFFICES ASSUME m + 1 <= n PROVE f[m + 1] = g[m + 1] OBVIOUS
  <2>1. m <= n /\ m + 1 \in 1 .. n /\ m + 1 \in 1 .. Len(more) /\ (m + 1) - 1 = m BY <1>1
  <2>2. f[m] = g[m] BY <1>5, <2>1
  <2>3. f[m + 1] = f[m] \o seqs[m + 1] BY <1>2, <2>1
  <2>4. g[m + 1] = g[m] \o more[m + 1] BY <1>3, <2>1
  <2> QED BY <1>1, <2>1, <2>2, <2>3, <2>4
<1>6. n \in P
  <2> HIDE DEF P
  <2> QED BY <1>1, <1>4, <1>5, EveryNumber
<1>7. f[n] = g[n] BY <1>1, <1>6
<1>8. g[n + 1] = g[n] \o s
  <2>1. n + 1 \in 1 .. Len(more) /\ (n + 1) - 1 = n BY <1>1
  <2> QED BY <1>1, <1>3, <2>1
<1>9. Concat(more) = Concat(seqs) \o s BY <1>1, <1>2, <1>3, <1>7, <1>8, Zenon
<1> QED BY <1>9 DEF more

-----------------------------------------------------------------------------
(* Readers. Whatever the words of a block are, a read leaves a reader, its    *)
(* place inside the block.                                                    *)

Kinds == {"int", "byte", "str", "raw"}
Reads == Kinds \cup {"check"}
Values == (Kinds \cup {"unset", "cut"}) \X Int

Readers ==
  {r \in [w : Seq(Int), pos : Nat, ok : BOOLEAN, args : Seq(Values), live : Nat,
          valid : BOOLEAN] : r.pos <= Len(r.w)}

LEMMA ReaderParts ==
  ASSUME NEW r \in Readers
  PROVE  /\ r.w \in Seq(Int) /\ r.pos \in Nat /\ r.ok \in BOOLEAN /\ r.args \in Seq(Values)
         /\ r.live \in Nat /\ r.valid \in BOOLEAN /\ r.pos <= Len(r.w) /\ Len(r.w) \in Nat
         /\ r = [w |-> r.w, pos |-> r.pos, ok |-> r.ok, args |-> r.args, live |-> r.live,
                 valid |-> r.valid]
BY LenProperties DEF Readers

LEMMA MadeReader ==
  ASSUME NEW w \in Seq(Int), NEW pos \in Nat, NEW ok \in BOOLEAN, NEW args \in Seq(Values),
         NEW live \in Nat, NEW valid \in BOOLEAN, pos <= Len(w)
  PROVE  [w |-> w, pos |-> pos, ok |-> ok, args |-> args, live |-> live, valid |-> valid]
           \in Readers
BY DEF Readers

\* What a read does to each part of a reader.
LEMMA StepInvalid ==
  ASSUME NEW r \in Readers, NEW k, ~r.valid
  PROVE  Step(r, k) = r
BY DEF Step

\* q is the valid reader of the same words in another state.
At(q, r, pos, ok, args, live) ==
  /\ q \in Readers /\ q.w = r.w /\ q.pos = pos /\ q.ok = ok /\ q.args = args
  /\ q.live = live /\ q.valid

LEMMA AtExcept ==
  ASSUME NEW r \in Readers, r.valid, NEW args \in Seq(Values)
  PROVE  /\ \A pos \in Nat : pos <= Len(r.w) =>
              At([r EXCEPT !.pos = pos, !.ok = TRUE, !.args = args], r, pos, TRUE, args, r.live)
         /\ At([r EXCEPT !.ok = FALSE, !.args = args], r, r.pos, FALSE, args, r.live)
         /\ \A pos, live \in Nat : pos <= Len(r.w) =>
              At([r EXCEPT !.pos = pos, !.live = live, !.args = args], r, pos, r.ok, args, live)
         /\ \A pos \in Nat : pos <= Len(r.w) =>
              At([r EXCEPT !.pos = pos, !.args = args], r, pos, r.ok, args, r.live)
<1>1. ASSUME NEW pos \in Nat, pos <= Len(r.w)
      PROVE  At([r EXCEPT !.pos = pos, !.ok = TRUE, !.args = args], r, pos, TRUE, args, r.live)
  BY <1>1 DEF At, Readers
<1>2. At([r EXCEPT !.ok = FALSE, !.args = args], r, r.pos, FALSE, args, r.live)
  BY DEF At, Readers
<1>3. ASSUME NEW pos \in Nat, NEW live \in Nat, pos <= Len(r.w)
      PROVE  At([r EXCEPT !.pos = pos, !.live = live, !.args = args], r, pos, r.ok, args, live)
  BY <1>3 DEF At, Readers
<1>4. ASSUME NEW pos \in Nat, pos <= Len(r.w)
      PROVE  At([r EXCEPT !.pos = pos, !.args = args], r, pos, r.ok, args, r.live)
  BY <1>4 DEF At, Readers
<1> QED BY <1>1, <1>2, <1>3, <1>4

LEMMA StepCheck ==
  ASSUME NEW r \in Readers, r.valid
  PROVE  LET q == Step(r, "check")
         IN /\ q \in Readers /\ q.w = r.w /\ q.pos = r.pos /\ q.ok = r.ok /\ q.args = r.args
            /\ q.live = r.live /\ q.valid = r.ok
<1>1. Step(r, "check") = [r EXCEPT !.valid = r.ok] BY DEF Step
<1> QED BY <1>1 DEF Readers

LEMMA StepWord ==
  ASSUME NEW r \in Readers, r.valid, NEW k \in {"int", "byte"}
  PROVE  /\ r.pos < Len(r.w) =>
              At(Step(r, k), r, r.pos + 1, TRUE, Append(r.args, <<k, r.w[r.pos + 1]>>), r.live)
         /\ r.pos = Len(r.w) =>
              At(Step(r, k), r, r.pos, FALSE, Append(r.args, <<"unset", 0>>), r.live)
<1>1. /\ r.pos \in Nat /\ Len(r.w) \in Nat /\ r.args \in Seq(Values)
      /\ \A i \in 1 .. Len(r.w) : r.w[i] \in Int
  BY ReaderParts, LenProperties
<1>2. Left(r) > 0 <=> r.pos < Len(r.w) BY <1>1 DEF Left
<1>3. Step(r, k) = ReadWord(r, k) BY DEF Step
<1>4. CASE r.pos < Len(r.w)
  <2> DEFINE args == Append(r.args, <<k, r.w[r.pos + 1]>>)
  <2>1. r.pos + 1 \in Nat /\ r.pos + 1 <= Len(r.w) /\ r.pos + 1 \in 1 .. Len(r.w) BY <1>1, <1>4
  <2>2. <<k, r.w[r.pos + 1]>> \in Values BY <1>1, <2>1 DEF Values, Kinds
  <2>3. args \in Seq(Values) BY <1>1, <2>2, AppendProperties
  <2>4. Step(r, k) = [r EXCEPT !.pos = r.pos + 1, !.ok = TRUE, !.args = args]
    BY <1>2, <1>3, <1>4 DEF ReadWord
  <2> HIDE DEF args
  <2>5. At(Step(r, k), r, r.pos + 1, TRUE, args, r.live) BY <2>1, <2>3, <2>4, AtExcept
  <2>6. ~(r.pos = Len(r.w)) BY <1>1, <1>4
  <2> QED BY <2>5, <2>6, Zenon DEF args
<1>5. CASE r.pos = Len(r.w)
  <2> DEFINE args == Append(r.args, <<"unset", 0>>)
  <2>2. <<"unset", 0>> \in Values BY DEF Values
  <2>3. args \in Seq(Values) BY <1>1, <2>2, AppendProperties
  <2>4. Step(r, k) = [r EXCEPT !.ok = FALSE, !.args = args] BY <1>1, <1>2, <1>3, <1>5 DEF ReadWord
  <2> HIDE DEF args
  <2>5. At(Step(r, k), r, r.pos, FALSE, args, r.live) BY <2>3, <2>4, AtExcept
  <2>6. ~(r.pos < Len(r.w)) BY <1>1, <1>5
  <2> QED BY <2>5, <2>6, Zenon DEF args
<1> QED BY <1>4, <1>5

\* The length of the string that is next, and the place after the length.
lengthAt(r) == IF r.pos < Len(r.w) THEN r.w[r.pos + 1] ELSE -1
afterLength(r) == IF r.pos < Len(r.w) THEN r.pos + 1 ELSE r.pos
unitsAt(r) == (lengthAt(r) + 2) \div 2
stringFits(r) == lengthAt(r) >= 0 /\ Len(r.w) - afterLength(r) >= unitsAt(r)

LEMMA StringParts ==
  ASSUME NEW r \in Readers
  PROVE  /\ lengthAt(r) \in Int /\ afterLength(r) \in Nat
         /\ r.pos <= afterLength(r) /\ afterLength(r) <= Len(r.w)
         /\ r.pos = Len(r.w) => afterLength(r) = r.pos /\ ~stringFits(r)
         /\ stringFits(r) => /\ unitsAt(r) \in Nat \ {0}
                             /\ afterLength(r) + 1 \in 1 .. Len(r.w)
                             /\ afterLength(r) + unitsAt(r) \in Nat
                             /\ afterLength(r) + unitsAt(r) <= Len(r.w)
                             /\ r.pos <= afterLength(r) + unitsAt(r)
<1> DEFINE p == r.pos
           n == Len(r.w)
           l == lengthAt(r)
           a == afterLength(r)
           u == unitsAt(r)
<1>1. p \in Nat /\ n \in Nat /\ p <= n /\ \A i \in 1 .. n : r.w[i] \in Int
  BY ReaderParts, LenProperties
<1>2. l \in Int /\ (p = n => l = -1)
  <2> HIDE DEF p, n
  <2>1. l = IF p < n THEN r.w[p + 1] ELSE -1 BY DEF lengthAt, p, n
  <2>2. p < n => p + 1 \in 1 .. n BY <1>1
  <2> QED BY <1>1, <2>1, <2>2
<1>3. a \in Nat /\ p <= a /\ a <= n /\ (p = n => a = p)
  <2> HIDE DEF p, n
  <2>1. a = IF p < n THEN p + 1 ELSE p BY DEF afterLength, p, n
  <2> QED BY <1>1, <2>1
<1>4. u = (l + 2) \div 2 BY DEF unitsAt
<1>5. stringFits(r) <=> l >= 0 /\ n - a >= u BY DEF stringFits
<1> HIDE DEF p, n, l, a, u
<1>6. p = n => ~stringFits(r) BY <1>2, <1>5
<1>7. ASSUME stringFits(r)
      PROVE  /\ u \in Nat \ {0} /\ a + 1 \in 1 .. n /\ a + u \in Nat /\ a + u <= n /\ p <= a + u
  <2>1. l \in Nat /\ n - a >= u BY <1>2, <1>5, <1>7
  <2>2. u \in Nat /\ u >= 1 BY <1>4, <2>1
  <2> QED BY <1>1, <1>3, <2>1, <2>2
<1> QED BY <1>2, <1>3, <1>6, <1>7 DEF p, n, l, a, u

LEMMA StepString ==
  ASSUME NEW r \in Readers, r.valid
  PROVE  /\ stringFits(r) =>
              At(Step(r, "str"), r, afterLength(r) + unitsAt(r), r.ok,
                 Append(r.args, <<"str", IF lengthAt(r) = 0 THEN 0
                                         ELSE r.w[afterLength(r) + 1]>>), r.live + 1)
         /\ ~stringFits(r) =>
              At(Step(r, "str"), r, afterLength(r), r.ok, Append(r.args, <<"str", -1>>), r.live)
<1>1. /\ r.pos \in Nat /\ Len(r.w) \in Nat /\ r.args \in Seq(Values) /\ r.live \in Nat
      /\ \A i \in 1 .. Len(r.w) : r.w[i] \in Int
  BY ReaderParts, LenProperties
<1>2. Left(r) > 0 <=> r.pos < Len(r.w) BY <1>1 DEF Left
<1>3. Step(r, "str") = strdupReadString(r) BY DEF Step
<1>4. CASE stringFits(r)
  <2> DEFINE v == <<"str", IF lengthAt(r) = 0 THEN 0 ELSE r.w[afterLength(r) + 1]>>
             args == Append(r.args, v)
             pos == afterLength(r) + unitsAt(r)
             live == r.live + 1
  <2>1. v \in Values BY <1>1, <1>4, StringParts DEF Values, Kinds
  <2>2. Step(r, "str") = [r EXCEPT !.pos = pos, !.live = live, !.args = args]
    BY <1>2, <1>3, <1>4 DEF strdupReadString, stringFits, lengthAt, afterLength, unitsAt
  <2>3. pos \in Nat /\ pos <= Len(r.w) BY <1>4, StringParts
  <2>4. live \in Nat BY <1>1
  <2> HIDE DEF v, pos, live
  <2>5. args \in Seq(Values) BY <1>1, <2>1, AppendProperties
  <2> HIDE DEF args
  <2>6. At(Step(r, "str"), r, pos, r.ok, args, live)
    <3>1. \A x, y \in Nat : x <= Len(r.w) =>
            At([r EXCEPT !.pos = x, !.live = y, !.args = args], r, x, r.ok, args, y)
      BY <2>5, AtExcept
    <3>2. At([r EXCEPT !.pos = pos, !.live = live, !.args = args], r, pos, r.ok, args, live)
      BY <2>3, <2>4, <3>1
    <3> QED BY <2>2, <3>2, Zenon
  <2> QED BY <1>4, <2>6 DEF args, v, pos, live
<1>5. CASE ~stringFits(r)
  <2> DEFINE v == <<"str", -1>>
             args == Append(r.args, v)
             pos == afterLength(r)
  <2>1. v \in Values BY DEF Values, Kinds
  <2>2. Step(r, "str") = [r EXCEPT !.pos = pos, !.args = args]
    BY <1>2, <1>3, <1>5 DEF strdupReadString, stringFits, lengthAt, afterLength, unitsAt
  <2>3. pos \in Nat /\ pos <= Len(r.w) BY StringParts
  <2> HIDE DEF v, pos
  <2>4. args \in Seq(Values) BY <1>1, <2>1, AppendProperties
  <2> HIDE DEF args
  <2>5. At(Step(r, "str"), r, pos, r.ok, args, r.live) BY <2>2, <2>3, <2>4, AtExcept
  <2> QED BY <1>5, <2>5 DEF args, v, pos
<1> QED BY <1>4, <1>5

\* The words of the buffer that is next.
rawWords(r) == (r.w[r.pos + 1] + 3) \div 4
rawFits(r) == r.w[r.pos + 1] # -1 /\ rawWords(r) >= 0 /\ Len(r.w) - r.pos - 1 >= rawWords(r)


\* What is received of a buffer that does not fit or is NULL.
notFitting(r) == IF r.w[r.pos + 1] = -1 THEN <<"raw", -1>> ELSE <<"cut", r.w[r.pos + 1]>>

LEMMA StepRaw ==
  ASSUME NEW r \in Readers, r.valid
  PROVE  /\ r.pos = Len(r.w) => Step(r, "raw") = [r EXCEPT !.valid = FALSE]
         /\ r.pos < Len(r.w) /\ rawFits(r) =>
              At(Step(r, "raw"), r, r.pos + 1 + rawWords(r), r.ok,
                 Append(r.args, <<"raw", IF rawWords(r) = 0 THEN 0 ELSE r.w[r.pos + 2]>>), r.live)
         /\ r.pos < Len(r.w) /\ ~rawFits(r) =>
              At(Step(r, "raw"), r, r.pos + 1, r.ok, Append(r.args, notFitting(r)), r.live)
<1> DEFINE p == r.pos
           n == Len(r.w)
           m == rawWords(r)
<1>1. /\ p \in Nat /\ n \in Nat /\ p <= n /\ r.args \in Seq(Values) /\ r.live \in Nat
      /\ \A i \in 1 .. n : r.w[i] \in Int
  BY ReaderParts, LenProperties
<1>2. /\ Left(r) > 0 <=> p < n
      /\ Left(r) = 0 <=> p = n
      /\ Left(r) - 1 = n - p - 1
  BY <1>1 DEF Left
<1>3. Step(r, "raw") = ReadRaw(r) BY DEF Step
<1>4. CASE p = n
  BY <1>1, <1>2, <1>3, <1>4 DEF ReadRaw
<1>5. CASE p < n /\ rawFits(r)
  <2> DEFINE v == <<"raw", IF m = 0 THEN 0 ELSE r.w[p + 2]>>
             args == Append(r.args, v)
             pos == p + 1 + m
  <2>1. Step(r, "raw") = [r EXCEPT !.pos = pos, !.args = args]
    BY <1>1, <1>2, <1>3, <1>5 DEF ReadRaw, rawFits, rawWords
  <2>2. r.w[p + 1] \in Int
    <3>1. p + 1 \in 1 .. n BY <1>1, <1>5
    <3> QED BY <1>1, <3>1
  <2>3. m \in Int /\ m >= 0 /\ n - p - 1 >= m BY <1>5, <2>2 DEF rawFits, rawWords
  <2> HIDE DEF m
  <2>4. pos \in Nat /\ pos <= n /\ (m # 0 => p + 2 \in 1 .. n)
    <3> HIDE DEF p, n
    <3> QED BY <1>1, <2>3
  <2>5. v \in Values BY <1>1, <2>4 DEF Values, Kinds
  <2> HIDE DEF v, pos
  <2>6. args \in Seq(Values) BY <1>1, <2>5, AppendProperties
  <2> HIDE DEF args
  <2>7. At(Step(r, "raw"), r, pos, r.ok, args, r.live) BY <2>1, <2>4, <2>6, AtExcept
  <2> QED BY <1>1, <1>5, <2>7 DEF args, v, pos, m
<1>6. CASE p < n /\ ~rawFits(r)
  <2> DEFINE v == notFitting(r)
             args == Append(r.args, v)
             pos == p + 1
  <2>1. Step(r, "raw") = [r EXCEPT !.pos = pos, !.args = args]
    <3>1. CASE r.w[p + 1] = -1
      <4>1. ReadRaw(r) = [r EXCEPT !.pos = @ + 1, !.args = Append(@, <<"raw", -1>>)]
        BY <1>1, <1>2, <1>6, <3>1 DEF ReadRaw
      <4> QED BY <1>3, <3>1, <4>1 DEF notFitting
    <3>2. CASE r.w[p + 1] # -1
      <4>1. ReadRaw(r) = [r EXCEPT !.pos = @ + 1, !.args = Append(@, <<"cut", r.w[p + 1]>>)]
        BY <1>1, <1>2, <1>6, <3>2 DEF ReadRaw, rawFits, rawWords
      <4> QED BY <1>3, <3>2, <4>1 DEF notFitting
    <3> QED BY <3>1, <3>2
  <2>2. pos \in Nat /\ pos <= n BY <1>1, <1>6
  <2>3. v \in Values
    <3>1. p + 1 \in 1 .. n BY <1>1, <1>6
    <3>2. r.w[p + 1] \in Int BY <1>1, <3>1
    <3> QED BY <3>2 DEF notFitting, Values, Kinds
  <2> HIDE DEF v, pos
  <2>4. args \in Seq(Values) BY <1>1, <2>3, AppendProperties
  <2> HIDE DEF args
  <2>5. At(Step(r, "raw"), r, pos, r.ok, args, r.live) BY <2>1, <2>2, <2>4, AtExcept
  <2> QED BY <1>1, <1>6, <2>5 DEF args, v, pos
<1> QED BY <1>1, <1>4, <1>5, <1>6

LEMMA StepKeeps ==
  ASSUME NEW r \in Readers, NEW k \in Reads
  PROVE  /\ Step(r, k) \in Readers /\ Step(r, k).w = r.w
         /\ k # "str" => Step(r, k).live = r.live
         /\ Step(r, k).live \in {r.live, r.live + 1}
<1>1. r.pos \in Nat /\ Len(r.w) \in Nat /\ r.pos <= Len(r.w) BY ReaderParts
<1>2. CASE ~r.valid BY <1>2, StepInvalid
<1>3. CASE r.valid /\ k = "check" BY <1>3, StepCheck
<1>4. CASE r.valid /\ k \in {"int", "byte"}
  <2>1. CASE r.pos < Len(r.w)
    <3>1. At(Step(r, k), r, r.pos + 1, TRUE, Append(r.args, <<k, r.w[r.pos + 1]>>), r.live)
      BY <1>4, <2>1, StepWord
    <3> QED BY <3>1 DEF At
  <2>2. CASE r.pos = Len(r.w)
    <3>1. At(Step(r, k), r, r.pos, FALSE, Append(r.args, <<"unset", 0>>), r.live)
      BY <1>4, <2>2, StepWord
    <3> QED BY <3>1 DEF At
  <2> QED BY <1>1, <2>1, <2>2
<1>5. CASE r.valid /\ k = "str" BY <1>5, StepString DEF At
<1>6. CASE r.valid /\ k = "raw"
  <2>1. CASE r.pos = Len(r.w)
    <3>1. Step(r, k) = [r EXCEPT !.valid = FALSE] BY <1>6, <2>1, StepRaw
    <3> QED BY <3>1, <1>1 DEF Readers
  <2>2. CASE r.pos < Len(r.w) BY <1>6, <2>2, StepRaw DEF At
  <2> QED BY <1>1, <2>1, <2>2
<1> QED BY <1>2, <1>3, <1>4, <1>5, <1>6 DEF Reads, Kinds

\* Something was read past the end.
HasUnset(args) == \E i \in 1 .. Len(args) : args[i][1] = "unset"

LEMMA UnsetAppended ==
  ASSUME NEW args \in Seq(Values), NEW v \in Values
  PROVE  HasUnset(Append(args, v)) <=> HasUnset(args) \/ v[1] = "unset"
<1> DEFINE n == Len(args)
           more == Append(args, v)
<1>1. /\ n \in Nat /\ Len(more) = n + 1 /\ more[n + 1] = v
      /\ \A i \in 1 .. n : more[i] = args[i]
  BY LenProperties, AppendProperties
<1> HIDE DEF more
<1>2. ASSUME HasUnset(more) PROVE HasUnset(args) \/ v[1] = "unset"
  <2>1. PICK i \in 1 .. n + 1 : more[i][1] = "unset" BY <1>1, <1>2 DEF HasUnset
  <2>2. i = n + 1 \/ i \in 1 .. n BY <1>1
  <2> QED BY <1>1, <2>1, <2>2 DEF HasUnset
<1>3. ASSUME HasUnset(args) PROVE HasUnset(more)
  <2>1. PICK i \in 1 .. n : args[i][1] = "unset" BY <1>3 DEF HasUnset
  <2>2. i \in 1 .. n + 1 BY <1>1
  <2> QED BY <1>1, <2>1, <2>2 DEF HasUnset
<1>4. ASSUME v[1] = "unset" PROVE HasUnset(more)
  <2>1. n + 1 \in 1 .. n + 1 BY <1>1
  <2> QED BY <1>1, <1>4, <2>1 DEF HasUnset
<1> QED BY <1>2, <1>3, <1>4 DEF more

\* After a read past the end the reader stays at the end, with the error in
\* its status: a check, and a buffer, end the function.
Tight == {r \in Readers : r.valid /\ HasUnset(r.args) => r.pos = Len(r.w) /\ r.ok = FALSE}
Clean == {r \in Readers : r.valid => ~HasUnset(r.args)}

LEMMA CleanIsTight == Clean \subseteq Tight
BY DEF Clean, Tight

\* A buffer is one value, whatever there is to read.
LEMMA RawAppends ==
  ASSUME NEW r \in Readers, r.valid, r.pos < Len(r.w)
  PROVE  \E v \in Values : v[1] # "unset" /\ Step(r, "raw").args = Append(r.args, v)
<1>1. /\ r.pos \in Nat /\ Len(r.w) \in Nat /\ r.args \in Seq(Values)
      /\ \A i \in 1 .. Len(r.w) : r.w[i] \in Int
  BY ReaderParts, LenProperties
<1>2. r.pos + 1 \in 1 .. Len(r.w) BY <1>1
<1>3. CASE rawFits(r)
  <2> DEFINE v == <<"raw", IF rawWords(r) = 0 THEN 0 ELSE r.w[r.pos + 2]>>
  <2>1. rawWords(r) \in Int BY <1>1, <1>2 DEF rawWords
  <2>2. rawWords(r) # 0 => r.pos + 2 \in 1 .. Len(r.w) BY <1>1, <1>3, <2>1 DEF rawFits
  <2>3. v \in Values /\ v[1] # "unset" BY <1>1, <2>2 DEF Values, Kinds
  <2>4. Step(r, "raw").args = Append(r.args, v) BY <1>3, StepRaw DEF At
  <2> HIDE DEF v
  <2> QED BY <2>3, <2>4
<1>4. CASE ~rawFits(r)
  <2> DEFINE v == notFitting(r)
  <2>1. v \in Values /\ v[1] # "unset" BY <1>1, <1>2 DEF notFitting, Values, Kinds
  <2>2. Step(r, "raw").args = Append(r.args, v) BY <1>4, StepRaw DEF At
  <2> HIDE DEF v
  <2> QED BY <2>1, <2>2
<1> QED BY <1>3, <1>4

LEMMA StepTight ==
  ASSUME NEW r \in Tight, NEW k \in Reads
  PROVE  Step(r, k) \in Tight
<1>1. /\ r \in Readers /\ r.pos \in Nat /\ Len(r.w) \in Nat /\ r.pos <= Len(r.w)
      /\ r.args \in Seq(Values) /\ \A i \in 1 .. Len(r.w) : r.w[i] \in Int
  BY ReaderParts, LenProperties DEF Tight
<1>2. r.valid /\ HasUnset(r.args) => r.pos = Len(r.w) /\ r.ok = FALSE BY DEF Tight
<1>3. CASE ~r.valid BY <1>1, <1>3, StepInvalid
<1>4. CASE r.valid /\ k = "check" BY <1>1, <1>2, <1>4, StepCheck DEF Tight
<1>5. CASE r.valid /\ k \in {"int", "byte"} /\ r.pos < Len(r.w)
  <2> DEFINE v == <<k, r.w[r.pos + 1]>>
  <2>1. r.pos + 1 \in 1 .. Len(r.w) BY <1>1, <1>5
  <2>2. v \in Values /\ v[1] # "unset" BY <1>1, <1>5, <2>1 DEF Values, Kinds
  <2>3. At(Step(r, k), r, r.pos + 1, TRUE, Append(r.args, v), r.live) BY <1>1, <1>5, StepWord
  <2> HIDE DEF v
  <2>4. ~HasUnset(Append(r.args, v)) BY <1>1, <1>2, <1>5, <2>2, UnsetAppended
  <2> QED BY <2>3, <2>4 DEF At, Tight
<1>6. CASE r.valid /\ k \in {"int", "byte"} /\ r.pos = Len(r.w)
  BY <1>1, <1>6, StepWord DEF At, Tight
<1>7. CASE r.valid /\ k = "str"
  <2>1. CASE HasUnset(r.args)
    <3>1. At(Step(r, k), r, r.pos, r.ok, Append(r.args, <<"str", -1>>), r.live)
      BY <1>1, <1>2, <1>7, <2>1, StepString, StringParts
    <3> QED BY <1>2, <1>7, <2>1, <3>1 DEF At, Tight
  <2>2. CASE ~HasUnset(r.args)
    <3>1. PICK v \in Values : v[1] = "str" /\ Step(r, k).args = Append(r.args, v)
      <4>1. CASE stringFits(r)
        <5> DEFINE v == <<"str", IF lengthAt(r) = 0 THEN 0 ELSE r.w[afterLength(r) + 1]>>
        <5>1. v \in Values BY <1>1, <4>1, StringParts DEF Values, Kinds
        <5>2. Step(r, k).args = Append(r.args, v) BY <1>1, <1>7, <4>1, StepString DEF At
        <5>3. v[1] = "str" OBVIOUS
        <5> HIDE DEF v
        <5> QED BY <5>1, <5>2, <5>3
      <4>2. CASE ~stringFits(r)
        <5>1. <<"str", -1>> \in Values BY DEF Values, Kinds
        <5>2. Step(r, k).args = Append(r.args, <<"str", -1>>) BY <1>1, <1>7, <4>2, StepString DEF At
        <5> QED BY <5>1, <5>2
      <4> QED BY <4>1, <4>2
    <3>2. ~HasUnset(Step(r, k).args) BY <1>1, <2>2, <3>1, UnsetAppended
    <3> QED BY <1>1, <3>2, StepKeeps DEF Tight
  <2> QED BY <2>1, <2>2
<1>8. CASE r.valid /\ k = "raw" /\ r.pos = Len(r.w)
  <2>1. Step(r, k) = [r EXCEPT !.valid = FALSE] BY <1>1, <1>8, StepRaw
  <2>2. Step(r, k) \in Readers BY <1>1, StepKeeps
  <2>3. Step(r, k).valid = FALSE BY <1>1, <2>1 DEF Readers
  <2> QED BY <2>2, <2>3 DEF Tight
<1>9. CASE r.valid /\ k = "raw" /\ r.pos < Len(r.w)
  <2>1. ~HasUnset(r.args) BY <1>1, <1>2, <1>9
  <2>2. PICK v \in Values : v[1] # "unset" /\ Step(r, k).args = Append(r.args, v)
    BY <1>1, <1>9, RawAppends
  <2>3. Step(r, k) \in Readers BY <1>1, StepKeeps
  <2>4. ~HasUnset(Step(r, k).args) BY <1>1, <2>1, <2>2, UnsetAppended
  <2> QED BY <2>3, <2>4 DEF Tight
<1> QED BY <1>1, <1>3, <1>4, <1>5, <1>6, <1>7, <1>8, <1>9 DEF Reads, Kinds

LEMMA SeqCases ==
  ASSUME NEW K, NEW P, <<>> \in P, \A s \in Seq(K) : \A k \in K : s \in P => Append(s, k) \in P
  PROVE  \A s \in Seq(K) : s \in P
<1> DEFINE N == {n \in Nat : \A s \in Seq(K) : Len(s) = n => s \in P}
<1>1. 0 \in N
  <2>1. ASSUME NEW s \in Seq(K), Len(s) = 0 PROVE s = <<>> BY <2>1, EmptySeq
  <2> QED BY <2>1
<1>2. ASSUME NEW n \in Nat, n \in N PROVE n + 1 \in N
  <2> SUFFICES ASSUME NEW s \in Seq(K), Len(s) = n + 1 PROVE s \in P OBVIOUS
  <2> DEFINE t == SubSeq(s, 1, n)
             k == s[n + 1]
  <2>1. \A i \in 1 .. n + 1 : s[i] \in K BY ElementOfSeq
  <2>2. t \in Seq(K) /\ Len(t) = n /\ k \in K /\ \A i \in 1 .. n : t[i] = s[i]
    <3>1. n + 1 \in 1 .. n + 1 BY <1>2
    <3> QED BY <2>1, <3>1, SubSeqProperties
  <2>3. s = Append(t, k)
    <3> HIDE DEF t, k
    <3>1. /\ Append(t, k) \in Seq(K) /\ Len(Append(t, k)) = n + 1
          /\ \A i \in 1 .. n : Append(t, k)[i] = t[i]
          /\ Append(t, k)[n + 1] = k
      BY <2>2, AppendProperties
    <3>2. \A i \in 1 .. n + 1 : i \in 1 .. n \/ i = n + 1 OBVIOUS
    <3>3. \A i \in 1 .. n + 1 : s[i] = Append(t, k)[i] BY <2>2, <3>1, <3>2 DEF k
    <3> QED BY <3>1, <3>3, SeqEqual
  <2>4. t \in P BY <1>2, <2>2
  <2> HIDE DEF t, k
  <2> QED BY <2>2, <2>3, <2>4
<1>3. \A n \in Nat : n \in N
  <2> HIDE DEF N
  <2> QED BY <1>1, <1>2, EveryNumber
<1> QED BY <1>3, LenProperties

\* Two runs, one after the other.
LEMMA RunConcat ==
  ASSUME NEW r, NEW K, NEW a \in Seq(K), NEW b \in Seq(K)
  PROVE  Run(r, a \o b) = Run(Run(r, a), b)
<1> DEFINE P == {t \in Seq(K) : Run(r, a \o t) = Run(Run(r, a), t)}
<1>1. <<>> \in P
  <2>1. <<>> \in Seq(K) /\ a \o <<>> = a BY ConcatEmptySeq
  <2> QED BY <2>1, RunNothing
<1>2. ASSUME NEW t \in Seq(K), NEW k \in K, t \in P PROVE Append(t, k) \in P
  <2>1. a \o t \in Seq(K) /\ Append(t, k) \in Seq(K) BY ConcatProperties, AppendProperties
  <2>2. a \o Append(t, k) = Append(a \o t, k)
    <3>1. <<k>> \in Seq(K) OBVIOUS
    <3>2. Append(t, k) = t \o <<k>> /\ Append(a \o t, k) = (a \o t) \o <<k>>
      BY <2>1, AppendIsConcat
    <3>3. (a \o t) \o <<k>> = a \o (t \o <<k>>) BY <3>1, ConcatAssociative
    <3> QED BY <3>2, <3>3
  <2>3. Run(r, Append(a \o t, k)) = Step(Run(r, a \o t), k) BY <2>1, RunAppend
  <2>4. Run(Run(r, a), Append(t, k)) = Step(Run(Run(r, a), t), k) BY RunAppend
  <2>5. Run(r, a \o t) = Run(Run(r, a), t) BY <1>2
  <2> QED BY <2>1, <2>2, <2>3, <2>4, <2>5
<1>3. b \in P
  <2> HIDE DEF P
  <2> QED BY <1>1, <1>2, SeqCases
<1> QED BY <1>3

LEMMA RunOne == ASSUME NEW r, NEW k PROVE Run(r, <<k>>) = Step(r, k)
<1>1. <<>> \in Seq({k}) /\ <<k>> = Append(<<>>, k) OBVIOUS
<1>2. Run(r, Append(<<>>, k)) = Step(Run(r, <<>>), k) BY ZenonT(30), <1>1, RunAppend
<1> QED BY <1>1, <1>2, RunNothing

LEMMA RepeatIsSeq ==
  ASSUME NEW n \in Int, NEW K, NEW k \in K
  PROVE  /\ Repeat(n, k) \in Seq(K)
         /\ Len(Repeat(n, k)) = IF n <= 0 THEN 0 ELSE n
         /\ \A i \in 1 .. Len(Repeat(n, k)) : Repeat(n, k)[i] = k
<1>1. CASE n <= 0 BY <1>1 DEF Repeat
<1>2. CASE n > 0
  <2>1. n \in Nat BY <1>2
  <2>2. Repeat(n, k) = [i \in 1 .. n |-> k] BY <1>2 DEF Repeat
  <2> QED BY <1>2, <2>1, <2>2
<1> QED BY <1>1, <1>2

LEMMA RepeatAppend ==
  ASSUME NEW n \in Nat, NEW K, NEW k \in K
  PROVE  /\ Repeat(0, k) = <<>>
         /\ Repeat(n + 1, k) = Append(Repeat(n, k), k)
<1>1. Repeat(0, k) = <<>> BY DEF Repeat
<1> DEFINE a == Repeat(n + 1, k)
           b == Repeat(n, k)
           c == Append(b, k)
<1>2. a \in Seq(K) /\ Len(a) = n + 1 /\ \A i \in 1 .. n + 1 : a[i] = k
  <2>1. n + 1 \in Int /\ (IF n + 1 <= 0 THEN 0 ELSE n + 1) = n + 1 OBVIOUS
  <2> QED BY <2>1, RepeatIsSeq
<1>3. b \in Seq(K) /\ Len(b) = n /\ \A i \in 1 .. n : b[i] = k
  <2>1. n \in Int /\ (IF n <= 0 THEN 0 ELSE n) = n OBVIOUS
  <2> QED BY <2>1, RepeatIsSeq
<1> HIDE DEF a, b
<1>4. /\ c \in Seq(K) /\ Len(c) = n + 1 /\ c[n + 1] = k
      /\ \A i \in 1 .. n : c[i] = b[i]
  BY <1>3, AppendProperties
<1> HIDE DEF c
<1>5. \A i \in 1 .. n + 1 : i \in 1 .. n \/ i = n + 1 OBVIOUS
<1>6. \A i \in 1 .. n + 1 : a[i] = c[i] BY <1>2, <1>3, <1>4, <1>5
<1>7. a = c BY <1>2, <1>4, <1>6, SeqEqual
<1> QED BY <1>1, <1>7 DEF a, b, c

-----------------------------------------------------------------------------
(* No member that was not read reaches onRequest.                             *)

LEMMA StartClean ==
  ASSUME NEW p \in Seq(Int)
  PROVE  Start(p) \in Clean /\ Start(p).live = 0 /\ Start(p).args = <<>>
<1>1. Len(p) \in Nat /\ <<>> \in Seq(Values) /\ Len(<<>>) = 0 BY LenProperties
<1>2. Start(p) \in Readers BY <1>1 DEF Start, Readers
<1>3. Start(p).live = 0 /\ Start(p).args = <<>> BY DEF Start
<1>4. ~HasUnset(<<>>) BY <1>1 DEF HasUnset
<1> QED BY <1>2, <1>3, <1>4 DEF Clean

LEMMA CheckCleans ==
  ASSUME NEW r \in Tight
  PROVE  Step(r, "check") \in Clean
<1>1. r \in Readers BY DEF Tight
<1>2. CASE ~r.valid BY <1>1, <1>2, StepInvalid DEF Clean
<1>3. CASE r.valid
  <2> DEFINE q == Step(r, "check")
  <2>1. q \in Readers /\ q.args = r.args /\ q.valid = r.ok BY <1>1, <1>3, StepCheck
  <2>2. HasUnset(r.args) => ~r.ok BY <1>3 DEF Tight
  <2> HIDE DEF q
  <2>3. q \in Clean BY <2>1, <2>2 DEF Clean
  <2> QED BY <2>3 DEF q
<1> QED BY <1>2, <1>3

LEMMA RawCleans ==
  ASSUME NEW r \in Tight
  PROVE  Step(r, "raw") \in Clean
<1>1. r \in Readers /\ r.pos \in Nat /\ Len(r.w) \in Nat /\ r.pos <= Len(r.w)
  BY ReaderParts DEF Tight
<1> DEFINE q == Step(r, "raw")
<1>2. q \in Tight BY StepTight DEF Reads, Kinds
<1>3. CASE ~r.valid BY <1>1, <1>3, StepInvalid DEF Clean
<1>4. CASE r.valid /\ r.pos = Len(r.w)
  <2>1. q = [r EXCEPT !.valid = FALSE] BY <1>1, <1>4, StepRaw
  <2>2. q.valid = FALSE BY <1>1, <2>1 DEF Readers
  <2> QED BY <1>2, <2>2 DEF Clean, Tight
<1>5. CASE r.valid /\ r.pos < Len(r.w)
  <2>1. ~HasUnset(r.args) BY <1>1, <1>5 DEF Tight
  <2>2. PICK v \in Values : v[1] # "unset" /\ q.args = Append(r.args, v)
    BY <1>1, <1>5, RawAppends
  <2>3. r.args \in Seq(Values) BY <1>1, ReaderParts
  <2>4. ~HasUnset(q.args) BY <2>1, <2>2, <2>3, UnsetAppended
  <2> QED BY <1>2, <2>4 DEF Clean, Tight
<1> QED BY <1>1, <1>3, <1>4, <1>5

LEMMA StringKeepsClean ==
  ASSUME NEW r \in Clean
  PROVE  Step(r, "str") \in Clean
<1>1. r \in Readers BY DEF Clean
<1> DEFINE q == Step(r, "str")
<1>2. CASE ~r.valid BY <1>1, <1>2, StepInvalid
<1>3. CASE r.valid
  <2>1. q \in Readers BY <1>1, StepKeeps DEF Reads, Kinds
  <2>2. PICK x \in Int : q.args = Append(r.args, <<"str", x>>)
    <3>1. CASE stringFits(r)
      <4> DEFINE x == IF lengthAt(r) = 0 THEN 0 ELSE r.w[afterLength(r) + 1]
      <4>1. q.args = Append(r.args, <<"str", x>>) BY <1>1, <1>3, <3>1, StepString DEF At
      <4>2. x \in Int
        <5>1. \A i \in 1 .. Len(r.w) : r.w[i] \in Int BY <1>1, ReaderParts, LenProperties
        <5> QED BY <1>1, <3>1, <5>1, StringParts
      <4> HIDE DEF x
      <4> QED BY <4>1, <4>2
    <3>2. CASE ~stringFits(r)
      <4>1. q.args = Append(r.args, <<"str", -1>>) BY <1>1, <1>3, <3>2, StepString DEF At
      <4> QED BY <4>1
    <3> QED BY <3>1, <3>2
  <2>3. <<"str", x>> \in Values /\ r.args \in Seq(Values) BY <1>1, ReaderParts DEF Values, Kinds
  <2>4. ~HasUnset(r.args) BY <1>3 DEF Clean
  <2>5. ~HasUnset(q.args) BY <2>2, <2>3, <2>4, UnsetAppended
  <2> QED BY <2>1, <2>5 DEF Clean
<1> QED BY <1>2, <1>3

\* Any run that ends with a look at the status.
LEMMA RunChecked ==
  ASSUME NEW r \in Tight, NEW kinds \in Seq(Reads)
  PROVE  /\ Run(r, kinds) \in Tight
         /\ Run(r, Append(kinds, "check")) \in Clean
         /\ Run(r, Append(kinds, "raw")) \in Clean
<1>1. "check" \in Reads /\ "raw" \in Reads BY DEF Reads, Kinds
<1>2. Run(r, kinds) \in Tight BY StepTight, RunKeeps
<1>3. /\ Run(r, Append(kinds, "check")) = Step(Run(r, kinds), "check")
      /\ Run(r, Append(kinds, "raw")) = Step(Run(r, kinds), "raw")
  BY <1>1, RunAppend
<1> QED BY <1>2, <1>3, CheckCleans, RawCleans

\* The strings that are allocated.
LEMMA RunLive ==
  ASSUME NEW r \in Readers, NEW kinds \in Seq(Reads \ {"str"})
  PROVE  Run(r, kinds) \in Readers /\ Run(r, kinds).live = r.live
<1> DEFINE X == {x \in Readers : x.live = r.live}
<1>1. \A x \in X : \A k \in Reads \ {"str"} : Step(x, k) \in X BY StepKeeps
<1>2. r \in X OBVIOUS
<1> HIDE DEF X
<1>3. Run(r, kinds) \in X BY <1>1, <1>2, RunKeeps
<1> QED BY <1>3 DEF X

LEMMA DropKeeps ==
  ASSUME NEW r \in Readers
  PROVE  /\ Drop(r) \in Readers /\ Drop(r).live = r.live /\ Drop(r).valid = r.valid
         /\ r \in Clean => Drop(r) \in Clean
<1>1. r.args \in Seq(Values) /\ Len(r.args) \in Nat BY ReaderParts, LenProperties
<1>2. CASE r.args = <<>> BY <1>2 DEF Drop
<1>3. CASE r.args # <<>>
  <2> DEFINE n == Len(r.args) - 1
             less == SubSeq(r.args, 1, n)
  <2>1. n \in Nat BY <1>1, <1>3, EmptySeq
  <2>2. \A i \in 1 .. n : i \in 1 .. Len(r.args) BY <1>1
  <2>3. \A i \in 1 .. n : r.args[i] \in Values BY <1>1, <2>2, ElementOfSeq
  <2>4. less \in Seq(Values) /\ Len(less) = n /\ \A i \in 1 .. n : less[i] = r.args[i]
    BY <2>1, <2>3, SubSeqProperties
  <2>5. Drop(r) = [r EXCEPT !.args = less] BY <1>3 DEF Drop
  <2>6. HasUnset(less) => HasUnset(r.args) BY <2>2, <2>4 DEF HasUnset
  <2> HIDE DEF less, n
  <2>7. /\ Drop(r) \in Readers /\ Drop(r).live = r.live /\ Drop(r).valid = r.valid
        /\ Drop(r).args = less
    BY <2>4, <2>5 DEF Readers
  <2> QED BY <2>6, <2>7 DEF Clean
<1> QED BY <1>2, <1>3

LEMMA LastIsInt == ASSUME NEW r \in Readers PROVE Last(r) \in Int
<1>1. r.args \in Seq(Values) /\ Len(r.args) \in Nat BY ReaderParts, LenProperties
<1>2. CASE r.args = <<>> BY <1>2 DEF Last
<1>3. CASE r.args # <<>>
  <2>1. Len(r.args) \in 1 .. Len(r.args) BY <1>1, <1>3, EmptySeq
  <2>2. r.args[Len(r.args)] \in Values BY <1>1, <2>1, ElementOfSeq
  <2> QED BY <1>3, <2>2 DEF Last, Values
<1> QED BY <1>2, <1>3

\* A condition more that a block has to meet.
LEMMA NarrowedKeeps ==
  ASSUME NEW r \in Readers, NEW b \in BOOLEAN
  PROVE  LET q == [r EXCEPT !.valid = @ /\ b]
         IN /\ q \in Readers /\ q.live = r.live /\ q.args = r.args /\ q.w = r.w
            /\ q.pos = r.pos /\ q.ok = r.ok /\ (q.valid <=> r.valid /\ b)
            /\ r \in Clean => q \in Clean
<1> DEFINE q == [r EXCEPT !.valid = @ /\ b]
<1>1. /\ q.w = r.w /\ q.pos = r.pos /\ q.ok = r.ok /\ q.args = r.args /\ q.live = r.live
      /\ q.valid = (r.valid /\ b)
  BY DEF Readers
<1>2. q \in Readers BY DEF Readers
<1> HIDE DEF q
<1>3. r \in Clean => q \in Clean BY <1>1, <1>2 DEF Clean
<1>4. q.valid <=> r.valid /\ b BY <1>1, Zenon
<1> QED BY <1>1, <1>2, <1>3, <1>4, Zenon DEF q

LEMMA OutcomeParts ==
  ASSUME NEW r \in Readers, NEW null, NEW elems, NEW freed
  PROVE  LET o == Outcome(r, null, elems, freed)
         IN /\ o.valid = r.valid
            /\ r.valid => /\ o.data = Datum(null, elems) /\ o.data.elems = elems
                          /\ o.leak = r.live - freed
BY DEF Outcome, Datum

\* What no block makes a dispatch function hand over: a member it did not read,
\* or a string it does not free.
NoUnset(elems) ==
  \A i \in DOMAIN elems : \A j \in DOMAIN elems[i] : elems[i][j][1] # "unset"

Sound(o) == o.valid => NoUnset(o.data.elems) /\ ~(o.leak > 0)

LEMMA OneNoUnset ==
  ASSUME NEW args \in Seq(Values), ~HasUnset(args)
  PROVE  NoUnset(<<args>>) /\ NoUnset(Singles(args))
<1>1. DOMAIN args = 1 .. Len(args) BY LenProperties
<1>2. \A i \in DOMAIN args : args[i][1] # "unset" BY <1>1 DEF HasUnset
<1>3. NoUnset(<<args>>) BY <1>2 DEF NoUnset
<1>4. NoUnset(Singles(args)) BY <1>2 DEF NoUnset, Singles
<1> QED BY <1>3, <1>4

LEMMA ChunksNoUnset ==
  ASSUME NEW args \in Seq(Values), ~HasUnset(args), NEW n \in Nat \ {0}
  PROVE  NoUnset(Chunks(args, n))
<1> DEFINE m == Len(args) \div n
<1>1. Len(args) \in Nat BY LenProperties
<1>2. m \in Nat /\ m * n <= Len(args) BY <1>1
<1>3. ASSUME NEW i \in 1 .. m, NEW j \in DOMAIN Chunks(args, n)[i]
      PROVE  Chunks(args, n)[i][j][1] # "unset"
  <2> DEFINE a == (i - 1) * n + 1
             b == i * n
             c == SubSeq(args, a, b)
  <2>1. a \in Nat /\ a >= 1 /\ b \in Nat /\ b <= Len(args) /\ b - a + 1 = n
    <3>1. i - 1 \in Nat /\ i \in Nat /\ i <= m BY <1>2
    <3>2. (i - 1) * n \in Nat /\ i * n \in Nat /\ (i - 1) * n = i * n - n BY <3>1
    <3>3. i * n <= m * n BY <1>2, <3>1
    <3> QED BY <1>1, <1>2, <3>2, <3>3
  <2> HIDE DEF a, b
  <2>2. \A k \in a .. b : k \in 1 .. Len(args) BY <1>1, <2>1
  <2>3. \A k \in a .. b : args[k] \in Values BY <2>2, ElementOfSeq
  <2>4. /\ c \in Seq(Values) /\ Len(c) = n /\ \A k \in 1 .. n : c[k] = args[a + k - 1]
    BY <2>1, <2>3, SubSeqProperties
  <2>5. Chunks(args, n)[i] = c BY DEF Chunks, a, b
  <2> HIDE DEF c
  <2>6. j \in 1 .. n BY <2>4, <2>5, LenProperties
  <2>7. a + j - 1 \in a .. b BY <2>1, <2>6
  <2>8. args[a + j - 1][1] # "unset" BY <2>2, <2>7 DEF HasUnset
  <2> QED BY <2>4, <2>5, <2>6, <2>8
<1>4. DOMAIN Chunks(args, n) = 1 .. m BY DEF Chunks
<1> QED BY <1>3, <1>4 DEF NoUnset

LEMMA SoundOutcome ==
  ASSUME NEW r \in Clean, NEW null, NEW freed \in Int, r.live <= freed
  PROVE  /\ Sound(Outcome(r, null, <<r.args>>, freed))
         /\ Sound(Outcome(r, null, Singles(r.args), freed))
         /\ \A n \in Nat \ {0} : Sound(Outcome(r, null, Chunks(r.args, n), freed))
<1>1. r \in Readers /\ r.live \in Nat /\ r.args \in Seq(Values) BY ReaderParts DEF Clean
<1>2. r.valid => ~HasUnset(r.args) BY DEF Clean
<1>3. ASSUME NEW elems, r.valid => NoUnset(elems)
      PROVE  Sound(Outcome(r, null, elems, freed))
  <2> DEFINE o == Outcome(r, null, elems, freed)
  <2>1. o.valid = r.valid /\ (r.valid => o.data.elems = elems /\ o.leak = r.live - freed)
    BY <1>1, OutcomeParts
  <2>2. ~(r.live - freed > 0) BY <1>1
  <2> HIDE DEF o
  <2>3. Sound(o) BY <1>3, <2>1, <2>2 DEF Sound
  <2> QED BY <2>3 DEF o
<1>4. r.valid => NoUnset(<<r.args>>) /\ NoUnset(Singles(r.args)) BY <1>1, <1>2, OneNoUnset
<1>5. \A n \in Nat \ {0} : r.valid => NoUnset(Chunks(r.args, n)) BY <1>1, <1>2, ChunksNoUnset
<1> QED BY <1>3, <1>4, <1>5

LEMMA SoundVoid == ASSUME NEW p \in Seq(Int) PROVE Sound(dispatchVoid(p))
<1>1. Start(p) \in Readers /\ Start(p).live = 0 BY StartClean DEF Clean
<1> DEFINE r == Start(p)
           null == TRUE
           o == Outcome(r, null, <<>>, 0)
<1> HIDE DEF null
<1>2. o.valid = r.valid /\ (r.valid => o.data.elems = <<>> /\ o.leak = r.live - 0)
  BY <1>1, OutcomeParts
<1>3. NoUnset(<<>>) BY DEF NoUnset
<1>4. ~(r.live - 0 > 0) BY <1>1
<1>5. dispatchVoid(p) = o BY DEF dispatchVoid, null
<1> HIDE DEF r, o
<1> QED BY <1>2, <1>3, <1>4, <1>5 DEF Sound

LEMMA SoundString == ASSUME NEW p \in Seq(Int) PROVE Sound(dispatchString(p))
<1> DEFINE r == Run(Start(p), <<"str">>)
<1>1. r = Step(Start(p), "str") BY RunOne
<1>2. r \in Clean BY <1>1, StartClean, StringKeepsClean
<1>3. r.live \in Int /\ r.live <= r.live BY <1>2, ReaderParts DEF Clean
<1>4. dispatchString(p) = Outcome(r, FALSE, <<r.args>>, r.live) BY DEF dispatchString
<1> HIDE DEF r
<1> QED BY <1>2, <1>3, <1>4, SoundOutcome

\* The count at the head of an array.
LEMMA HeadClean ==
  ASSUME NEW p \in Seq(Int)
  PROVE  LET h == Run(Start(p), <<"int", "check">>)
         IN /\ h \in Clean /\ h.live = 0 /\ Last(h) \in Int
            /\ Drop(h) \in Clean /\ Drop(h).live = 0
<1> DEFINE h == Run(Start(p), <<"int", "check">>)
<1>1. Start(p) \in Clean /\ Start(p) \in Readers /\ Start(p).live = 0 BY StartClean DEF Clean
<1>2. Start(p) \in Tight BY <1>1, CleanIsTight
<1>3. h \in Clean
  <2>1. <<"int", "check">> = Append(<<"int">>, "check") /\ <<"int">> \in Seq(Reads)
    BY DEF Reads, Kinds
  <2> QED BY <1>2, <2>1, RunChecked
<1>4. h.live = 0
  <2>1. <<"int", "check">> \in Seq(Reads \ {"str"}) BY DEF Reads, Kinds
  <2> QED BY <1>1, <2>1, RunLive
<1> HIDE DEF h
<1>5. h \in Readers BY <1>3 DEF Clean
<1>6. Last(h) \in Int /\ Drop(h) \in Clean /\ Drop(h).live = 0
  BY <1>3, <1>4, <1>5, LastIsInt, DropKeeps
<1> QED BY <1>3, <1>4, <1>6, Zenon DEF h

LEMMA SoundStrings == ASSUME NEW p \in Seq(Int) PROVE Sound(dispatchStrings(p))
<1> DEFINE h == Run(Start(p), <<"int", "check">>)
           r == Run(Drop(h), Repeat(Last(h), "str"))
<1>1. Last(h) \in Int /\ Drop(h) \in Clean BY HeadClean
<1>2. dispatchStrings(p) = Outcome(r, Last(h) = -1, Singles(r.args), r.live) BY DEF dispatchStrings
<1> HIDE DEF h
<1>3. Repeat(Last(h), "str") \in Seq({"str"}) BY <1>1, RepeatIsSeq
<1>4. \A x \in Clean : \A k \in {"str"} : Step(x, k) \in Clean BY StringKeepsClean
<1>5. r \in Clean BY <1>1, <1>3, <1>4, RunKeeps
<1> HIDE DEF r
<1>6. r.live \in Int /\ r.live <= r.live BY <1>5, ReaderParts DEF Clean
<1> QED BY <1>2, <1>5, <1>6, SoundOutcome

LEMMA SoundInts == ASSUME NEW p \in Seq(Int) PROVE Sound(dispatchInts(p))
<1> DEFINE h == Run(Start(p), <<"int", "check">>)
           n == Last(h)
           c == [Drop(h) EXCEPT !.valid = @ /\ Last(h) # 0]
           pair == <<"int", "check">>
           K == Reads \ {"str"}
           r == Run(c, Concat(Repeat(n, pair)))
<1>1. n \in Int /\ Drop(h) \in Clean /\ Drop(h).live = 0 BY HeadClean
<1>2. dispatchInts(p) = Outcome(r, FALSE, Singles(r.args), 0) BY DEF dispatchInts
<1>3. c \in Clean /\ c.live = 0
  <2>1. (Last(h) # 0) \in BOOLEAN OBVIOUS
  <2> DEFINE d == Drop(h)
             b == Last(h) # 0
  <2>2. d \in Readers /\ d \in Clean /\ d.live = 0 BY <1>1 DEF Clean
  <2>3. c = [d EXCEPT !.valid = @ /\ b] OBVIOUS
  <2> HIDE DEF d, b, c
  <2>4. b \in BOOLEAN BY DEF b
  <2> QED BY <2>2, <2>3, <2>4, NarrowedKeeps
<1> HIDE DEF h, n, c
<1>4. pair \in Seq(K) /\ "int" \in K /\ "check" \in K BY DEF Reads, Kinds
<1>5. r \in Clean /\ r.live = 0
  <2>1. CASE n <= 0
    <3>1. Repeat(n, pair) = <<>> BY <2>1 DEF Repeat
    <3>2. r = c BY <3>1, ConcatNothing, RunNothing
    <3> QED BY <1>3, <3>2
  <2>2. CASE n > 0
    <3> DEFINE m == n - 1
               before == Concat(Repeat(m, pair))
    <3>1. m \in Nat /\ n = m + 1 BY <1>1, <2>2
    <3>2. Repeat(n, pair) = Append(Repeat(m, pair), pair)
      <4> HIDE DEF m, pair
      <4> QED BY <1>4, <3>1, RepeatAppend
    <3>3. Repeat(m, pair) \in Seq(Seq(K))
      <4> HIDE DEF m, pair
      <4> QED BY <1>4, <3>1, RepeatIsSeq
    <3> HIDE DEF m
    <3>4. before \in Seq(K) BY <3>3, ConcatIsSeq
    <3>5. Concat(Repeat(n, pair)) = before \o pair
      <4> HIDE DEF pair, K
      <4> QED BY <1>4, <3>2, <3>3, ConcatAppend
    <3> HIDE DEF before
    <3>6. before \o pair = Append(Append(before, "int"), "check")
      <4>1. <<"int">> \in Seq(K) /\ <<"check">> \in Seq(K) /\ pair = <<"int">> \o <<"check">> BY <1>4
      <4> HIDE DEF pair, K
      <4>2. Append(before, "int") \in Seq(K) BY <1>4, <3>4, AppendProperties
      <4>3. Append(before, "int") = before \o <<"int">> BY <1>4, <3>4, AppendIsConcat
      <4>4. Append(Append(before, "int"), "check") = (before \o <<"int">>) \o <<"check">>
        BY <1>4, <4>2, <4>3, AppendIsConcat
      <4>5. (before \o <<"int">>) \o <<"check">> = before \o pair
        BY <3>4, <4>1, ConcatAssociative
      <4> QED BY <4>4, <4>5
    <3>7. Append(before, "int") \in Seq(K) /\ K \subseteq Reads BY <1>4, <3>4, AppendProperties
    <3>8. Append(before, "int") \in Seq(Reads) BY <3>7, SeqMonotonic
    <3>9. r \in Clean BY <1>3, <3>5, <3>6, <3>8, CleanIsTight, RunChecked
    <3>10. before \o pair \in Seq(K) BY <1>4, <3>4, ConcatProperties
    <3>11. c \in Readers BY <1>3 DEF Clean
    <3> QED BY <1>3, <3>5, <3>9, <3>10, <3>11, RunLive
  <2> QED BY <1>1, <2>1, <2>2
<1> HIDE DEF r
<1>6. r.live <= 0 /\ 0 \in Int BY <1>5
<1> QED BY <1>2, <1>5, <1>6, SoundOutcome

\* The functions that read no string and look at the status at the end.
LEMMA SoundChecked ==
  ASSUME NEW r \in Tight, r.live = 0, NEW kinds \in Seq(Reads \ {"str"})
  PROVE  LET q == Run(r, Append(kinds, "check"))
         IN /\ q \in Clean /\ q.live = 0
            /\ Sound(Outcome(q, FALSE, <<q.args>>, 0))
            /\ \A n \in Nat \ {0} : Sound(Outcome(q, FALSE, Chunks(q.args, n), 0))
<1> DEFINE q == Run(r, Append(kinds, "check"))
<1>1. "check" \in Reads \ {"str"} /\ Reads \ {"str"} \subseteq Reads BY DEF Reads, Kinds
<1>2. kinds \in Seq(Reads) BY <1>1, SeqMonotonic
<1>3. Append(kinds, "check") \in Seq(Reads \ {"str"}) BY <1>1, AppendProperties
<1>4. q \in Clean BY <1>2, RunChecked
<1>5. r \in Readers BY DEF Tight
<1>6. q.live = 0 BY <1>3, <1>5, RunLive
<1> HIDE DEF q
<1>7. q.live <= 0 /\ 0 \in Int BY <1>6
<1>8. /\ Sound(Outcome(q, FALSE, <<q.args>>, 0))
      /\ \A n \in Nat \ {0} : Sound(Outcome(q, FALSE, Chunks(q.args, n), 0))
  BY <1>4, <1>7, SoundOutcome
<1> QED BY <1>4, <1>6, <1>8, Zenon DEF q

LEMMA SoundCdmaSmsAck == ASSUME NEW p \in Seq(Int) PROVE Sound(dispatchCdmaSmsAck(p))
<1> DEFINE kinds == <<"int", "int">>
           r == Run(Start(p), Append(kinds, "check"))
<1>1. Start(p) \in Tight /\ Start(p).live = 0 BY StartClean, CleanIsTight
<1>2. kinds \in Seq(Reads \ {"str"}) /\ <<"int", "int", "check">> = Append(kinds, "check")
  BY DEF Reads, Kinds
<1>3. dispatchCdmaSmsAck(p) = Outcome(r, FALSE, <<r.args>>, 0)
  <2> HIDE DEF kinds
  <2> QED BY <1>2 DEF dispatchCdmaSmsAck
<1> HIDE DEF kinds
<1>4. Sound(Outcome(r, FALSE, <<r.args>>, 0)) BY <1>1, <1>2, SoundChecked
<1> QED BY <1>3, <1>4

LEMMA SoundRecords ==
  ASSUME NEW p \in Seq(Int), NEW n \in Nat \ {0}
  PROVE  Sound(Records(p, n))
<1> DEFINE h == Run(Start(p), <<"int", "check">>)
           m == n * Last(h)
           kinds == Repeat(m, "int")
           r == Run(Drop(h), Append(kinds, "check"))
<1>1. Last(h) \in Int /\ Drop(h) \in Clean /\ Drop(h).live = 0 BY HeadClean
<1> HIDE DEF h
<1>2. m \in Int BY <1>1
<1>3. "int" \in Reads \ {"str"} /\ "check" \in Reads \ {"str"} BY DEF Reads, Kinds
<1> HIDE DEF m
<1>4. kinds \in Seq(Reads \ {"str"}) BY <1>2, <1>3, RepeatIsSeq
<1> HIDE DEF kinds
<1>5. kinds \o <<"check">> = Append(kinds, "check") BY <1>3, <1>4, AppendIsConcat
<1>6. Records(p, n) = Outcome(r, FALSE, Chunks(r.args, n), 0)
  BY <1>5 DEF Records, h, m, kinds
<1>7. Sound(Outcome(r, FALSE, Chunks(r.args, n), 0)) BY <1>1, <1>4, CleanIsTight, SoundChecked
<1> QED BY <1>6, <1>7

LEMMA SoundWriteArgs == ASSUME NEW p \in Seq(Int) PROVE Sound(dispatchRilCdmaSmsWriteArgs(p))
<1> DEFINE kinds == <<"int">> \o RIL_CDMA_SMS_Address \o <<"byte">>
                      \o Repeat(AddressMax, "byte") \o RIL_CDMA_SMS_Subaddress
                      \o <<"byte">> \o Repeat(SubaddressMax, "byte")
                      \o <<"int">> \o Repeat(BearerMax, "byte")
           K == Reads \ {"str"}
           r == Run(Start(p), Append(kinds, "check"))
<1>1. Start(p) \in Tight /\ Start(p).live = 0 BY StartClean, CleanIsTight
<1>2. /\ "byte" \in K /\ "check" \in K
      /\ <<"int">> \in Seq(K) /\ <<"byte">> \in Seq(K) /\ <<"check">> \in Seq(K)
      /\ RIL_CDMA_SMS_Address \in Seq(K) /\ RIL_CDMA_SMS_Subaddress \in Seq(K)
  BY DEF Reads, Kinds, RIL_CDMA_SMS_Address, RIL_CDMA_SMS_Subaddress
<1> HIDE DEF K
<1>3. /\ Repeat(AddressMax, "byte") \in Seq(K) /\ Repeat(SubaddressMax, "byte") \in Seq(K)
      /\ Repeat(BearerMax, "byte") \in Seq(K)
  BY <1>2, RepeatIsSeq, SizesAssumption
<1>4. kinds \in Seq(K) BY <1>2, <1>3
<1>5. dispatchRilCdmaSmsWriteArgs(p) = Outcome(Run(Start(p), kinds \o <<"check">>), FALSE,
                                               <<Run(Start(p), kinds \o <<"check">>).args>>, 0)
  BY DEF dispatchRilCdmaSmsWriteArgs
<1> HIDE DEF kinds
<1>6. kinds \o <<"check">> = Append(kinds, "check") BY <1>2, <1>4, AppendIsConcat
<1>7. Sound(Outcome(r, FALSE, <<r.args>>, 0)) BY <1>1, <1>4, SoundChecked DEF K
<1> QED BY <1>5, <1>6, <1>7

\* A count and its bytes.
LEMMA CountedTight ==
  ASSUME NEW r \in Tight, r.live = 0, NEW k \in {"int", "byte"}, NEW max \in Nat
  PROVE  Counted(r, k, max) \in Tight /\ Counted(r, k, max).live = 0
<1> DEFINE c == Step(r, k)
           n == Smaller(Last(c), max)
           kinds == Repeat(n, "byte")
<1>1. k \in Reads /\ k # "str" /\ "byte" \in Reads \ {"str"} /\ r \in Readers
  BY DEF Reads, Kinds, Tight
<1>2. c \in Tight /\ c.live = 0 /\ c \in Readers BY <1>1, StepTight, StepKeeps
<1> HIDE DEF c
<1>3. n \in Int BY <1>2, LastIsInt DEF Smaller
<1> HIDE DEF n
<1>4. kinds \in Seq(Reads \ {"str"}) BY <1>1, <1>3, RepeatIsSeq
<1> HIDE DEF kinds
<1>5. kinds \in Seq(Reads) BY <1>4, SeqMonotonic
<1>6. Counted(r, k, max) = Run(c, kinds) BY DEF Counted, c, n, kinds
<1> QED BY <1>2, <1>4, <1>5, <1>6, RunChecked, RunLive

LEMMA RunTight ==
  ASSUME NEW r \in Tight, r.live = 0, NEW kinds \in Seq(Reads \ {"str"})
  PROVE  Run(r, kinds) \in Tight /\ Run(r, kinds).live = 0
<1>1. kinds \in Seq(Reads) /\ r \in Readers BY SeqMonotonic DEF Tight
<1> QED BY <1>1, RunChecked, RunLive

LEMMA SoundCdmaSms == ASSUME NEW p \in Seq(Int) PROVE Sound(dispatchCdmaSms(p))
<1> DEFINE a1 == Run(Start(p), RIL_CDMA_SMS_Address)
           a == Counted(a1, "byte", AddressMax)
           b1 == Run(a, RIL_CDMA_SMS_Subaddress)
           b == Counted(b1, "byte", SubaddressMax)
           c == Counted(b, "int", BearerMax)
           r == Step(c, "check")
<1>1. /\ RIL_CDMA_SMS_Address \in Seq(Reads \ {"str"})
      /\ RIL_CDMA_SMS_Subaddress \in Seq(Reads \ {"str"})
  BY DEF Reads, Kinds, RIL_CDMA_SMS_Address, RIL_CDMA_SMS_Subaddress
<1>2. dispatchCdmaSms(p) = Outcome(r, FALSE, <<r.args>>, 0) BY DEF dispatchCdmaSms
<1>3. a1 \in Tight /\ a1.live = 0 BY <1>1, StartClean, CleanIsTight, RunTight
<1> HIDE DEF a1
<1>4. a \in Tight /\ a.live = 0 BY <1>3, CountedTight, SizesAssumption
<1> HIDE DEF a
<1>5. b1 \in Tight /\ b1.live = 0 BY <1>1, <1>4, RunTight
<1> HIDE DEF b1
<1>6. b \in Tight /\ b.live = 0 BY <1>5, CountedTight, SizesAssumption
<1> HIDE DEF b
<1>7. c \in Tight /\ c.live = 0 BY <1>6, CountedTight, SizesAssumption
<1> HIDE DEF c
<1>8. r \in Clean BY <1>7, CheckCleans
<1>9. r.live <= 0 /\ 0 \in Int
  <2>1. r.live = c.live BY <1>7, StepKeeps DEF Tight, Reads
  <2> QED BY <1>7, <2>1
<1> HIDE DEF r
<1> QED BY <1>2, <1>8, <1>9, SoundOutcome

LEMMA SIM_IOKinds ==
  LET kinds == <<"int", "int", "str", "int", "int", "int", "str", "str">>
      all == <<"int", "int", "str", "int", "int", "int", "str", "str", "check">>
  IN kinds \in Seq(Reads) /\ all = Append(kinds, "check")
<1> DEFINE kinds == <<"int", "int", "str", "int", "int", "int", "str", "str">>
           all == <<"int", "int", "str", "int", "int", "int", "str", "str", "check">>
<1>1. kinds \in Seq(Reads) BY DEF Reads, Kinds
<1>2. /\ Len(kinds) = 8 /\ Len(all) = 9 /\ all \in Seq(Reads)
      /\ Append(kinds, "check") \in Seq(Reads)
  <2>1. Len(kinds) = 8 /\ Len(all) = 9 OBVIOUS
  <2>2. all \in Seq(Reads) BY DEF Reads, Kinds
  <2>3. "check" \in Reads BY DEF Reads
  <2> QED BY <1>1, <2>1, <2>2, <2>3, AppendProperties
<1>3. \A i \in 1 .. 9 : all[i] = Append(kinds, "check")[i] OBVIOUS
<1>4. Len(Append(kinds, "check")) = 9 OBVIOUS
<1> HIDE DEF kinds, all
<1>5. all = Append(kinds, "check") BY <1>2, <1>3, <1>4, SeqEqual
<1> QED BY <1>1, <1>5 DEF kinds, all

LEMMA SoundSIM_IO == ASSUME NEW p \in Seq(Int) PROVE Sound(dispatchSIM_IO(p))
<1> DEFINE kinds == <<"int", "int", "str", "int", "int", "int", "str", "str">>
           all == <<"int", "int", "str", "int", "int", "int", "str", "str", "check">>
           r == Run(Start(p), all)
<1>1. Start(p) \in Tight BY StartClean, CleanIsTight
<1>2. kinds \in Seq(Reads) /\ all = Append(kinds, "check") BY SIM_IOKinds
<1>3. dispatchSIM_IO(p) = Outcome(r, FALSE, <<r.args>>, r.live) BY DEF dispatchSIM_IO
<1> HIDE DEF kinds, all
<1>4. r \in Clean BY <1>1, <1>2, RunChecked
<1> HIDE DEF r
<1>5. r.live \in Int /\ r.live <= r.live BY <1>4, ReaderParts DEF Clean
<1> QED BY <1>3, <1>4, <1>5, SoundOutcome

LEMMA SoundRaw == ASSUME NEW p \in Seq(Int) PROVE Sound(dispatchRaw(p))
<1> DEFINE r == Run(Start(p), <<"raw">>)
           null == r.valid /\ p[1] = -1
           elems == <<IF null THEN <<<<"raw", 0>>>> ELSE r.args>>
           nothing == FALSE
           o == Outcome(r, nothing, elems, 0)
<1>1. Start(p) \in Tight /\ Start(p) \in Readers /\ Start(p).live = 0
  BY StartClean, CleanIsTight DEF Clean
<1>2. r = Step(Start(p), "raw") BY RunOne
<1>3. r \in Clean BY <1>1, <1>2, RawCleans
<1>4. r.live = 0 BY <1>1, <1>2, StepKeeps DEF Reads, Kinds
<1>5. dispatchRaw(p) = o BY DEF dispatchRaw
<1> HIDE DEF r
<1>6. r \in Readers /\ r.args \in Seq(Values) BY <1>3, ReaderParts DEF Clean
<1>7. r.valid => NoUnset(elems)
  <2>1. NoUnset(<<<<<<"raw", 0>>>>>>) BY DEF NoUnset
  <2>2. r.valid => NoUnset(<<r.args>>) BY <1>3, <1>6, OneNoUnset DEF Clean
  <2> QED BY <2>1, <2>2
<1> HIDE DEF elems, nothing
<1>8. o.valid = r.valid /\ (r.valid => o.data.elems = elems /\ o.leak = r.live - 0)
  BY <1>6, OutcomeParts
<1>9. ~(r.live - 0 > 0) BY <1>4
<1> HIDE DEF o
<1> QED BY <1>5, <1>7, <1>8, <1>9 DEF Sound

LEMMA SoundDial == ASSUME NEW p \in Seq(Int) PROVE Sound(dispatchDial(p))
<1> DEFINE g == Run(Start(p), <<"str", "int", "check">>)
           h == NotNull(g, 1)
           u == Run(h, <<"int", "check">>)
           d == Run(Drop(u), <<"int", "int", "raw">>)
           r == IF version < 3 THEN h ELSE IF Last(u) = 0 THEN Drop(u) ELSE d
<1>1. /\ <<"str">> \in Seq(Reads) /\ <<"str", "int">> \in Seq(Reads)
      /\ <<"int", "check">> \in Seq(Reads \ {"str"})
      /\ <<"int", "int", "raw">> \in Seq(Reads \ {"str"})
      /\ <<"int">> \in Seq(Reads) /\ <<"int", "int">> \in Seq(Reads)
  BY DEF Reads, Kinds
<1>2. /\ <<"str", "int", "check">> = Append(<<"str", "int">>, "check")
      /\ <<"int", "check">> = Append(<<"int">>, "check")
      /\ <<"int", "int", "raw">> = Append(<<"int", "int">>, "raw")
      /\ <<"str", "int", "check">> = <<"str">> \o <<"int", "check">>
  OBVIOUS
<1>3. Start(p) \in Clean /\ Start(p) \in Tight /\ Start(p) \in Readers /\ Start(p).live = 0
  BY StartClean, CleanIsTight DEF Clean
<1>4. g \in Clean BY <1>1, <1>2, <1>3, RunChecked
<1>5. g.live <= 1
  <2> DEFINE s == Step(Start(p), "str")
  <2>1. s \in Readers /\ s.live \in {0, 1} BY <1>3, StepKeeps DEF Reads, Kinds
  <2>2. Run(Start(p), <<"str">>) = s BY RunOne
  <2>3. <<"int", "check">> \in Seq(Reads) BY DEF Reads, Kinds
  <2>4. g = Run(s, <<"int", "check">>)
    <3> DEFINE a == <<"str">>
               b == <<"int", "check">>
    <3>1. a \in Seq(Reads) /\ b \in Seq(Reads) BY <1>1, <2>3
    <3>2. g = Run(Start(p), a \o b) BY <1>2
    <3>3. Run(Start(p), a) = s BY <2>2
    <3> HIDE DEF a, b, s, g
    <3>4. g = Run(s, b) BY <3>1, <3>2, <3>3, RunConcat
    <3> QED BY <3>4 DEF b
  <2> HIDE DEF s, g
  <2>5. g.live = s.live BY <1>1, <2>1, <2>4, RunLive
  <2> QED BY <2>1, <2>5
<1>6. dispatchDial(p) = Outcome(r, FALSE, <<r.args>>, 1) BY DEF dispatchDial
<1> HIDE DEF g
<1>7. h \in Clean /\ h.live = g.live
  <2> DEFINE b == g.args[1][2] # -1
  <2>1. h = [g EXCEPT !.valid = @ /\ b] BY DEF NotNull
  <2>2. b \in BOOLEAN /\ g \in Readers BY <1>4 DEF Clean
  <2> HIDE DEF b, h
  <2> QED BY <1>4, <2>1, <2>2, NarrowedKeeps
<1> HIDE DEF h
<1>8. u \in Clean /\ u.live = h.live
  <2>1. h \in Readers BY <1>7 DEF Clean
  <2> QED BY <1>1, <1>2, <1>7, <2>1, CleanIsTight, RunChecked, RunLive
<1> HIDE DEF u
<1>9. Drop(u) \in Clean /\ Drop(u).live = u.live BY <1>8, DropKeeps DEF Clean
<1>10. d \in Clean /\ d.live = u.live
  <2>1. Drop(u) \in Readers BY <1>9 DEF Clean
  <2> QED BY <1>1, <1>2, <1>9, <2>1, CleanIsTight, RunChecked, RunLive
<1> HIDE DEF d
<1>11. r \in Clean /\ r.live <= 1 /\ 1 \in Int BY <1>5, <1>7, <1>8, <1>9, <1>10
<1> HIDE DEF r
<1> QED BY <1>6, <1>11, SoundOutcome

\* dispatchSmsWrite frees one of its two strings.
LEMMA ReadSmsWrite ==
  ASSUME NEW p \in Seq(Int)
  PROVE  LET o == dispatchSmsWrite(p) IN o.valid => NoUnset(o.data.elems)
<1> DEFINE g == Run(Start(p), <<"int", "str", "check">>)
           h == NotNull(g, 2)
           r == Run(h, <<"str">>)
           null == FALSE
           o == dispatchSmsWrite(p)
<1>1. <<"int", "str">> \in Seq(Reads) /\ <<"int", "str", "check">> = Append(<<"int", "str">>, "check")
  BY DEF Reads, Kinds
<1>2. g \in Clean BY <1>1, StartClean, CleanIsTight, RunChecked
<1>3. o = Outcome(r, null, <<r.args>>, 1) BY DEF dispatchSmsWrite
<1> HIDE DEF g, o, null
<1>4. h \in Clean
  <2> DEFINE b == g.args[2][2] # -1
  <2>1. h = [g EXCEPT !.valid = @ /\ b] BY DEF NotNull
  <2>2. b \in BOOLEAN /\ g \in Readers BY <1>2 DEF Clean
  <2> HIDE DEF b, h
  <2> QED BY <1>2, <2>1, <2>2, NarrowedKeeps
<1> HIDE DEF h
<1>5. r = Step(h, "str") BY RunOne
<1>6. r \in Clean BY <1>4, <1>5, StringKeepsClean
<1> HIDE DEF r
<1>7. r \in Readers /\ r.args \in Seq(Values) BY <1>6, ReaderParts DEF Clean
<1>8. o.valid = r.valid /\ (r.valid => o.data.elems = <<r.args>>) BY <1>3, <1>7, OutcomeParts
<1>9. r.valid => NoUnset(<<r.args>>) BY <1>6, <1>7, OneNoUnset DEF Clean
<1>10. o.valid => NoUnset(o.data.elems) BY <1>8, <1>9
<1> QED BY <1>10 DEF o

\* A word and a string are one value each, whatever there is to read.
LEMMA RunCount ==
  ASSUME NEW r \in Readers, r.valid, NEW kinds \in Seq({"int", "byte", "str"})
  PROVE  /\ Run(r, kinds) \in Readers /\ Run(r, kinds).valid
         /\ Len(Run(r, kinds).args) = Len(r.args) + Len(kinds)
<1> DEFINE K == {"int", "byte", "str"}
           Good(q, n) == q \in Readers /\ q.valid /\ Len(q.args) = n
           P == {s \in Seq(K) : Good(Run(r, s), Len(r.args) + Len(s))}
<1>1. Len(r.args) \in Nat BY ReaderParts, LenProperties
<1>2. <<>> \in P
  <2>1. <<>> \in Seq(K) /\ Len(<<>>) = 0 /\ Run(r, <<>>) = r BY RunNothing
  <2> QED BY <1>1, <2>1
<1>3. ASSUME NEW s \in Seq(K), NEW k \in K, s \in P PROVE Append(s, k) \in P
  <2> DEFINE q == Run(r, s)
             t == Step(q, k)
  <2>1. q \in Readers /\ q.valid /\ Len(q.args) = Len(r.args) + Len(s) BY <1>3
  <2>2. Run(r, Append(s, k)) = t BY RunAppend
  <2>3. Append(s, k) \in Seq(K) /\ Len(Append(s, k)) = Len(s) + 1 /\ Len(s) \in Nat
    BY AppendProperties, LenProperties
  <2> HIDE DEF q
  <2>4. PICK v : t \in Readers /\ t.valid /\ t.args = Append(q.args, v)
    <3>1. q.pos \in Nat /\ Len(q.w) \in Nat /\ q.pos <= Len(q.w) BY <2>1, ReaderParts
    <3>2. CASE k = "str"
      <4>1. CASE stringFits(q)
        <5> DEFINE v == <<"str", IF lengthAt(q) = 0 THEN 0 ELSE q.w[afterLength(q) + 1]>>
        <5>1. At(t, q, afterLength(q) + unitsAt(q), q.ok, Append(q.args, v), q.live + 1)
          BY <2>1, <3>2, <4>1, StepString
        <5> HIDE DEF v
        <5> QED BY <5>1 DEF At
      <4>2. CASE ~stringFits(q)
        <5> DEFINE v == <<"str", -1>>
        <5>1. At(t, q, afterLength(q), q.ok, Append(q.args, v), q.live)
          BY <2>1, <3>2, <4>2, StepString
        <5> HIDE DEF v
        <5> QED BY <5>1 DEF At
      <4> QED BY <4>1, <4>2
    <3>3. CASE k \in {"int", "byte"}
      <4>1. CASE q.pos < Len(q.w)
        <5> DEFINE v == <<k, q.w[q.pos + 1]>>
        <5>1. At(t, q, q.pos + 1, TRUE, Append(q.args, v), q.live)
          BY <2>1, <3>3, <4>1, StepWord
        <5> HIDE DEF v
        <5> QED BY <5>1 DEF At
      <4>2. CASE q.pos = Len(q.w)
        <5> DEFINE v == <<"unset", 0>>
        <5>1. At(t, q, q.pos, FALSE, Append(q.args, v), q.live)
          BY <2>1, <3>3, <4>2, StepWord
        <5> HIDE DEF v
        <5> QED BY <5>1 DEF At
      <4>3. q.pos < Len(q.w) \/ q.pos = Len(q.w) BY <3>1
      <4> QED BY <4>1, <4>2, <4>3
    <3> QED BY <3>2, <3>3
  <2> HIDE DEF t
  <2>5. Len(t.args) = Len(q.args) + 1
    <3>1. q.args \in Seq(Values) BY <2>1, ReaderParts
    <3> QED BY <2>4, <3>1
  <2> QED BY <1>1, <2>1, <2>2, <2>3, <2>4, <2>5
<1>4. kinds \in P
  <2> HIDE DEF P
  <2> QED BY <1>2, <1>3, SeqCases
<1> QED BY <1>4

\* The string of a call forward is freed, but the empty one, which is NULL for
\* onRequest.
LEMMA ReadCallForward ==
  ASSUME NEW p \in Seq(Int)
  PROVE  LET o == dispatchCallForward(p)
         IN o.valid => /\ NoUnset(o.data.elems)
                       /\ o.leak > 0 => o.data.elems[1][5][2] = -1
<1> DEFINE kinds == <<"int", "int", "int", "int", "str", "int">>
           all == <<"int", "int", "int", "int", "str", "int", "check">>
           r == Run(Start(p), all)
           empty == r.valid /\ r.args[5][2] = 0
           args == IF empty THEN [r.args EXCEPT ![5] = <<"str", -1>>] ELSE r.args
           freed == IF empty THEN 0 ELSE r.live
           null == FALSE
           o == dispatchCallForward(p)
<1>1. Start(p) \in Tight /\ Start(p) \in Readers /\ Start(p).valid /\ Start(p).args = <<>>
  <2>1. Start(p).valid BY DEF Start
  <2> QED BY <2>1, StartClean, CleanIsTight DEF Clean
<1>2. /\ kinds \in Seq({"int", "byte", "str"}) /\ kinds \in Seq(Reads)
      /\ all = Append(kinds, "check")
      /\ Len(kinds) = 6 /\ Len(<<>>) = 0 /\ "check" \in Reads
  BY DEF Reads, Kinds
<1>3. o = Outcome(r, null, <<args>>, freed) BY Zenon DEF dispatchCallForward
<1> HIDE DEF kinds, all, null, o
<1>4. r \in Clean BY <1>1, <1>2, RunChecked
<1>5. Len(r.args) = 6
  <2> DEFINE q == Run(Start(p), kinds)
  <2>1. q \in Readers /\ q.valid /\ Len(q.args) = 6 BY <1>1, <1>2, RunCount
  <2>2. r = Step(q, "check") BY <1>2, RunAppend
  <2> QED BY <2>1, <2>2, StepCheck
<1> HIDE DEF r
<1>6. r \in Readers /\ r.args \in Seq(Values) /\ r.live \in Nat BY <1>4, ReaderParts DEF Clean
<1>7. o.valid = r.valid /\ (r.valid => o.data.elems = <<args>> /\ o.leak = r.live - freed)
  <2> HIDE DEF args, freed, empty
  <2> QED BY <1>3, <1>6, OutcomeParts
<1>8. r.valid => NoUnset(<<args>>)
  <2>1. <<"str", -1>> \in Values /\ 5 \in 1 .. Len(r.args) BY <1>5 DEF Values, Kinds
  <2>2. args \in Seq(Values)
    BY <1>6, <2>1, ExceptSeq
  <2>3. Len(args) = 6 /\ \A i \in 1 .. 6 : args[i] = r.args[i] \/ args[i] = <<"str", -1>>
    BY <1>5, <1>6, <2>1, ExceptSeq
  <2>4. r.valid => ~HasUnset(args)
    <3>1. r.valid => \A i \in 1 .. 6 : r.args[i][1] # "unset" BY <1>4, <1>5 DEF Clean, HasUnset
    <3> HIDE DEF args
    <3> QED BY <2>3, <3>1 DEF HasUnset
  <2> HIDE DEF args
  <2> QED BY <2>2, <2>4, OneNoUnset
<1>9. r.valid /\ r.live - freed > 0 => <<args>>[1][5][2] = -1
  <2>1. ~empty => r.live - freed = 0 BY <1>6
  <2>2. empty => args[5] = <<"str", -1>>
    <3>1. 5 \in 1 .. Len(r.args) /\ DOMAIN r.args = 1 .. Len(r.args) BY <1>5, <1>6, LenProperties
    <3> QED BY <3>1
  <2> QED BY <2>1, <2>2
<1> HIDE DEF args, freed
<1>10. o.valid => NoUnset(o.data.elems) /\ (o.leak > 0 => o.data.elems[1][5][2] = -1)
  BY <1>7, <1>8, <1>9
<1> QED BY <1>10 DEF o

DispatchNames ==
  {"Void", "String", "Strings", "Ints", "SmsWrite", "Dial", "SIM_IO", "CallForward", "Raw",
   "CdmaSms", "CdmaSmsAck", "GsmBrSmsCnf", "CdmaBrSmsCnf", "RilCdmaSmsWriteArgs"}

LEMMA CommandsTable ==
  /\ Len(s_commands) = 108
  /\ \A q \in 1 .. 108 : s_commands[q][1] \in DispatchNames
<1>1. Len(s_commands) = 108 BY DEF s_commands
<1>2. \A q \in 1 .. 108 : s_commands[q][1] \in DispatchNames BY DEF s_commands, DispatchNames
<1> QED BY <1>1, <1>2

\* Every dispatch function, on every block.
LEMMA DispatchSound ==
  ASSUME NEW name \in DispatchNames, NEW p \in Seq(Int)
  PROVE  LET o == dispatchFunction(name, p)
         IN o.valid => /\ NoUnset(o.data.elems)
                       /\ o.leak > 0 => \/ name = "SmsWrite"
                                        \/ name = "CallForward" /\ o.data.elems[1][5][2] = -1
<1> DEFINE Good(o) == o.valid => /\ NoUnset(o.data.elems)
                                 /\ o.leak > 0 => \/ name = "SmsWrite"
                                                  \/ name = "CallForward" /\ o.data.elems[1][5][2] = -1
           o == dispatchFunction(name, p)
<1>1. name \notin {"SmsWrite", "CallForward"} => Sound(o)
  <2>1. 5 \in Nat \ {0} /\ 3 \in Nat \ {0} OBVIOUS
  <2>2. Sound(dispatchGsmBrSmsCnf(p)) BY <2>1, SoundRecords DEF dispatchGsmBrSmsCnf
  <2>3. Sound(dispatchCdmaBrSmsCnf(p)) BY <2>1, SoundRecords DEF dispatchCdmaBrSmsCnf
  <2> QED BY <2>2, <2>3, SoundVoid, SoundString, SoundStrings, SoundInts, SoundDial, SoundSIM_IO,
             SoundRaw, SoundCdmaSms, SoundCdmaSmsAck, SoundWriteArgs
          DEF dispatchFunction, DispatchNames
<1>2. name = "SmsWrite" => o = dispatchSmsWrite(p) BY DEF dispatchFunction
<1>3. name = "CallForward" => o = dispatchCallForward(p) BY DEF dispatchFunction
<1> HIDE DEF o
<1>4. ASSUME name \notin {"SmsWrite", "CallForward"} PROVE Good(o) BY <1>1, <1>4 DEF Sound
<1>5. ASSUME name = "SmsWrite" PROVE Good(o)
  <2>1. o.valid => NoUnset(o.data.elems) BY <1>2, <1>5, ReadSmsWrite
  <2> QED BY <1>5, <2>1
<1>6. ASSUME name = "CallForward" PROVE Good(o)
  <2>1. o.valid => NoUnset(o.data.elems) /\ (o.leak > 0 => o.data.elems[1][5][2] = -1)
    BY <1>3, <1>6, ReadCallForward
  <2> QED BY <1>6, <2>1
<1>7. Good(o) BY <1>4, <1>5, <1>6
<1> QED BY <1>7 DEF o

-----------------------------------------------------------------------------
(* What the client writes.                                                    *)

Sendable == Kinds \X Int

KindsOf(vals) == [i \in DOMAIN vals |-> vals[i][1]]

LEMMA WordsOfIsSeq ==
  ASSUME NEW v \in Sendable
  PROVE  WordsOf(v) \in Seq(Int)
BY DEF WordsOf, Sendable, Kinds

\* The values one by one, as Concat takes them.
LEMMA WordsParts ==
  ASSUME NEW vals \in Seq(Sendable)
  PROVE  LET ws == [i \in DOMAIN vals |-> WordsOf(vals[i])]
         IN /\ ws \in Seq(Seq(Int)) /\ Len(ws) = Len(vals)
            /\ \A i \in 1 .. Len(vals) : ws[i] = WordsOf(vals[i])
<1> DEFINE n == Len(vals)
           ws == [i \in DOMAIN vals |-> WordsOf(vals[i])]
<1>1. n \in Nat /\ DOMAIN vals = 1 .. n /\ \A i \in 1 .. n : vals[i] \in Sendable
  BY LenProperties, ElementOfSeq
<1>2. \A i \in 1 .. n : WordsOf(vals[i]) \in Seq(Int) BY <1>1, WordsOfIsSeq
<1> HIDE DEF n
<1>3. ws = [i \in 1 .. n |-> WordsOf(vals[i])] BY <1>1
<1>4. ws \in Seq(Seq(Int)) /\ Len(ws) = n /\ \A i \in 1 .. n : ws[i] = WordsOf(vals[i])
  BY <1>1, <1>2, <1>3
<1> QED BY <1>4 DEF n

LEMMA WordsIsSeq ==
  ASSUME NEW vals \in Seq(Sendable)
  PROVE  Words(vals) \in Seq(Int)
BY WordsParts, ConcatIsSeq DEF Words

LEMMA WordsNothing == Words(<<>>) = <<>>
<1>1. [i \in DOMAIN <<>> |-> WordsOf(<<>>[i])] = <<>>
  <2>1. <<>> \in Seq(Sendable) /\ Len(<<>>) = 0 OBVIOUS
  <2> DEFINE ws == [i \in DOMAIN <<>> |-> WordsOf(<<>>[i])]
  <2>2. ws \in Seq(Seq(Int)) /\ Len(ws) = 0 BY <2>1, WordsParts
  <2> HIDE DEF ws
  <2>3. ws = <<>> BY <2>2, EmptySeq
  <2> QED BY <2>3 DEF ws
<1> QED BY <1>1, ConcatNothing DEF Words

LEMMA WordsAppend ==
  ASSUME NEW vals \in Seq(Sendable), NEW v \in Sendable
  PROVE  Words(Append(vals, v)) = Words(vals) \o WordsOf(v)
<1> DEFINE n == Len(vals)
           more == Append(vals, v)
           ws == [i \in DOMAIN vals |-> WordsOf(vals[i])]
           us == [i \in DOMAIN more |-> WordsOf(more[i])]
           xs == Append(ws, WordsOf(v))
<1>1. /\ n \in Nat /\ more \in Seq(Sendable) /\ Len(more) = n + 1 /\ more[n + 1] = v
      /\ \A i \in 1 .. n : more[i] = vals[i]
  BY LenProperties, AppendProperties
<1>2. ws \in Seq(Seq(Int)) /\ Len(ws) = n /\ \A i \in 1 .. n : ws[i] = WordsOf(vals[i])
  BY WordsParts
<1>3. us \in Seq(Seq(Int)) /\ Len(us) = n + 1 /\ \A i \in 1 .. n + 1 : us[i] = WordsOf(more[i])
  <2> HIDE DEF more
  <2> QED BY <1>1, WordsParts
<1>4. WordsOf(v) \in Seq(Int) BY WordsOfIsSeq
<1>5. Words(vals) = Concat(ws) /\ Words(more) = Concat(us) BY DEF Words
<1> HIDE DEF ws, us, more, n
<1>6. /\ xs \in Seq(Seq(Int)) /\ Len(xs) = n + 1 /\ xs[n + 1] = WordsOf(v)
      /\ \A i \in 1 .. n : xs[i] = ws[i]
  BY <1>2, <1>4, AppendProperties
<1> HIDE DEF xs
<1>7. \A i \in 1 .. n + 1 : i \in 1 .. n \/ i = n + 1 BY <1>1
<1>8. \A i \in 1 .. n + 1 : us[i] = xs[i] BY <1>1, <1>2, <1>3, <1>6, <1>7
<1>9. us = xs BY <1>3, <1>6, <1>8, SeqEqual
<1>10. Concat(us) = Concat(ws) \o WordsOf(v) BY <1>2, <1>4, <1>9, ConcatAppend DEF xs
<1> QED BY <1>5, <1>10 DEF more

LEMMA WordsConcat ==
  ASSUME NEW a \in Seq(Sendable), NEW b \in Seq(Sendable)
  PROVE  Words(a \o b) = Words(a) \o Words(b)
<1> DEFINE P == {t \in Seq(Sendable) : Words(a \o t) = Words(a) \o Words(t)}
<1>1. <<>> \in P
  <2>1. <<>> \in Seq(Sendable) /\ a \o <<>> = a BY ConcatEmptySeq
  <2>2. Words(a) \in Seq(Int) BY WordsIsSeq
  <2>3. Words(a) \o <<>> = Words(a) BY <2>2, ConcatEmptySeq
  <2> QED BY <2>1, <2>3, WordsNothing
<1>2. ASSUME NEW t \in Seq(Sendable), NEW v \in Sendable, t \in P PROVE Append(t, v) \in P
  <2>1. a \o t \in Seq(Sendable) /\ Append(t, v) \in Seq(Sendable)
    BY ConcatProperties, AppendProperties
  <2>2. a \o Append(t, v) = Append(a \o t, v)
    <3>1. <<v>> \in Seq(Sendable) OBVIOUS
    <3>2. Append(t, v) = t \o <<v>> /\ Append(a \o t, v) = (a \o t) \o <<v>>
      BY <2>1, AppendIsConcat
    <3>3. (a \o t) \o <<v>> = a \o (t \o <<v>>) BY <3>1, ConcatAssociative
    <3> QED BY <3>2, <3>3
  <2>3. Words(Append(a \o t, v)) = Words(a \o t) \o WordsOf(v) BY <2>1, WordsAppend
  <2>4. Words(Append(t, v)) = Words(t) \o WordsOf(v) BY WordsAppend
  <2>5. Words(a \o t) = Words(a) \o Words(t) BY <1>2
  <2>6. (Words(a) \o Words(t)) \o WordsOf(v) = Words(a) \o (Words(t) \o WordsOf(v))
    <3> DEFINE x == Words(a)
               y == Words(t)
               z == WordsOf(v)
    <3>1. x \in Seq(Int) /\ y \in Seq(Int) /\ z \in Seq(Int)
      BY WordsIsSeq, WordsOfIsSeq
    <3> HIDE DEF x, y, z
    <3>2. (x \o y) \o z = x \o (y \o z)
      <4> DEFINE W == Int
      <4>1. x \in Seq(W) /\ y \in Seq(W) /\ z \in Seq(W) BY <3>1
      <4> HIDE DEF W
      <4> QED BY SMTT(30), <4>1, ConcatAssociative
    <3> QED BY <3>2 DEF x, y, z
  <2> QED BY <2>1, <2>2, <2>3, <2>4, <2>5, <2>6
<1>3. b \in P
  <2> HIDE DEF P
  <2> QED BY <1>1, <1>2, SeqCases
<1> QED BY <1>3

LEMMA WordsOne == ASSUME NEW v \in Sendable PROVE Words(<<v>>) = WordsOf(v)
<1>1. <<>> \in Seq(Sendable) /\ Append(<<>>, v) = <<v>> OBVIOUS
<1>2. Words(Append(<<>>, v)) = Words(<<>>) \o WordsOf(v) BY <1>1, WordsAppend
<1>3. <<>> \o WordsOf(v) = WordsOf(v) BY WordsOfIsSeq, ConcatEmptySeq
<1> QED BY <1>1, <1>2, <1>3, WordsNothing

LEMMA AllWordsParts ==
  ASSUME NEW elems \in Seq(Seq(Sendable))
  PROVE  LET ws == [i \in DOMAIN elems |-> Words(elems[i])]
         IN /\ ws \in Seq(Seq(Int)) /\ Len(ws) = Len(elems)
            /\ \A i \in 1 .. Len(elems) : ws[i] = Words(elems[i])
<1> DEFINE n == Len(elems)
           ws == [i \in DOMAIN elems |-> Words(elems[i])]
<1>1. n \in Nat /\ DOMAIN elems = 1 .. n /\ \A i \in 1 .. n : elems[i] \in Seq(Sendable)
  BY LenProperties, ElementOfSeq
<1>2. \A i \in 1 .. n : Words(elems[i]) \in Seq(Int) BY <1>1, WordsIsSeq
<1> HIDE DEF n
<1>3. ws = [i \in 1 .. n |-> Words(elems[i])] BY <1>1
<1>4. ws \in Seq(Seq(Int)) /\ Len(ws) = n /\ \A i \in 1 .. n : ws[i] = Words(elems[i])
  BY <1>1, <1>2, <1>3
<1> QED BY <1>4 DEF n

\* The words of the structures are those of all their members.
LEMMA AllWordsFlat ==
  ASSUME NEW elems \in Seq(Seq(Sendable))
  PROVE  /\ Concat(elems) \in Seq(Sendable)
         /\ AllWords(elems) = Words(Concat(elems))
         /\ AllWords(elems) \in Seq(Int)
<1> DEFINE P == {s \in Seq(Seq(Sendable)) : AllWords(s) = Words(Concat(s))}
<1>1. <<>> \in P
  <2>1. <<>> \in Seq(Seq(Sendable)) /\ Len(<<>>) = 0 OBVIOUS
  <2> DEFINE ws == [i \in DOMAIN <<>> |-> Words(<<>>[i])]
  <2>2. ws \in Seq(Seq(Int)) /\ Len(ws) = 0 BY <2>1, AllWordsParts
  <2>3. AllWords(<<>>) = Concat(ws) BY DEF AllWords
  <2> HIDE DEF ws
  <2>4. ws = <<>> BY <2>2, EmptySeq
  <2> QED BY <2>1, <2>3, <2>4, ConcatNothing, WordsNothing
<1>2. ASSUME NEW s \in Seq(Seq(Sendable)), NEW e \in Seq(Sendable), s \in P
      PROVE  Append(s, e) \in P
  <2> DEFINE n == Len(s)
             more == Append(s, e)
             ws == [i \in DOMAIN s |-> Words(s[i])]
             us == [i \in DOMAIN more |-> Words(more[i])]
             xs == Append(ws, Words(e))
  <2>1. /\ n \in Nat /\ more \in Seq(Seq(Sendable)) /\ Len(more) = n + 1 /\ more[n + 1] = e
        /\ \A i \in 1 .. n : more[i] = s[i]
    BY LenProperties, AppendProperties
  <2>2. ws \in Seq(Seq(Int)) /\ Len(ws) = n /\ \A i \in 1 .. n : ws[i] = Words(s[i])
    BY AllWordsParts
  <2>3. us \in Seq(Seq(Int)) /\ Len(us) = n + 1 /\ \A i \in 1 .. n + 1 : us[i] = Words(more[i])
    <3> HIDE DEF more
    <3> QED BY <2>1, AllWordsParts
  <2>4. Words(e) \in Seq(Int) BY WordsIsSeq
  <2>5. AllWords(s) = Concat(ws) /\ AllWords(more) = Concat(us) BY DEF AllWords
  <2>6. AllWords(s) = Words(Concat(s)) BY <1>2
  <2> HIDE DEF ws, us, more, n
  <2>7. /\ xs \in Seq(Seq(Int)) /\ Len(xs) = n + 1 /\ xs[n + 1] = Words(e)
        /\ \A i \in 1 .. n : xs[i] = ws[i]
    BY <2>2, <2>4, AppendProperties
  <2> HIDE DEF xs
  <2>8. \A i \in 1 .. n + 1 : i \in 1 .. n \/ i = n + 1 BY <2>1
  <2>9. \A i \in 1 .. n + 1 : us[i] = xs[i] BY <2>1, <2>2, <2>3, <2>7, <2>8
  <2>10. us = xs BY <2>3, <2>7, <2>9, SeqEqual
  <2>11. Concat(us) = Concat(ws) \o Words(e) BY <2>2, <2>4, <2>10, ConcatAppend DEF xs
  <2>12. Concat(s) \in Seq(Sendable) BY ConcatIsSeq
  <2>13. Words(Concat(s) \o e) = Words(Concat(s)) \o Words(e) BY <2>12, WordsConcat
  <2>14. Concat(more) = Concat(s) \o e BY ConcatAppend DEF more
  <2>15. AllWords(more) = Words(Concat(more)) BY <2>5, <2>6, <2>11, <2>13, <2>14
  <2> QED BY <2>1, <2>15 DEF more
<1>3. elems \in P
  <2> HIDE DEF P
  <2> QED BY <1>1, <1>2, SeqCases
<1>4. Concat(elems) \in Seq(Sendable) BY ConcatIsSeq
<1> QED BY <1>3, <1>4, WordsIsSeq

-----------------------------------------------------------------------------
(* What may be passed.                                                        *)

LEMMA ValuesOfKind ==
  ASSUME NEW kind \in Kinds, NEW i \in Int, NEW v \in ValuesOf(kind, i)
  PROVE  v \in Sendable /\ v[1] = kind
BY DEF ValuesOf, Sendable, Kinds

\* One member more.
MoreTuples(tuples, kind, i) == {Append(t, v) : t \in tuples, v \in ValuesOf(kind, i)}

LEMMA TuplesParts ==
  ASSUME NEW kinds \in Seq(Kinds), NEW t \in Tuples(kinds)
  PROVE  /\ t \in Seq(Sendable) /\ Len(t) = Len(kinds)
         /\ \A i \in 1 .. Len(kinds) : t[i][1] = kinds[i]
<1> DEFINE n == Len(kinds)
           Steps(f, m) == f = [i \in 0 .. m |-> IF i = 0 THEN {<<>>} ELSE MoreTuples(f[i - 1], kinds[i], i)]
           P == {m \in Nat : \E f : Steps(f, m)}
<1>0. n \in Nat /\ \A i \in 1 .. n : kinds[i] \in Kinds BY LenProperties, ElementOfSeq
<1>1. 0 \in P
  <2>1. Steps([i \in 0 .. 0 |-> {<<>>}], 0) OBVIOUS
  <2> QED BY <2>1
<1>2. ASSUME NEW m \in Nat, m \in P PROVE m + 1 \in P
  <2>1. PICK f : Steps(f, m) BY <1>2
  <2> DEFINE g == [i \in 0 .. m + 1 |-> IF i = m + 1 THEN MoreTuples(f[m], kinds[m + 1], m + 1) ELSE f[i]]
  <2>2. Steps(g, m + 1)
    <3>1. \A i \in 0 .. m : f[i] = IF i = 0 THEN {<<>>} ELSE MoreTuples(f[i - 1], kinds[i], i) BY <2>1
    <3>2. \A i \in 0 .. m : g[i] = f[i] OBVIOUS
    <3>3. \A i \in 0 .. m + 1 :
            g[i] = IF i = 0 THEN {<<>>} ELSE MoreTuples(g[i - 1], kinds[i], i)
      <4> TAKE i \in 0 .. m + 1
      <4>1. CASE i = m + 1 BY <4>1
      <4>2. CASE i # m + 1
        <5>1. i \in 0 .. m /\ (i # 0 => i - 1 \in 0 .. m) BY <4>2
        <5> QED BY <3>1, <3>2, <5>1
      <4> QED BY <4>1, <4>2
    <3> QED BY <3>3
  <2> HIDE DEF g
  <2> QED BY <2>2
<1>3. n \in P
  <2> HIDE DEF P
  <2> QED BY <1>0, <1>1, <1>2, EveryNumber
<1>4. PICK f : Steps(f, n) BY <1>3
<1> DEFINE g == CHOOSE h : Steps(h, n)
<1>5. Steps(g, n) BY <1>4
<1>6. Tuples(kinds) = g[n] BY DEF Tuples, MoreTuples
<1> HIDE DEF g
<1> HIDE DEF n
<1>7. g[0] = {<<>>} /\ \A i \in 1 .. n : g[i] = MoreTuples(g[i - 1], kinds[i], i)
  <2>1. \A i \in 0 .. n : g[i] = IF i = 0 THEN {<<>>} ELSE MoreTuples(g[i - 1], kinds[i], i)
    BY <1>5
  <2>2. 0 \in 0 .. n /\ \A i \in 1 .. n : i \in 0 .. n /\ i # 0 BY <1>0
  <2> QED BY <2>1, <2>2
<1> DEFINE Fits(s, m) == /\ s \in Seq(Sendable) /\ Len(s) = m
                         /\ \A i \in 1 .. m : s[i][1] = kinds[i]
           Q == {m \in Nat : m <= n => \A s \in g[m] : Fits(s, m)}
<1>8. 0 \in Q
  <2>1. Fits(<<>>, 0) OBVIOUS
  <2> QED BY <1>7, <2>1
<1>9. ASSUME NEW m \in Nat, m \in Q PROVE m + 1 \in Q
  <2> SUFFICES ASSUME m + 1 <= n, NEW s \in g[m + 1] PROVE Fits(s, m + 1) OBVIOUS
  <2>1. m <= n /\ m + 1 \in 1 .. n /\ (m + 1) - 1 = m BY <1>0
  <2>2. g[m + 1] = MoreTuples(g[m], kinds[m + 1], m + 1) BY <1>7, <2>1
  <2>3. PICK u \in g[m], v \in ValuesOf(kinds[m + 1], m + 1) : s = Append(u, v)
    BY <2>1, <2>2 DEF MoreTuples
  <2>4. Fits(u, m) BY <1>9, <2>1
  <2>5. v \in Sendable /\ v[1] = kinds[m + 1] BY <1>0, <2>1, ValuesOfKind
  <2>6. /\ s \in Seq(Sendable) /\ Len(s) = m + 1 /\ s[m + 1] = v
        /\ \A i \in 1 .. m : s[i] = u[i]
    BY <2>3, <2>4, <2>5, AppendProperties
  <2>7. ASSUME NEW i \in 1 .. m + 1 PROVE s[i][1] = kinds[i]
    <3>1. CASE i = m + 1 BY <2>5, <2>6, <3>1
    <3>2. CASE i # m + 1
      <4>1. i \in 1 .. m BY <3>2
      <4> QED BY <2>4, <2>6, <4>1
    <3> QED BY <3>1, <3>2
  <2> QED BY <2>6, <2>7
<1>10. n \in Q
  <2> HIDE DEF Q
  <2> QED BY <1>0, <1>8, <1>9, EveryNumber
<1>11. Fits(t, n) BY <1>0, <1>6, <1>10
<1> QED BY <1>11 DEF n

-----------------------------------------------------------------------------
(* A reader in front of what the client wrote.                                *)

Coming(r) == SubSeq(r.w, r.pos + 1, Len(r.w))

\* t is still to be read, and args has been.
FedAt(r, t, args) ==
  r \in Readers /\ r.valid /\ r.ok /\ Coming(r) = t /\ r.args = args

LEMMA ComingParts ==
  ASSUME NEW r \in Readers
  PROVE  /\ Coming(r) \in Seq(Int) /\ Len(Coming(r)) = Len(r.w) - r.pos
         /\ \A i \in 1 .. Len(r.w) - r.pos : Coming(r)[i] = r.w[r.pos + i]
<1> DEFINE n == Len(r.w)
           p == r.pos
<1>1. p \in Nat /\ n \in Nat /\ p <= n /\ \A i \in 1 .. n : r.w[i] \in Int
  BY ReaderParts, ElementOfSeq
<1>2. Coming(r) = SubSeq(r.w, p + 1, n) BY DEF Coming
<1> HIDE DEF n, p
<1>3. \A i \in p + 1 .. n : r.w[i] \in Int BY <1>1
<1> DEFINE c == SubSeq(r.w, p + 1, n)
           a == p + 1
<1>4. a \in Int /\ n \in Int BY <1>1
<1>5. /\ c \in Seq(Int)
      /\ Len(c) = (IF a <= n THEN n - a + 1 ELSE 0)
      /\ \A i \in 1 .. n - a + 1 : c[i] = r.w[a + i - 1]
  <2> HIDE DEF a
  <2> QED BY <1>3, <1>4, SubSeqProperties DEF a
<1> HIDE DEF c
<1>6. Len(c) = n - p BY <1>1, <1>5
<1>7. \A i \in 1 .. n - p : c[i] = r.w[p + i]
  <2>1. \A i \in 1 .. n - p : i \in 1 .. n - a + 1 /\ a + i - 1 = p + i BY <1>1
  <2> QED BY <1>5, <2>1
<1> QED BY <1>2, <1>5, <1>6, <1>7 DEF c, n, p

LEMMA ComingAdvance ==
  ASSUME NEW r \in Readers, NEW x \in Seq(Int), NEW t \in Seq(Int), Coming(r) = x \o t
  PROVE  /\ Len(r.w) - r.pos = Len(x) + Len(t)
         /\ \A i \in 1 .. Len(x) : r.w[r.pos + i] = x[i]
         /\ \A q \in Readers : q.w = r.w /\ q.pos = r.pos + Len(x) => Coming(q) = t
<1> DEFINE n == Len(r.w)
           p == r.pos
           a == Len(x)
           b == Len(t)
<1>1. p \in Nat /\ n \in Nat /\ p <= n /\ a \in Nat /\ b \in Nat BY ReaderParts, LenProperties
<1>2. /\ Len(x \o t) = a + b
      /\ \A i \in 1 .. a + b : (x \o t)[i] = IF i <= a THEN x[i] ELSE t[i - a]
  BY ConcatProperties
<1>3. Len(Coming(r)) = n - p /\ \A i \in 1 .. n - p : Coming(r)[i] = r.w[p + i]
  BY ComingParts
<1>4. n - p = a + b BY <1>2, <1>3
<1>5. ASSUME NEW i \in 1 .. a PROVE r.w[p + i] = x[i]
  <2> HIDE DEF n, p, a, b
  <2>1. i \in 1 .. a + b /\ i <= a /\ i \in 1 .. n - p BY <1>1, <1>4
  <2> QED BY <1>2, <1>3, <2>1
<1>6. ASSUME NEW q \in Readers, q.w = r.w, q.pos = r.pos + a PROVE Coming(q) = t
  <2> DEFINE c == Coming(q)
             m == Len(q.w) - q.pos
  <2>1. c \in Seq(Int) /\ Len(c) = m /\ \A i \in 1 .. m : c[i] = q.w[q.pos + i]
    BY ComingParts
  <2>2. m = b /\ q.pos = p + a
    <3>1. m = n - (p + a) BY <1>6
    <3> HIDE DEF n, p, a, b, m
    <3>2. m = b BY <1>1, <1>4, <3>1
    <3> QED BY <1>6, <3>2 DEF p, a
  <2> HIDE DEF n, p, a, b, m, c
  <2>3. ASSUME NEW i \in 1 .. b PROVE c[i] = t[i]
    <3>1. a + i \in 1 .. a + b /\ ~(a + i <= a) /\ (a + i) - a = i /\ a + i \in 1 .. n - p
          /\ p + (a + i) = (p + a) + i
      BY <1>1, <1>4
    <3>2. (x \o t)[a + i] = t[i] BY <1>2, <3>1
    <3>3. (x \o t)[a + i] = r.w[p + (a + i)] BY <1>3, <3>1
    <3>4. c[i] = q.w[(p + a) + i] BY <2>1, <2>2
    <3> QED BY <1>6, <3>1, <3>2, <3>3, <3>4
  <2>4. c = t
    <3>1. Len(c) = Len(t) /\ \A i \in 1 .. Len(c) : c[i] = t[i] BY <2>1, <2>2, <2>3 DEF b
    <3> QED BY <2>1, <3>1, SeqEqual
  <2> QED BY <2>4 DEF c
<1> QED BY <1>4, <1>5, <1>6 DEF n, p, a, b

LEMMA StartFed ==
  ASSUME NEW p \in Seq(Int)
  PROVE  FedAt(Start(p), p, <<>>) /\ Start(p).live = 0
<1>1. /\ Start(p) \in Readers /\ Start(p).args = <<>> /\ Start(p).live = 0
  BY StartClean DEF Clean
<1>2. Start(p).valid /\ Start(p).ok BY DEF Start
<1>3. Coming(Start(p)) = p
  <2>1. Coming(Start(p)) = SubSeq(p, 1, Len(p)) BY DEF Coming, Start
  <2> QED BY <2>1, SubSeqFull
<1> QED BY <1>1, <1>2, <1>3 DEF FedAt

LEMMA FedChecked ==
  ASSUME NEW r, NEW t, NEW args, FedAt(r, t, args)
  PROVE  FedAt(Step(r, "check"), t, args)
<1> DEFINE q == Step(r, "check")
<1>1. r \in Readers /\ r.valid /\ r.ok /\ Coming(r) = t /\ r.args = args BY DEF FedAt
<1>2. q \in Readers /\ q.w = r.w /\ q.pos = r.pos /\ q.ok = r.ok /\ q.args = r.args /\ q.valid = r.ok
  BY <1>1, StepCheck
<1> HIDE DEF q
<1>3. Coming(q) = Coming(r) BY <1>2 DEF Coming
<1>4. FedAt(q, t, args) BY <1>1, <1>2, <1>3 DEF FedAt
<1> QED BY <1>4 DEF q

LEMMA FedMoved ==
  ASSUME NEW r, NEW x \in Seq(Int), NEW t \in Seq(Int), NEW args, NEW more, NEW q, NEW live,
         FedAt(r, x \o t, args), At(q, r, r.pos + Len(x), r.ok, more, live)
  PROVE  FedAt(q, t, more)
<1>1. r \in Readers /\ r.valid /\ r.ok /\ Coming(r) = x \o t BY DEF FedAt
<1>2. q \in Readers /\ q.w = r.w /\ q.pos = r.pos + Len(x) /\ q.ok = r.ok /\ q.args = more /\ q.valid
  BY DEF At
<1>3. Coming(q) = t
  <2>1. \A y \in Readers : y.w = r.w /\ y.pos = r.pos + Len(x) => Coming(y) = t
    BY <1>1, ComingAdvance, Zenon
  <2> QED BY <1>2, <2>1
<1> QED BY <1>1, <1>2, <1>3 DEF FedAt

\* A value that is read is the value that was written.
LEMMA FedValue ==
  ASSUME NEW v \in Sendable, NEW r, NEW t \in Seq(Int), NEW args, FedAt(r, WordsOf(v) \o t, args)
  PROVE  FedAt(Step(r, v[1]), t, Append(args, v))
<1> DEFINE x == WordsOf(v)
           n == Len(r.w)
           p == r.pos
           q == Step(r, v[1])
           more == Append(args, v)
<1>1. r \in Readers /\ r.valid /\ r.ok /\ r.args = args /\ Coming(r) = x \o t BY DEF FedAt
<1>2. x \in Seq(Int) /\ Len(x) \in Nat /\ Len(t) \in Nat BY WordsOfIsSeq, LenProperties
<1>3. p \in Nat /\ n \in Nat /\ n - p = Len(x) + Len(t) /\ \A i \in 1 .. Len(x) : r.w[p + i] = x[i]
  <2> HIDE DEF x
  <2>1. p \in Nat /\ n \in Nat BY <1>1, ReaderParts
  <2>2. n - p = Len(x) + Len(t) /\ \A i \in 1 .. Len(x) : r.w[p + i] = x[i]
    BY ZenonT(30), <1>1, <1>2, ComingAdvance
  <2> QED BY <2>1, <2>2
<1>4. v = <<v[1], v[2]>> /\ v[2] \in Int /\ v[1] \in Kinds BY DEF Sendable
<1>5. ASSUME v[1] \in {"int", "byte"} PROVE FedAt(q, t, more)
  <2>1. x = <<v[2]>> BY <1>5 DEF WordsOf
  <2>2. Len(x) = 1 /\ x[1] = v[2] /\ 1 \in 1 .. Len(x) BY <2>1
  <2>3. p < n /\ r.w[p + 1] = v[2] BY <1>2, <1>3, <2>2
  <2>4. At(q, r, p + 1, TRUE, Append(r.args, <<v[1], r.w[p + 1]>>), r.live)
    BY <1>1, <1>5, <2>3, StepWord
  <2>5. r.ok = TRUE BY <1>1, ReaderParts
  <2>6. Append(r.args, <<v[1], r.w[p + 1]>>) = more BY <1>1, <1>4, <2>3
  <2> HIDE DEF q, more
  <2>7. At(q, r, r.pos + Len(x), r.ok, more, r.live) BY <2>2, <2>4, <2>5, <2>6, Zenon
  <2> QED BY <1>2, <2>7, FedMoved
<1>6. ASSUME v[1] = "str", v[2] = -1 PROVE FedAt(q, t, more)
  <2>1. x = <<-1>> BY <1>6 DEF WordsOf
  <2>2. Len(x) = 1 /\ x[1] = -1 /\ 1 \in 1 .. Len(x) BY <2>1
  <2>3. p < n /\ r.w[p + 1] = -1 BY <1>2, <1>3, <2>2
  <2>4. lengthAt(r) = -1 /\ afterLength(r) = p + 1 BY <2>3 DEF lengthAt, afterLength
  <2>5. ~stringFits(r) BY <2>4 DEF stringFits
  <2>6. At(q, r, p + 1, r.ok, Append(r.args, <<"str", -1>>), r.live)
    BY <1>1, <1>6, <2>4, <2>5, StepString
  <2>7. Append(r.args, <<"str", -1>>) = more BY <1>1, <1>4, <1>6
  <2> HIDE DEF q, more
  <2>8. At(q, r, r.pos + Len(x), r.ok, more, r.live) BY <2>2, <2>6, <2>7, Zenon
  <2> QED BY <1>2, <2>8, FedMoved
<1>7. ASSUME v[1] = "str", v[2] # -1 PROVE FedAt(q, t, more)
  <2> DEFINE l == IF v[2] = 0 THEN 0 ELSE 3
             m == IF v[2] = 0 THEN 1 ELSE 2
  <2>1. x = IF v[2] = 0 THEN <<0, 0>> ELSE <<3, v[2], v[2]>> BY <1>7 DEF WordsOf
  <2>2. /\ Len(x) = m + 1 /\ x[1] = l /\ x[2] = v[2] /\ 1 \in 1 .. Len(x) /\ 2 \in 1 .. Len(x)
        /\ m \in {1, 2} /\ l \in {0, 3} /\ (l + 2) \div 2 = m /\ (l = 0 => v[2] = 0)
    BY <1>4, <2>1
  <2> HIDE DEF l, m
  <2>3. p < n /\ n - p >= m + 1 /\ r.w[p + 1] = l /\ r.w[p + 2] = v[2]
    <3> HIDE DEF x, p, n
    <3>1. r.w[p + 1] = x[1] /\ r.w[p + 2] = x[2] BY <1>3, <2>2
    <3>2. n - p = (m + 1) + Len(t) BY <1>3, <2>2
    <3>3. p < n /\ n - p >= m + 1 BY <1>2, <1>3, <2>2, <3>2
    <3> QED BY <2>2, <3>1, <3>3
  <2>4. lengthAt(r) = l /\ afterLength(r) = p + 1 BY <2>3 DEF lengthAt, afterLength
  <2>5. unitsAt(r) = m BY <2>2, <2>4 DEF unitsAt
  <2>6. stringFits(r) BY <1>3, <2>2, <2>3, <2>4, <2>5 DEF stringFits
  <2>7. At(q, r, afterLength(r) + unitsAt(r), r.ok,
           Append(r.args, <<"str", IF lengthAt(r) = 0 THEN 0 ELSE r.w[afterLength(r) + 1]>>),
           r.live + 1)
    BY <1>1, <1>7, <2>6, StepString
  <2>8. (IF lengthAt(r) = 0 THEN 0 ELSE r.w[afterLength(r) + 1]) = v[2]
    <3>1. (p + 1) + 1 = p + 2 BY <1>3
    <3> QED BY <2>2, <2>3, <2>4, <3>1
  <2>9. Append(r.args, <<"str", IF lengthAt(r) = 0 THEN 0 ELSE r.w[afterLength(r) + 1]>>) = more
    BY <1>1, <1>4, <1>7, <2>8
  <2>10. afterLength(r) + unitsAt(r) = r.pos + Len(x) BY <1>3, <2>2, <2>4, <2>5
  <2> DEFINE live == r.live + 1
  <2> HIDE DEF q, more
  <2>11. At(q, r, r.pos + Len(x), r.ok, more, live) BY <2>7, <2>9, <2>10, Zenon
  <2>12. FedAt(r, x \o t, args) OBVIOUS
  <2> HIDE DEF x, live
  <2> QED BY <1>2, <2>11, <2>12, FedMoved
<1>8. ASSUME v[1] = "raw", v[2] = -1 PROVE FedAt(q, t, more)
  <2>1. x = <<-1>> BY <1>8 DEF WordsOf
  <2>2. Len(x) = 1 /\ x[1] = -1 /\ 1 \in 1 .. Len(x) BY <2>1
  <2>3. p < n /\ r.w[p + 1] = -1 BY <1>2, <1>3, <2>2
  <2>4. ~rawFits(r) BY <2>3 DEF rawFits
  <2>5. At(q, r, p + 1, r.ok, Append(r.args, <<"raw", -1>>), r.live)
    BY <1>1, <1>8, <2>3, <2>4, StepRaw DEF notFitting
  <2>6. Append(r.args, <<"raw", -1>>) = more BY <1>1, <1>4, <1>8
  <2> HIDE DEF q, more
  <2>7. At(q, r, r.pos + Len(x), r.ok, more, r.live) BY <2>2, <2>5, <2>6, Zenon
  <2> QED BY <1>2, <2>7, FedMoved
<1>9. ASSUME v[1] = "raw", v[2] # -1 PROVE FedAt(q, t, more)
  <2> DEFINE m == IF v[2] = 0 THEN 0 ELSE 1
  <2>1. x = IF v[2] = 0 THEN <<0>> ELSE <<4, v[2]>> BY <1>9 DEF WordsOf
  <2>2. Len(x) = m + 1 /\ x[1] = 4 * m /\ 1 \in 1 .. Len(x)
        /\ (m # 0 => x[2] = v[2] /\ 2 \in 1 .. Len(x))
    BY <2>1
  <2>3. /\ p < n /\ n - p - 1 >= m /\ r.w[p + 1] = 4 * m /\ m \in {0, 1}
        /\ m # 0 => r.w[p + 2] = v[2]
    BY SMTT(30), <1>2, <1>3, <2>2
  <2>4. m = 0 <=> v[2] = 0 OBVIOUS
  <2> HIDE DEF m
  <2>5. rawWords(r) = m
    <3>1. (4 * m + 3) \div 4 = m BY <2>3
    <3> QED BY <2>3, <3>1 DEF rawWords
  <2>6. rawFits(r) BY <1>3, <2>3, <2>5 DEF rawFits
  <2>7. At(q, r, p + 1 + rawWords(r), r.ok,
           Append(r.args, <<"raw", IF rawWords(r) = 0 THEN 0 ELSE r.w[p + 2]>>), r.live)
    BY <1>1, <1>9, <2>3, <2>6, StepRaw
  <2>8. (IF rawWords(r) = 0 THEN 0 ELSE r.w[p + 2]) = v[2] BY <2>3, <2>4, <2>5
  <2>9. Append(r.args, <<"raw", IF rawWords(r) = 0 THEN 0 ELSE r.w[p + 2]>>) = more
    BY <1>1, <1>4, <1>9, <2>8
  <2>10. p + 1 + rawWords(r) = r.pos + Len(x) BY SMTT(30), <1>3, <2>2, <2>3, <2>5
  <2> HIDE DEF q, more
  <2>11. At(q, r, r.pos + Len(x), r.ok, more, r.live) BY <2>7, <2>9, <2>10, Zenon
  <2> QED BY <1>2, <2>11, FedMoved
<1> QED BY <1>4, <1>5, <1>6, <1>7, <1>8, <1>9 DEF Kinds

LEMMA ConcatThree ==
  ASSUME NEW T, NEW a \in Seq(T), NEW b \in Seq(T), NEW c \in Seq(T)
  PROVE  (a \o b) \o c = a \o (b \o c) /\ a \o b \in Seq(T) /\ b \o c \in Seq(T)
BY SMTT(30), ConcatAssociative, ConcatProperties

LEMMA ConcatInts ==
  ASSUME NEW a \in Seq(Int), NEW b \in Seq(Int), NEW c \in Seq(Int)
  PROVE  (a \o b) \o c = a \o (b \o c) /\ a \o b \in Seq(Int) /\ b \o c \in Seq(Int)
<1> DEFINE W == Int
<1>1. a \in Seq(W) /\ b \in Seq(W) /\ c \in Seq(W) OBVIOUS
<1> HIDE DEF W
<1>2. (a \o b) \o c = a \o (b \o c) /\ a \o b \in Seq(W) /\ b \o c \in Seq(W)
  BY <1>1, ConcatThree
<1> QED BY <1>2 DEF W

LEMMA AppendOne ==
  ASSUME NEW T, NEW a \in Seq(T), NEW b \in Seq(T), NEW e \in T
  PROVE  a \o Append(b, e) = Append(a \o b, e)
<1>1. <<e>> \in Seq(T) /\ a \o b \in Seq(T) BY ConcatProperties
<1>2. Append(b, e) = b \o <<e>> /\ Append(a \o b, e) = (a \o b) \o <<e>>
  BY <1>1, AppendIsConcat
<1>3. (a \o b) \o <<e>> = a \o (b \o <<e>>) BY <1>1, ConcatAssociative
<1> QED BY <1>2, <1>3

LEMMA KindsOfParts ==
  ASSUME NEW vals \in Seq(Sendable)
  PROVE  /\ KindsOf(vals) \in Seq(Kinds) /\ Len(KindsOf(vals)) = Len(vals)
         /\ \A i \in 1 .. Len(vals) : KindsOf(vals)[i] = vals[i][1]
<1> DEFINE n == Len(vals)
<1>1. n \in Nat /\ DOMAIN vals = 1 .. n /\ \A i \in 1 .. n : vals[i] \in Sendable
  BY LenProperties, ElementOfSeq
<1>2. \A i \in 1 .. n : vals[i][1] \in Kinds BY <1>1 DEF Sendable
<1> HIDE DEF n
<1>3. KindsOf(vals) = [i \in 1 .. n |-> vals[i][1]] BY <1>1 DEF KindsOf
<1> QED BY <1>1, <1>2, <1>3 DEF n

LEMMA KindsOfAre ==
  ASSUME NEW vals \in Seq(Sendable), NEW kinds \in Seq(Kinds), Len(vals) = Len(kinds),
         \A i \in 1 .. Len(kinds) : vals[i][1] = kinds[i]
  PROVE  KindsOf(vals) = kinds
<1>1. /\ KindsOf(vals) \in Seq(Kinds) /\ Len(KindsOf(vals)) = Len(kinds)
      /\ \A i \in 1 .. Len(kinds) : KindsOf(vals)[i] = kinds[i]
  BY KindsOfParts
<1> QED BY <1>1, SeqEqual

LEMMA KindsOfAppend ==
  ASSUME NEW vals \in Seq(Sendable), NEW v \in Sendable
  PROVE  KindsOf(Append(vals, v)) = Append(KindsOf(vals), v[1])
<1> DEFINE n == Len(vals)
           more == Append(vals, v)
           kinds == Append(KindsOf(vals), v[1])
<1>1. /\ n \in Nat /\ more \in Seq(Sendable) /\ Len(more) = n + 1 /\ more[n + 1] = v
      /\ \A i \in 1 .. n : more[i] = vals[i]
  BY LenProperties, AppendProperties
<1>2. v[1] \in Kinds BY DEF Sendable
<1>3. /\ KindsOf(vals) \in Seq(Kinds) /\ Len(KindsOf(vals)) = n
      /\ \A i \in 1 .. n : KindsOf(vals)[i] = vals[i][1]
  BY KindsOfParts
<1>4. /\ kinds \in Seq(Kinds) /\ Len(kinds) = n + 1 /\ kinds[n + 1] = v[1]
      /\ \A i \in 1 .. n : kinds[i] = vals[i][1]
  BY <1>2, <1>3, AppendProperties
<1> HIDE DEF n, more, kinds
<1>5. \A i \in 1 .. n + 1 : i \in 1 .. n \/ i = n + 1 BY <1>1
<1>6. \A i \in 1 .. n + 1 : more[i][1] = kinds[i] BY <1>1, <1>4, <1>5
<1>7. KindsOf(more) = kinds BY <1>1, <1>4, <1>6, KindsOfAre
<1> QED BY <1>7 DEF more, kinds

LEMMA SendableValues == Sendable \subseteq Values
BY DEF Sendable, Values

LEMMA FedSplit ==
  ASSUME NEW r, NEW args, NEW x \in Seq(Int), NEW y \in Seq(Int), NEW t \in Seq(Int),
         FedAt(r, (x \o y) \o t, args)
  PROVE  FedAt(r, x \o (y \o t), args) /\ y \o t \in Seq(Int)
BY ZenonT(30), ConcatInts

LEMMA FedValues ==
  ASSUME NEW vals \in Seq(Sendable), NEW r, NEW t \in Seq(Int), NEW args,
         FedAt(r, Words(vals) \o t, args)
  PROVE  FedAt(Run(r, KindsOf(vals)), t, args \o vals)
<1> DEFINE Q(s) == \A u \in Seq(Int) :
                     FedAt(r, Words(s) \o u, args) => FedAt(Run(r, KindsOf(s)), u, args \o s)
           P == {s \in Seq(Sendable) : Q(s)}
<1>0. args \in Seq(Values) BY ReaderParts DEF FedAt
<1>1. <<>> \in P
  <2>1. <<>> \in Seq(Sendable) /\ <<>> \in Seq(Kinds) /\ Len(<<>>) = 0 OBVIOUS
  <2>2. KindsOf(<<>>) = <<>>
    <3>1. \A i \in 1 .. Len(<<>>) : <<>>[i][1] = <<>>[i] BY <2>1
    <3> QED BY <2>1, <3>1, KindsOfAre
  <2>3. Run(r, KindsOf(<<>>)) = r BY <2>2, RunNothing
  <2>4. args \o <<>> = args BY <1>0, ConcatEmptySeq
  <2>5. \A u \in Seq(Int) : Words(<<>>) \o u = u BY WordsNothing, ConcatEmptySeq
  <2> QED BY <2>1, <2>3, <2>4, <2>5
<1>2. ASSUME NEW s \in Seq(Sendable), NEW v \in Sendable, s \in P PROVE Append(s, v) \in P
  <2> DEFINE more == Append(s, v)
             q == Run(r, KindsOf(s))
  <2>1. more \in Seq(Sendable) BY AppendProperties
  <2> SUFFICES ASSUME NEW u \in Seq(Int), FedAt(r, Words(more) \o u, args)
               PROVE  FedAt(Run(r, KindsOf(more)), u, args \o more)
    BY <2>1
  <2>2. Words(more) = Words(s) \o WordsOf(v) BY WordsAppend
  <2>3. Words(s) \in Seq(Int) /\ WordsOf(v) \in Seq(Int) BY WordsIsSeq, WordsOfIsSeq
  <2> DEFINE x == Words(s)
             y == WordsOf(v)
  <2>4. FedAt(r, (x \o y) \o u, args) BY <2>2
  <2>5. FedAt(r, x \o (y \o u), args) /\ y \o u \in Seq(Int) BY <2>3, <2>4, FedSplit
  <2>6. FedAt(q, y \o u, args \o s) BY <1>2, <2>5
  <2>7. FedAt(Step(q, v[1]), u, Append(args \o s, v)) BY <2>6, FedValue
  <2>8. Run(r, KindsOf(more)) = Step(q, v[1])
    <3>1. KindsOf(s) \in Seq(Kinds) /\ v[1] \in Kinds BY KindsOfParts DEF Sendable
    <3>2. KindsOf(more) = Append(KindsOf(s), v[1]) BY KindsOfAppend
    <3> QED BY <3>1, <3>2, RunAppend
  <2>9. args \o more = Append(args \o s, v)
    <3>1. s \in Seq(Values) /\ v \in Values BY SendableValues, SeqMonotonic
    <3> QED BY <1>0, <3>1, AppendOne
  <2> HIDE DEF q, more
  <2> QED BY <2>7, <2>8, <2>9
<1>3. vals \in P
  <2> HIDE DEF P
  <2> QED BY <1>1, <1>2, SeqCases
<1> QED BY <1>3

\* A whole structure, with or without a look at the status after it.
LEMMA FedStructure ==
  ASSUME NEW vals \in Seq(Sendable), NEW kinds \in Seq(Kinds), KindsOf(vals) = kinds, NEW p,
         p = Words(vals)
  PROVE  /\ p \in Seq(Int)
         /\ FedAt(Run(Start(p), kinds), <<>>, vals)
         /\ FedAt(Run(Start(p), Append(kinds, "check")), <<>>, vals)
<1>1. p \in Seq(Int) BY WordsIsSeq
<1>2. FedAt(Start(p), p, <<>>) BY <1>1, StartFed
<1>3. p \o <<>> = p /\ <<>> \in Seq(Int) /\ <<>> \o vals = vals BY <1>1, ConcatEmptySeq
<1>4. FedAt(Start(p), Words(vals) \o <<>>, <<>>) BY <1>2, <1>3
<1>5. FedAt(Run(Start(p), kinds), <<>>, <<>> \o vals) BY <1>3, <1>4, FedValues
<1>6. FedAt(Run(Start(p), kinds), <<>>, vals) BY <1>3, <1>5, Zenon
<1>7. Run(Start(p), Append(kinds, "check")) = Step(Run(Start(p), kinds), "check")
  <2>1. kinds \in Seq(Reads) /\ "check" \in Reads BY SeqMonotonic DEF Reads
  <2> QED BY <2>1, RunAppend
<1> QED BY <1>1, <1>6, <1>7, FedChecked

\* The rest of a block: more values after those read.
LEMMA FedMore ==
  ASSUME NEW r, NEW vals \in Seq(Sendable), NEW kinds \in Seq(Kinds), KindsOf(vals) = kinds,
         NEW t \in Seq(Int), NEW args, FedAt(r, Words(vals) \o t, args)
  PROVE  /\ FedAt(Run(r, kinds), t, args \o vals)
         /\ FedAt(Run(r, Append(kinds, "check")), t, args \o vals)
<1>1. FedAt(Run(r, kinds), t, args \o vals) BY FedValues
<1>2. Run(r, Append(kinds, "check")) = Step(Run(r, kinds), "check")
  <2>1. kinds \in Seq(Reads) /\ "check" \in Reads BY SeqMonotonic DEF Reads
  <2> QED BY <2>1, RunAppend
<1> QED BY <1>1, <1>2, FedChecked

LEMMA FedDrop ==
  ASSUME NEW r, NEW t, NEW args \in Seq(Values), NEW v \in Values, FedAt(r, t, Append(args, v))
  PROVE  FedAt(Drop(r), t, args) /\ Last(r) = v[2]
<1> DEFINE n == Len(args)
           more == Append(args, v)
<1>1. /\ n \in Nat /\ more \in Seq(Values) /\ more # <<>> /\ Len(more) = n + 1 /\ more[n + 1] = v
      /\ \A i \in 1 .. n : more[i] = args[i]
  BY LenProperties, AppendProperties
<1>2. r \in Readers /\ r.valid /\ r.ok /\ Coming(r) = t /\ r.args = more BY DEF FedAt
<1> HIDE DEF more
<1>3. Last(r) = v[2] BY <1>1, <1>2 DEF Last
<1>4. Drop(r) = [r EXCEPT !.args = SubSeq(more, 1, n)]
  <2>1. Len(more) - 1 = n BY <1>1
  <2> QED BY <1>1, <1>2, <2>1 DEF Drop
<1>5. SubSeq(more, 1, n) = args
  <2>1. \A i \in 1 .. n : i \in 1 .. Len(more) BY <1>1
  <2>2. \A i \in 1 .. n : more[i] \in Values BY <1>1, <2>1, ElementOfSeq
  <2>3. /\ SubSeq(more, 1, n) \in Seq(Values) /\ Len(SubSeq(more, 1, n)) = n
        /\ \A i \in 1 .. n : SubSeq(more, 1, n)[i] = more[i]
    BY <1>1, <2>2, SubSeqProperties
  <2> HIDE DEF n
  <2>4. Len(SubSeq(more, 1, n)) = Len(args) BY <2>3 DEF n
  <2>5. \A i \in 1 .. n : SubSeq(more, 1, n)[i] = args[i] BY <1>1, <2>3
  <2> QED BY <2>3, <2>4, <2>5, SeqEqual
<1>6. Drop(r) = [r EXCEPT !.args = args] BY <1>4, <1>5
<1>7. Drop(r) \in Readers /\ Drop(r).valid = r.valid BY <1>2, DropKeeps
<1>8. Drop(r).w = r.w /\ Drop(r).pos = r.pos /\ Drop(r).ok = r.ok /\ Drop(r).args = args
  BY <1>2, <1>6 DEF Readers
<1>9. Coming(Drop(r)) = Coming(r) BY <1>8 DEF Coming
<1>10. FedAt(Drop(r), t, args) BY <1>2, <1>7, <1>8, <1>9 DEF FedAt
<1> QED BY <1>3, <1>10

\* A condition the values meet, and one they do not.
LEMMA FedNarrowed ==
  ASSUME NEW r, NEW t, NEW args, NEW b \in BOOLEAN, FedAt(r, t, args)
  PROVE  LET q == [r EXCEPT !.valid = @ /\ b]
         IN /\ q \in Readers
            /\ b => FedAt(q, t, args)
            /\ ~b => ~q.valid
<1> DEFINE q == [r EXCEPT !.valid = @ /\ b]
<1>1. r \in Readers /\ r.valid /\ r.ok /\ Coming(r) = t /\ r.args = args BY DEF FedAt
<1>2. /\ q \in Readers /\ q.args = r.args /\ q.w = r.w /\ q.pos = r.pos /\ q.ok = r.ok
      /\ (q.valid <=> r.valid /\ b)
  <2>1. q \in Readers BY <1>1 DEF Readers
  <2>2. q.args = r.args /\ q.w = r.w /\ q.pos = r.pos /\ q.ok = r.ok /\ q.valid = (r.valid /\ b)
    BY <1>1 DEF Readers
  <2> HIDE DEF q
  <2> QED BY <2>1, <2>2, Zenon
<1> HIDE DEF q
<1>3. Coming(q) = Coming(r) BY <1>2 DEF Coming
<1>4. b => FedAt(q, t, args)
  <2> SUFFICES ASSUME b PROVE FedAt(q, t, args) OBVIOUS
  <2>1. q.valid BY <1>1, <1>2, Zenon
  <2>2. q.ok BY <1>1, <1>2, Zenon
  <2> QED BY <1>1, <1>2, <1>3, <2>1, <2>2, Zenon DEF FedAt
<1>5. ~b => ~q.valid BY <1>2, Zenon
<1> QED BY <1>2, <1>4, <1>5, Zenon DEF q

LEMMA RunInvalid ==
  ASSUME NEW r \in Readers, ~r.valid, NEW K, NEW kinds \in Seq(K)
  PROVE  Run(r, kinds) = r
<1>1. \A x \in {r} : \A k \in K : Step(x, k) \in {r} BY StepInvalid
<1>2. Run(r, kinds) \in {r} BY <1>1, RunKeeps
<1> QED BY <1>2

-----------------------------------------------------------------------------
(* Every block a client writes whole is read as it was written.               *)

\* The block is accepted if the structures of ril.h allow it, and what is
\* accepted is what onRequest is to see.
Delivered(type, d, o) ==
  /\ o.valid => o.data = Received(type, d)
  /\ Legal(type, d) => o.valid

LEMMA FedOutcome ==
  ASSUME NEW r, NEW t, NEW args, FedAt(r, t, args), NEW null, NEW elems, NEW freed
  PROVE  /\ Outcome(r, null, elems, freed).valid
         /\ Outcome(r, null, elems, freed).data = Datum(null, elems)
BY OutcomeParts DEF FedAt

StructTypes == {"string", "raw", "RIL_SIM_IO", "RIL_CallForwardInfo", "RIL_SMS_WriteArgs",
                "RIL_CDMA_SMS_Ack"}

LEMMA StructLayouts ==
  ASSUME NEW type \in StructTypes
  PROVE  LayoutOf(type) \in Seq(Kinds)
<1>1. LayoutOf("string") = <<"str">> /\ LayoutOf("raw") = <<"raw">> BY DEF LayoutOf
<1>2. LayoutOf("RIL_SIM_IO") = RIL_SIM_IO /\ LayoutOf("RIL_SMS_WriteArgs") = RIL_SMS_WriteArgs
  BY DEF LayoutOf
<1>3. LayoutOf("RIL_CDMA_SMS_Ack") = RIL_CDMA_SMS_Ack BY DEF LayoutOf
<1>4. LayoutOf("RIL_CallForwardInfo") = RIL_CallForwardInfo BY DEF LayoutOf
<1>5. <<"str">> \in Seq(Kinds) /\ <<"raw">> \in Seq(Kinds) BY DEF Kinds
<1>6. RIL_SIM_IO \in Seq(Kinds) /\ RIL_SMS_WriteArgs \in Seq(Kinds)
  BY DEF Kinds, RIL_SIM_IO, RIL_SMS_WriteArgs
<1>7. RIL_CDMA_SMS_Ack \in Seq(Kinds) /\ RIL_CallForwardInfo \in Seq(Kinds)
  BY DEF Kinds, RIL_CDMA_SMS_Ack, RIL_CallForwardInfo
<1> QED BY <1>1, <1>2, <1>3, <1>4, <1>5, <1>6, <1>7 DEF StructTypes

LEMMA StructElems ==
  ASSUME NEW type \in StructTypes
  PROVE  ElemsOf(type) = OneOf(Tuples(LayoutOf(type)))
<1>1. ElemsOf("string") = OneOf(Tuples(LayoutOf("string")))
  BY DEF ElemsOf, Arrays
<1>2. ElemsOf("raw") = OneOf(Tuples(LayoutOf("raw")))
  BY DEF ElemsOf, Arrays
<1>3. ElemsOf("RIL_SIM_IO") = OneOf(Tuples(LayoutOf("RIL_SIM_IO")))
  BY DEF ElemsOf, Arrays
<1>4. ElemsOf("RIL_CallForwardInfo") = OneOf(Tuples(LayoutOf("RIL_CallForwardInfo")))
  BY DEF ElemsOf, Arrays
<1>5. ElemsOf("RIL_SMS_WriteArgs") = OneOf(Tuples(LayoutOf("RIL_SMS_WriteArgs")))
  BY DEF ElemsOf, Arrays
<1>6. ElemsOf("RIL_CDMA_SMS_Ack") = OneOf(Tuples(LayoutOf("RIL_CDMA_SMS_Ack")))
  BY DEF ElemsOf, Arrays
<1> QED BY <1>1, <1>2, <1>3, <1>4, <1>5, <1>6 DEF StructTypes

LEMMA StructData ==
  ASSUME NEW type \in StructTypes, NEW d \in Data(type)
  PROVE  \E t \in Seq(Sendable) :
           /\ d = Datum(FALSE, <<t>>) /\ KindsOf(t) = LayoutOf(type)
           /\ WriteData(type, d) = Words(t)
<1>0. /\ type \notin {"void", "strings", "ints", "RIL_Dial", "RIL_CDMA_SMS_Message",
                      "RIL_CDMA_SMS_WriteArgs", "RIL_Call**", "RIL_CardStatus",
                      "RIL_SignalStrength", "RIL_CDMA_InformationRecords"}
      /\ type \notin Arrays
  BY DEF StructTypes, Arrays
<1>1. d \in {Datum(FALSE, e) : e \in ElemsOf(type)} BY <1>0 DEF Data
<1>2. ElemsOf(type) = OneOf(Tuples(LayoutOf(type))) BY StructElems
<1>3. PICK t \in Tuples(LayoutOf(type)) : d = Datum(FALSE, <<t>>) BY <1>1, <1>2 DEF OneOf
<1>4. LayoutOf(type) \in Seq(Kinds) BY StructLayouts
<1>5. t \in Seq(Sendable) /\ KindsOf(t) = LayoutOf(type) BY <1>4, TuplesParts, KindsOfAre
<1>6. d.elems = <<t>> BY <1>3 DEF Datum
<1>7. WriteData(type, d) = Words(t)
  <2>1. WriteData(type, d) = Words(d.elems[1]) BY <1>0 DEF WriteData
  <2> QED BY <1>6, <2>1
<1> QED BY <1>3, <1>5, <1>7

\* The types that are received as they are sent, whatever they hold.
PlainTypes == {"void", "string", "strings", "RIL_SIM_IO", "RIL_CDMA_SMS_Ack",
               "RIL_GSM_BroadcastSmsConfigInfo**", "RIL_CDMA_BroadcastSmsConfigInfo**",
               "RIL_CDMA_SMS_Message", "RIL_CDMA_SMS_WriteArgs"}

LEMMA PlainDelivered ==
  ASSUME NEW type \in PlainTypes, NEW d, NEW o, o.valid, o.data = d
  PROVE  Delivered(type, d, o)
<1>1. Received(type, d) = d BY DEF Received, PlainTypes
<1>2. Legal(type, d) BY DEF Legal, PlainTypes
<1> QED BY <1>1, <1>2 DEF Delivered

LEMMA VoidDelivered ==
  ASSUME NEW d \in Data("void")
  PROVE  /\ WriteData("void", d) \in Seq(Int)
         /\ Delivered("void", d, dispatchVoid(WriteData("void", d)))
<1> DEFINE p == WriteData("void", d)
           o == dispatchVoid(p)
           null == TRUE
<1>1. d = NoDatum BY DEF Data
<1>2. p = <<>> /\ p \in Seq(Int)
  <2>1. p = <<>> BY DEF WriteData, Arrays
  <2> HIDE DEF p
  <2> QED BY <2>1
<1> HIDE DEF p
<1>3. FedAt(Start(p), p, <<>>) BY <1>2, StartFed
<1>4. o = Outcome(Start(p), null, <<>>, 0) BY DEF dispatchVoid
<1>5. NoDatum = Datum(null, <<>>) BY DEF NoDatum
<1> HIDE DEF o, null
<1>6. o.valid /\ o.data = d BY <1>1, <1>3, <1>4, <1>5, FedOutcome
<1>7. Delivered("void", d, o) BY <1>6, PlainDelivered DEF PlainTypes
<1> QED BY <1>2, <1>7 DEF o, p

LEMMA StringDelivered ==
  ASSUME NEW d \in Data("string")
  PROVE  /\ WriteData("string", d) \in Seq(Int)
         /\ Delivered("string", d, dispatchString(WriteData("string", d)))
<1> DEFINE p == WriteData("string", d)
           r == Run(Start(p), <<"str">>)
           o == dispatchString(p)
           null == FALSE
<1>1. PICK t \in Seq(Sendable) : /\ d = Datum(null, <<t>>) /\ KindsOf(t) = LayoutOf("string")
                                 /\ p = Words(t)
  BY StructData DEF StructTypes
<1>2. LayoutOf("string") = <<"str">> /\ <<"str">> \in Seq(Kinds) BY DEF LayoutOf, Kinds
<1>3. o = Outcome(r, null, <<r.args>>, r.live) BY DEF dispatchString
<1> HIDE DEF p, null, o
<1>4. p \in Seq(Int) /\ FedAt(r, <<>>, t) BY <1>1, <1>2, FedStructure
<1>5. r.args = t BY <1>4 DEF FedAt
<1> HIDE DEF r
<1>6. o.valid /\ o.data = d BY <1>1, <1>3, <1>4, <1>5, FedOutcome
<1>7. Delivered("string", d, o) BY <1>6, PlainDelivered DEF PlainTypes
<1> QED BY <1>4, <1>7 DEF o, p

LEMMA SIM_IODelivered ==
  ASSUME NEW d \in Data("RIL_SIM_IO")
  PROVE  /\ WriteData("RIL_SIM_IO", d) \in Seq(Int)
         /\ Delivered("RIL_SIM_IO", d, dispatchSIM_IO(WriteData("RIL_SIM_IO", d)))
<1> DEFINE p == WriteData("RIL_SIM_IO", d)
           kinds == <<"int", "int", "str", "int", "int", "int", "str", "str">>
           all == <<"int", "int", "str", "int", "int", "int", "str", "str", "check">>
           r == Run(Start(p), all)
           o == dispatchSIM_IO(p)
           null == FALSE
<1>1. PICK t \in Seq(Sendable) : /\ d = Datum(null, <<t>>) /\ KindsOf(t) = LayoutOf("RIL_SIM_IO")
                                 /\ p = Words(t)
  BY StructData DEF StructTypes
<1>2. LayoutOf("RIL_SIM_IO") = kinds /\ kinds \in Seq(Kinds) BY DEF LayoutOf, Kinds, RIL_SIM_IO
<1>3. all = Append(kinds, "check") BY SIM_IOKinds
<1>4. o = Outcome(r, null, <<r.args>>, r.live) BY DEF dispatchSIM_IO
<1> HIDE DEF p, null, o, kinds, all
<1>5. p \in Seq(Int) /\ FedAt(r, <<>>, t) BY <1>1, <1>2, <1>3, FedStructure
<1>6. r.args = t BY <1>5 DEF FedAt
<1> HIDE DEF r
<1>7. o.valid /\ o.data = d BY <1>1, <1>4, <1>5, <1>6, FedOutcome
<1>8. Delivered("RIL_SIM_IO", d, o) BY <1>7, PlainDelivered DEF PlainTypes
<1> QED BY <1>5, <1>8 DEF o, p

LEMMA CdmaSmsAckDelivered ==
  ASSUME NEW d \in Data("RIL_CDMA_SMS_Ack")
  PROVE  /\ WriteData("RIL_CDMA_SMS_Ack", d) \in Seq(Int)
         /\ Delivered("RIL_CDMA_SMS_Ack", d, dispatchCdmaSmsAck(WriteData("RIL_CDMA_SMS_Ack", d)))
<1> DEFINE p == WriteData("RIL_CDMA_SMS_Ack", d)
           kinds == <<"int", "int">>
           all == <<"int", "int", "check">>
           r == Run(Start(p), all)
           o == dispatchCdmaSmsAck(p)
           null == FALSE
<1>1. PICK t \in Seq(Sendable) :
        d = Datum(null, <<t>>) /\ KindsOf(t) = LayoutOf("RIL_CDMA_SMS_Ack") /\ p = Words(t)
  BY StructData DEF StructTypes
<1>2. LayoutOf("RIL_CDMA_SMS_Ack") = kinds /\ kinds \in Seq(Kinds)
  BY DEF LayoutOf, Kinds, RIL_CDMA_SMS_Ack
<1>3. all = Append(kinds, "check") OBVIOUS
<1>4. o = Outcome(r, null, <<r.args>>, 0) BY DEF dispatchCdmaSmsAck
<1> HIDE DEF p, null, o, kinds, all
<1>5. p \in Seq(Int) /\ FedAt(r, <<>>, t) BY <1>1, <1>2, <1>3, FedStructure
<1>6. r.args = t BY <1>5 DEF FedAt
<1> HIDE DEF r
<1>7. o.valid /\ o.data = d BY <1>1, <1>4, <1>5, <1>6, FedOutcome
<1>8. Delivered("RIL_CDMA_SMS_Ack", d, o) BY <1>7, PlainDelivered DEF PlainTypes
<1> QED BY <1>5, <1>8 DEF o, p

\* A change of one member.
LEMMA SingleExcept == ASSUME NEW a, NEW b PROVE [<<a>> EXCEPT ![1] = b] = <<b>>
OBVIOUS

LEMMA PairExcept == ASSUME NEW a, NEW b, NEW c PROVE [<<a, b>> EXCEPT ![2] = c] = <<a, c>>
OBVIOUS

LEMMA DatumExcept ==
  ASSUME NEW null, NEW a, NEW b
  PROVE  /\ Datum(null, a).elems = a
         /\ [Datum(null, a) EXCEPT !.elems = b] = Datum(null, b)
BY DEF Datum

LEMMA RawDelivered ==
  ASSUME NEW d \in Data("raw")
  PROVE  /\ WriteData("raw", d) \in Seq(Int)
         /\ Delivered("raw", d, dispatchRaw(WriteData("raw", d)))
<1> DEFINE p == WriteData("raw", d)
           r == Run(Start(p), <<"raw">>)
           none == r.valid /\ p[1] = -1
           elems == <<IF none THEN <<<<"raw", 0>>>> ELSE r.args>>
           o == dispatchRaw(p)
           null == FALSE
<1>1. PICK t \in Seq(Sendable) :
        d = Datum(null, <<t>>) /\ KindsOf(t) = LayoutOf("raw") /\ p = Words(t)
  BY StructData DEF StructTypes
<1>2. LayoutOf("raw") = <<"raw">> /\ <<"raw">> \in Seq(Kinds) BY DEF LayoutOf, Kinds
<1>3. o = Outcome(r, null, elems, 0) BY DEF dispatchRaw
<1> HIDE DEF p, null, o
<1>4. p \in Seq(Int) /\ FedAt(r, <<>>, t) BY <1>1, <1>2, FedStructure
<1>5. r.args = t /\ r.valid BY <1>4 DEF FedAt
<1>6. PICK x \in Int : t = <<<<"raw", x>>>>
  <2>1. Len(KindsOf(t)) = 1 /\ KindsOf(t)[1] = "raw" BY <1>1, <1>2
  <2>2. Len(t) = 1 /\ t[1][1] = "raw" /\ t[1] \in Sendable
    <3>1. Len(t) = 1 BY <2>1, KindsOfParts
    <3>2. 1 \in 1 .. Len(t) BY <3>1
    <3> QED BY <2>1, <3>1, <3>2, KindsOfParts, ElementOfSeq
  <2>3. t = <<t[1]>>
    <3>1. <<t[1]>> \in Seq(Sendable) /\ Len(<<t[1]>>) = 1 /\ <<t[1]>>[1] = t[1] BY <2>2
    <3>2. \A i \in 1 .. Len(t) : i = 1 BY <2>2
    <3> QED BY <2>2, <3>1, <3>2, SeqEqual
  <2>4. t[1] = <<"raw", t[1][2]>> /\ t[1][2] \in Int BY <2>2 DEF Sendable
  <2> QED BY <2>3, <2>4
<1>7. p = WordsOf(<<"raw", x>>)
  <2>1. <<"raw", x>> \in Sendable BY DEF Sendable, Kinds
  <2> QED BY <1>1, <1>6, <2>1, WordsOne
<1>8. p[1] = -1 <=> x = -1 BY <1>7 DEF WordsOf
<1> HIDE DEF r
<1>9. elems = <<<<<<"raw", IF x = -1 THEN 0 ELSE x>>>>>> BY <1>5, <1>6, <1>8
<1>10. Received("raw", d) = Datum(null, <<<<<<"raw", IF x = -1 THEN 0 ELSE x>>>>>>)
  <2> DEFINE y == IF x = -1 THEN 0 ELSE x
             v == <<"raw", x>>
  <2>1. d = Datum(null, <<<<v>>>>) BY <1>1, <1>6
  <2>2. Received("raw", d) = [d EXCEPT !.elems[1][1][2] = IF @ = -1 THEN 0 ELSE @]
    BY DEF Received
  <2>3. Received("raw", d) =
          [d EXCEPT !.elems = [d.elems EXCEPT ![1] =
             [d.elems[1] EXCEPT ![1] =
                [d.elems[1][1] EXCEPT ![2] = IF d.elems[1][1][2] = -1 THEN 0 ELSE d.elems[1][1][2]]]]]
    BY <2>2, Zenon
  <2>4. [v EXCEPT ![2] = y] = <<"raw", y>> /\ v[2] = x BY PairExcept
  <2>5. d.elems = <<<<v>>>> BY <2>1, DatumExcept
  <2>6. d.elems[1] = <<v>> /\ d.elems[1][1] = v BY <2>5
  <2> HIDE DEF v, y
  <2>7. (IF v[2] = -1 THEN 0 ELSE v[2]) = y BY <2>4 DEF y
  <2> DEFINE w == <<"raw", y>>
  <2>8. [d.elems[1] EXCEPT ![1] = w] = <<w>> /\ [d.elems EXCEPT ![1] = <<w>>] = <<<<w>>>>
    BY <2>5, <2>6, SingleExcept
  <2>9. [d EXCEPT !.elems = <<<<w>>>>] = Datum(null, <<<<w>>>>) BY <2>1, DatumExcept
  <2>10. [d.elems[1][1] EXCEPT ![2] = IF d.elems[1][1][2] = -1 THEN 0 ELSE d.elems[1][1][2]] = w
    BY <2>4, <2>6, <2>7, Zenon
  <2>11. Received("raw", d) = Datum(null, <<<<w>>>>) BY <2>3, <2>8, <2>9, <2>10, Zenon
  <2> QED BY <2>11 DEF w, y
<1> HIDE DEF elems
<1>11. o.valid /\ o.data = Datum(null, elems) BY <1>3, <1>4, FedOutcome
<1>12. Delivered("raw", d, o) BY <1>9, <1>10, <1>11 DEF Delivered
<1> QED BY <1>4, <1>12 DEF o, p

\* The members of a structure whose layout is known.
LEMMA MemberKind ==
  ASSUME NEW t \in Seq(Sendable), NEW kinds \in Seq(Kinds), KindsOf(t) = kinds
  PROVE  /\ Len(t) = Len(kinds)
         /\ \A i \in 1 .. Len(kinds) : t[i] = <<kinds[i], t[i][2]>> /\ t[i][2] \in Int
<1>1. Len(t) = Len(kinds) /\ \A i \in 1 .. Len(t) : kinds[i] = t[i][1] BY KindsOfParts
<1>2. \A i \in 1 .. Len(t) : t[i] \in Sendable BY ElementOfSeq
<1>3. \A v \in Sendable : v = <<v[1], v[2]>> /\ v[2] \in Int BY DEF Sendable
<1> QED BY <1>1, <1>2, <1>3

LEMMA CallForwardDelivered ==
  ASSUME NEW d \in Data("RIL_CallForwardInfo")
  PROVE  /\ WriteData("RIL_CallForwardInfo", d) \in Seq(Int)
         /\ Delivered("RIL_CallForwardInfo", d,
                      dispatchCallForward(WriteData("RIL_CallForwardInfo", d)))
<1> DEFINE p == WriteData("RIL_CallForwardInfo", d)
           kinds == <<"int", "int", "int", "int", "str", "int">>
           all == <<"int", "int", "int", "int", "str", "int", "check">>
           r == Run(Start(p), all)
           empty == r.valid /\ r.args[5][2] = 0
           args == IF empty THEN [r.args EXCEPT ![5] = <<"str", -1>>] ELSE r.args
           freed == IF empty THEN 0 ELSE r.live
           o == dispatchCallForward(p)
           null == FALSE
<1>1. PICK t \in Seq(Sendable) :
        d = Datum(null, <<t>>) /\ KindsOf(t) = LayoutOf("RIL_CallForwardInfo") /\ p = Words(t)
  BY StructData DEF StructTypes
<1>2. /\ LayoutOf("RIL_CallForwardInfo") = kinds /\ kinds \in Seq(Kinds)
      /\ all = Append(kinds, "check") /\ Len(kinds) = 6 /\ kinds[5] = "str"
  BY DEF LayoutOf, Kinds, RIL_CallForwardInfo
<1>3. o = Outcome(r, null, <<args>>, freed) BY Zenon DEF dispatchCallForward
<1> HIDE DEF p, null, o, kinds, all
<1>4. p \in Seq(Int) /\ FedAt(r, <<>>, t) BY <1>1, <1>2, FedStructure
<1>5. r.args = t /\ r.valid BY <1>4 DEF FedAt
<1> HIDE DEF r
<1>6. Len(t) = 6 /\ t[5] = <<"str", t[5][2]>> /\ t[5][2] \in Int
  <2>1. 5 \in 1 .. Len(kinds) BY <1>2
  <2> QED BY <1>1, <1>2, <2>1, MemberKind
<1>7. args = [t EXCEPT ![5][2] = IF @ = 0 THEN -1 ELSE @]
  <2>1. args = IF t[5][2] = 0 THEN [t EXCEPT ![5] = <<"str", -1>>] ELSE t BY <1>5
  <2>2. \A i \in DOMAIN t : i \in 1 .. 6 BY <1>6, LenProperties
  <2> DEFINE u == [t EXCEPT ![5][2] = IF @ = 0 THEN -1 ELSE @]
  <2>3. u = [t EXCEPT ![5] = <<"str", IF t[5][2] = 0 THEN -1 ELSE t[5][2]>>]
    <3>1. [t[5] EXCEPT ![2] = IF t[5][2] = 0 THEN -1 ELSE t[5][2]]
            = <<"str", IF t[5][2] = 0 THEN -1 ELSE t[5][2]>>
      <4> DEFINE v == t[5]
                 y == IF t[5][2] = 0 THEN -1 ELSE t[5][2]
      <4>1. v = <<"str", v[2]>> BY <1>6
      <4> HIDE DEF v, y
      <4>2. [v EXCEPT ![2] = y] = <<"str", y>> BY <4>1
      <4> QED BY <4>2 DEF v, y
    <3> QED BY <3>1
  <2> HIDE DEF args, u
  <2>4. ASSUME t[5][2] = 0 PROVE args = u BY <2>1, <2>3, <2>4
  <2>5. ASSUME t[5][2] # 0 PROVE args = u
    <3>1. u = [t EXCEPT ![5] = t[5]] BY <1>6, <2>3, <2>5
    <3>2. [t EXCEPT ![5] = t[5]] = t
      <4>1. t = [i \in DOMAIN t |-> t[i]] BY LenProperties
      <4> QED BY <4>1
    <3> QED BY <2>1, <2>5, <3>1, <3>2
  <2> QED BY <2>4, <2>5 DEF u
<1>8. Received("RIL_CallForwardInfo", d) = Datum(null, <<args>>)
  <2> HIDE DEF args
  <2>1. Received("RIL_CallForwardInfo", d) = [d EXCEPT !.elems[1][5][2] = IF @ = 0 THEN -1 ELSE @]
    BY DEF Received
  <2>2. Received("RIL_CallForwardInfo", d) =
          [d EXCEPT !.elems = [d.elems EXCEPT ![1] =
             [d.elems[1] EXCEPT ![5][2] = IF @ = 0 THEN -1 ELSE @]]]
    BY <2>1, Zenon
  <2>3. d.elems = <<t>> BY <1>1, DatumExcept
  <2>4. d.elems[1] = t BY <2>3
  <2>5. [d.elems[1] EXCEPT ![5][2] = IF @ = 0 THEN -1 ELSE @] = args BY <1>7, <2>4, Zenon
  <2>6. [d.elems EXCEPT ![1] = args] = <<args>> BY <2>3, SingleExcept
  <2>7. [d EXCEPT !.elems = <<args>>] = Datum(null, <<args>>) BY <1>1, DatumExcept
  <2> QED BY <2>2, <2>5, <2>6, <2>7, Zenon
<1> HIDE DEF args, freed
<1>9. o.valid /\ o.data = Datum(null, <<args>>) BY <1>3, <1>4, FedOutcome
<1>10. Delivered("RIL_CallForwardInfo", d, o) BY <1>8, <1>9 DEF Delivered
<1> QED BY <1>4, <1>10 DEF o, p

LEMMA SmsWriteDelivered ==
  ASSUME NEW d \in Data("RIL_SMS_WriteArgs")
  PROVE  /\ WriteData("RIL_SMS_WriteArgs", d) \in Seq(Int)
         /\ Delivered("RIL_SMS_WriteArgs", d, dispatchSmsWrite(WriteData("RIL_SMS_WriteArgs", d)))
<1> DEFINE p == WriteData("RIL_SMS_WriteArgs", d)
           kinds == <<"int", "str", "str">>
           two == <<"int", "str">>
           g == Run(Start(p), <<"int", "str", "check">>)
           h == NotNull(g, 2)
           r == Run(h, <<"str">>)
           o == dispatchSmsWrite(p)
           null == FALSE
<1>1. PICK t \in Seq(Sendable) :
        d = Datum(null, <<t>>) /\ KindsOf(t) = LayoutOf("RIL_SMS_WriteArgs") /\ p = Words(t)
  BY StructData DEF StructTypes
<1>2. /\ LayoutOf("RIL_SMS_WriteArgs") = kinds /\ kinds \in Seq(Kinds) /\ Len(kinds) = 3
      /\ two \in Seq(Kinds) /\ Len(two) = 2 /\ two[1] = "int" /\ two[2] = "str"
      /\ <<"int", "str", "check">> = Append(two, "check")
      /\ kinds[1] = "int" /\ kinds[2] = "str" /\ kinds[3] = "str"
  BY DEF LayoutOf, Kinds, RIL_SMS_WriteArgs
<1>3. o = Outcome(r, null, <<r.args>>, 1) BY DEF dispatchSmsWrite
<1> HIDE DEF p, null, o, kinds
<1> DEFINE ab == <<t[1], t[2]>>
           c == t[3]
<1>4. /\ Len(t) = 3 /\ t[1] \in Sendable /\ t[2] \in Sendable /\ c \in Sendable
      /\ t[1][1] = "int" /\ t[2][1] = "str" /\ c[1] = "str"
  <2>1. Len(t) = 3 BY <1>1, <1>2, MemberKind
  <2>2. 1 \in 1 .. Len(t) /\ 2 \in 1 .. Len(t) /\ 3 \in 1 .. Len(t) BY <2>1
  <2>3. t[1] \in Sendable /\ t[2] \in Sendable /\ c \in Sendable BY <2>2, ElementOfSeq
  <2>4. \A i \in 1 .. Len(t) : KindsOf(t)[i] = t[i][1] BY KindsOfParts
  <2> QED BY <1>1, <1>2, <2>1, <2>2, <2>3, <2>4
<1>5. ab \in Seq(Sendable) /\ Len(ab) = 2 /\ t = Append(ab, c)
  <2>1. ab \in Seq(Sendable) /\ Len(ab) = 2 /\ ab[1] = t[1] /\ ab[2] = t[2] BY <1>4
  <2> HIDE DEF ab
  <2> HIDE DEF c
  <2>2. /\ Append(ab, c) \in Seq(Sendable) /\ Len(Append(ab, c)) = 3
        /\ Append(ab, c)[1] = t[1] /\ Append(ab, c)[2] = t[2] /\ Append(ab, c)[3] = c
    <3>1. c \in Sendable BY <1>4
    <3>2. 1 \in 1 .. 2 /\ 2 \in 1 .. 2 /\ 2 + 1 = 3 OBVIOUS
    <3>3. /\ Append(ab, c) \in Seq(Sendable) /\ Len(Append(ab, c)) = Len(ab) + 1
          /\ \A i \in 1 .. Len(ab) : Append(ab, c)[i] = ab[i]
          /\ Append(ab, c)[Len(ab) + 1] = c
      BY ZenonT(30), <2>1, <3>1, AppendParts
    <3> QED BY <2>1, <3>2, <3>3
  <2>3. \A i \in 1 .. 3 : i = 1 \/ i = 2 \/ i = 3 OBVIOUS
  <2>4. \A i \in 1 .. Len(t) : t[i] = Append(ab, c)[i] BY <1>4, <2>2, <2>3 DEF c
  <2>5. t = Append(ab, c) BY <1>4, <2>2, <2>4, SeqEqual
  <2> QED BY <2>1, <2>5 DEF ab, c
<1>6. KindsOf(ab) = two
  <2>1. ab[1][1] = "int" /\ ab[2][1] = "str" BY <1>4
  <2>2. \A i \in 1 .. 2 : i = 1 \/ i = 2 OBVIOUS
  <2> HIDE DEF ab, two
  <2>3. \A i \in 1 .. Len(two) : ab[i][1] = two[i] BY <1>2, <2>1, <2>2
  <2> QED BY <1>2, <1>5, <2>3, KindsOfAre
<1>7. ab[2] = t[2] OBVIOUS
<1> HIDE DEF ab, two, c
<1>8. /\ p = Words(ab) \o WordsOf(c) /\ p \in Seq(Int) /\ WordsOf(c) \in Seq(Int)
      /\ Words(ab) \in Seq(Int)
  <2>1. p = Words(ab) \o WordsOf(c) BY <1>1, <1>4, <1>5, WordsAppend
  <2>2. p \in Seq(Int) BY <1>1, WordsIsSeq
  <2> QED BY <1>4, <1>5, <2>1, <2>2, WordsIsSeq, WordsOfIsSeq
<1>9. FedAt(g, WordsOf(c), ab)
  <2>1. FedAt(Start(p), Words(ab) \o WordsOf(c), <<>>) BY <1>8, StartFed
  <2>2. FedAt(g, WordsOf(c), <<>> \o ab) BY <1>2, <1>5, <1>6, <1>8, <2>1, FedMore
  <2>3. <<>> \o ab = ab BY <1>5, ConcatEmptySeq
  <2> QED BY <2>2, <2>3
<1> HIDE DEF g
<1> DEFINE full == t[2][2] # -1
<1>10. h \in Readers /\ (full => FedAt(h, WordsOf(c), ab)) /\ (~full => ~h.valid)
  <2>1. g.args[2] = t[2] BY <1>7, <1>9 DEF FedAt
  <2>2. h = [g EXCEPT !.valid = @ /\ full] BY <2>1 DEF NotNull
  <2>3. full \in BOOLEAN OBVIOUS
  <2> HIDE DEF full, h
  <2> QED BY <1>9, <2>2, <2>3, FedNarrowed
<1> HIDE DEF h
<1>11. r = Step(h, "str") BY RunOne
<1> HIDE DEF r
<1>12. ASSUME full PROVE o.valid /\ o.data = d
  <2>1. FedAt(h, WordsOf(c), ab) BY <1>10, <1>12
  <2>2. WordsOf(c) \o <<>> = WordsOf(c) /\ <<>> \in Seq(Int) BY <1>8, ConcatEmptySeq
  <2>3. FedAt(h, WordsOf(c) \o <<>>, ab) BY <2>1, <2>2
  <2>4. FedAt(r, <<>>, Append(ab, c)) BY <1>4, <1>11, <2>2, <2>3, FedValue
  <2>5. r.args = t BY <1>5, <2>4 DEF FedAt
  <2> QED BY <1>1, <1>3, <2>4, <2>5, FedOutcome
<1>13. ASSUME ~full PROVE ~o.valid
  <2>1. r = h BY <1>10, <1>11, <1>13, StepInvalid
  <2>2. o.valid = r.valid BY <1>3, <1>10, <2>1, OutcomeParts
  <2> QED BY <1>10, <1>13, <2>1, <2>2
<1>14. Legal("RIL_SMS_WriteArgs", d) <=> full
  <2>1. d.elems[1] = t BY <1>1, DatumExcept
  <2> QED BY <2>1 DEF Legal
<1>15. Received("RIL_SMS_WriteArgs", d) = d BY DEF Received
<1> HIDE DEF full
<1>16. Delivered("RIL_SMS_WriteArgs", d, o) BY <1>12, <1>13, <1>14, <1>15 DEF Delivered
<1> QED BY <1>8, <1>16 DEF o, p

LEMMA ConcatSplit ==
  ASSUME NEW T, NEW a \in Seq(T), NEW b \in Seq(T)
  PROVE  /\ SubSeq(a \o b, 1, Len(a)) = a
         /\ SubSeq(a \o b, Len(a) + 1, Len(a) + Len(b)) = b
<1> DEFINE m == Len(a)
           n == Len(b)
           c == a \o b
<1>1. /\ m \in Nat /\ n \in Nat /\ c \in Seq(T) /\ Len(c) = m + n
      /\ \A i \in 1 .. m + n : c[i] = IF i <= m THEN a[i] ELSE b[i - m]
  BY LenProperties, ConcatProperties
<1>2. \A i \in 1 .. m + n : c[i] \in T BY <1>1, ElementOfSeq
<1> HIDE DEF c
<1>3. SubSeq(c, 1, m) = a
  <2> DEFINE s == SubSeq(c, 1, m)
  <2> HIDE DEF m, n
  <2>1. \A i \in 1 .. m : c[i] \in T BY <1>1, <1>2
  <2>2. s \in Seq(T) /\ Len(s) = m /\ \A i \in 1 .. m : s[i] = c[i]
    BY <1>1, <2>1, SubSeqProperties
  <2>3. \A i \in 1 .. m : i \in 1 .. m + n /\ i <= m BY <1>1
  <2>4. \A i \in 1 .. m : s[i] = a[i] BY <1>1, <2>2, <2>3
  <2> HIDE DEF s
  <2>5. Len(s) = Len(a) /\ \A i \in 1 .. Len(s) : s[i] = a[i] BY <2>2, <2>4 DEF m
  <2>6. s = a BY <2>2, <2>5, SeqEqual
  <2> QED BY <2>6 DEF s
<1>4. SubSeq(c, m + 1, m + n) = b
  <2> DEFINE j == m + 1
             k == m + n
             s == SubSeq(c, j, k)
  <2> HIDE DEF m, n
  <2>1. j \in Int /\ k \in Int /\ k - j + 1 = n /\ (IF j <= k THEN k - j + 1 ELSE 0) = n BY <1>1
  <2>2. \A i \in j .. k : c[i] \in T BY <1>1, <1>2
  <2>3. \A i \in 1 .. n : j + i - 1 \in 1 .. m + n /\ ~(j + i - 1 <= m) /\ (j + i - 1) - m = i
    BY <1>1
  <2> HIDE DEF j, k
  <2>4. s \in Seq(T) /\ Len(s) = n /\ \A i \in 1 .. n : s[i] = c[j + i - 1]
    BY <2>1, <2>2, SubSeqProperties
  <2>5. \A i \in 1 .. n : s[i] = b[i] BY <1>1, <2>3, <2>4
  <2> HIDE DEF s
  <2>6. Len(s) = Len(b) /\ \A i \in 1 .. Len(s) : s[i] = b[i] BY <2>4, <2>5 DEF n
  <2>7. s = b BY <2>4, <2>6, SeqEqual
  <2> QED BY <2>7 DEF s, j, k
<1> QED BY <1>3, <1>4 DEF c

LEMMA SubSeqWhole == ASSUME NEW T, NEW vals \in Seq(T) PROVE SubSeq(vals, 1, Len(vals)) = vals
<1>1. <<>> \in Seq(T) /\ vals \o <<>> = vals BY ConcatEmptySeq
<1> QED BY <1>1, ConcatSplit

\* A number at the front of a block is read and taken off the values.
LEMMA FedNumber ==
  ASSUME NEW n \in Int, NEW w \in Seq(Int), NEW r, NEW args, FedAt(r, <<n>> \o w, args)
  PROVE  LET h == Run(r, <<"int", "check">>)
         IN FedAt(Drop(h), w, args) /\ Last(h) = n
<1> DEFINE v == <<"int", n>>
           one == <<v>>
           h == Run(r, <<"int", "check">>)
           k == <<"int">>
<1>1. v \in Sendable /\ one \in Seq(Sendable) /\ one[1] = v /\ Len(one) = 1
  BY DEF Sendable, Kinds
<1>2. k \in Seq(Kinds) /\ Len(k) = 1 /\ k[1] = "int" /\ <<"int", "check">> = Append(k, "check")
  BY DEF Kinds
<1>3. Words(one) = <<n>> BY <1>1, WordsOne DEF WordsOf
<1>4. v[1] = "int" /\ v[2] = n OBVIOUS
<1> HIDE DEF v, one, k
<1>5. KindsOf(one) = k
  <2>1. \A i \in 1 .. 1 : i = 1 OBVIOUS
  <2>2. \A i \in 1 .. Len(k) : one[i][1] = k[i] BY <1>1, <1>2, <1>4, <2>1
  <2> QED BY <1>1, <1>2, <2>2, KindsOfAre
<1>6. FedAt(r, Words(one) \o w, args) BY <1>3
<1>7. FedAt(h, w, args \o one) BY <1>1, <1>2, <1>5, <1>6, FedMore
<1>8. args \in Seq(Values) /\ v \in Values
  <2>1. v \in Values BY <1>1, SendableValues
  <2> QED BY <2>1, ReaderParts DEF FedAt
<1>9. args \o one = Append(args, v) BY <1>8, AppendIsConcat DEF one
<1> HIDE DEF h
<1>10. FedAt(h, w, Append(args, v)) BY <1>7, <1>9
<1> QED BY <1>4, <1>8, <1>10, FedDrop DEF h

\* What is left of a block, read to its end.
LEMMA FedRest ==
  ASSUME NEW r, NEW args, NEW vals \in Seq(Sendable), NEW kinds \in Seq(Kinds),
         KindsOf(vals) = kinds, FedAt(r, Words(vals), args)
  PROVE  /\ FedAt(Run(r, kinds), <<>>, args \o vals)
         /\ FedAt(Run(r, Append(kinds, "check")), <<>>, args \o vals)
<1>1. Words(vals) \in Seq(Int) BY WordsIsSeq
<1>2. Words(vals) \o <<>> = Words(vals) /\ <<>> \in Seq(Int) BY <1>1, ConcatEmptySeq
<1>3. FedAt(r, Words(vals) \o <<>>, args) BY <1>2
<1> QED BY <1>2, <1>3, FedMore

\* How a client writes what it dials: the number and the CLIR mode x, a flag and the UUS
\* information u, if any.
DialIs(d, p, x, u, f) ==
  /\ x \in Seq(Sendable) /\ u \in Seq(Sendable) /\ KindsOf(x) = RIL_Dial
  /\ p = Words(x) \o (<<f>> \o Words(u))
  /\ \/ f = 0 /\ u = <<>> /\ d = Datum(FALSE, <<x>>)
     \/ f = 1 /\ KindsOf(u) = RIL_UUS_Info /\ d = Datum(FALSE, <<x \o u>>)
  /\ d.elems[1][1] = x[1] /\ SubSeq(d.elems[1], 1, 2) = x /\ Len(x) = 2

LEMMA DialData ==
  ASSUME NEW d \in Data("RIL_Dial")
  PROVE  \E x, u, f : DialIs(d, WriteData("RIL_Dial", d), x, u, f)
<1> DEFINE p == WriteData("RIL_Dial", d)
           null == FALSE
<1>1. d \in {Datum(null, e) : e \in ElemsOf("RIL_Dial")} BY DEF Data
<1>2. \A e \in ElemsOf("RIL_Dial") : \E t \in Dialled : e = <<t>>
  BY DEF ElemsOf, Arrays, OneOf
<1> HIDE DEF null
<1>3. PICK x \in Tuples(RIL_Dial) : \E t \in WithUus(x) : d = Datum(null, <<t>>) BY <1>1, <1>2 DEF Dialled
<1> PICK t \in WithUus(x) : d = Datum(null, <<t>>) BY <1>3
<1>4. /\ RIL_Dial \in Seq(Kinds) /\ Len(RIL_Dial) = 2
      /\ RIL_UUS_Info \in Seq(Kinds) /\ Len(RIL_UUS_Info) = 3
  BY DEF RIL_Dial, RIL_UUS_Info, Kinds
<1>5. x \in Seq(Sendable) /\ Len(x) = 2 /\ KindsOf(x) = RIL_Dial
  BY <1>4, TuplesParts, KindsOfAre
<1>6. d.elems[1] = t
  <2>1. d.elems = <<t>> BY DatumExcept
  <2> QED BY <2>1
<1>7. p = Words(SubSeq(t, 1, 2))
            \o (IF Len(t) = 2 THEN <<0>> ELSE <<1>> \o Words(SubSeq(t, 3, 5)))
  BY <1>6 DEF WriteData, Arrays
<1> HIDE DEF p
<1>8. ASSUME t = x PROVE DialIs(d, p, x, <<>>, 0)
  <2>1. SubSeq(t, 1, 2) = x BY <1>5, <1>8, SubSeqWhole
  <2>2. p = Words(x) \o <<0>> BY <1>5, <1>7, <1>8, <2>1
  <2>3. <<0>> \o Words(<<>>) = <<0>>
    <3>1. <<0>> \in Seq(Int) OBVIOUS
    <3> QED BY <3>1, WordsNothing, ConcatEmptySeq
  <2>4. p = Words(x) \o (<<0>> \o Words(<<>>)) BY <2>2, <2>3
  <2>5. d = Datum(FALSE, <<x>>) BY <1>8 DEF null
  <2>6. <<>> \in Seq(Sendable) OBVIOUS
  <2>7. d.elems[1][1] = x[1] /\ SubSeq(d.elems[1], 1, 2) = x BY <1>6, <1>8, <2>1
  <2> QED BY <1>5, <2>4, <2>5, <2>6, <2>7, Zenon DEF DialIs
<1>9. ASSUME NEW u \in Tuples(RIL_UUS_Info), t = x \o u PROVE DialIs(d, p, x, u, 1)
  <2>1. u \in Seq(Sendable) /\ Len(u) = 3 /\ KindsOf(u) = RIL_UUS_Info
    BY <1>4, TuplesParts, KindsOfAre
  <2>2. /\ Len(t) = Len(x) + Len(u)
        /\ \A i \in 1 .. Len(x) + Len(u) : t[i] = IF i <= Len(x) THEN x[i] ELSE u[i - Len(x)]
    BY <1>5, <1>9, <2>1, ConcatProperties
  <2>3. t[1] = x[1] /\ Len(t) = 5
    <3>1. 1 \in 1 .. 5 /\ 1 <= 2 /\ 2 + 3 = 5 OBVIOUS
    <3> QED BY <1>5, <2>1, <2>2, <3>1
  <2>4. SubSeq(t, 1, 2) = x /\ SubSeq(t, 3, 5) = u
    <3>1. SubSeq(x \o u, 1, Len(x)) = x /\ SubSeq(x \o u, Len(x) + 1, Len(x) + Len(u)) = u
      BY <1>5, <2>1, ConcatSplit
    <3>2. Len(x) + 1 = 3 /\ Len(x) + Len(u) = 5 BY <1>5, <2>1
    <3> QED BY <1>5, <1>9, <3>1, <3>2
  <2>5. p = Words(x) \o (<<1>> \o Words(u))
    <3>1. Len(t) # 2 BY <2>3
    <3> QED BY <1>7, <2>4, <3>1, Zenon
  <2>6. d = Datum(FALSE, <<x \o u>>) BY <1>9 DEF null
  <2>7. d.elems[1][1] = x[1] /\ SubSeq(d.elems[1], 1, 2) = x BY <1>6, <2>3, <2>4
  <2> QED BY <1>5, <2>1, <2>5, <2>6, <2>7, Zenon DEF DialIs
<1>10. t = x \/ \E u \in Tuples(RIL_UUS_Info) : t = x \o u BY DEF WithUus
<1> QED BY <1>8, <1>9, <1>10 DEF p

\* What version >= 3 reads of the UUS information, and what an older vendor RIL is given.
LEMMA DialDelivered ==
  ASSUME NEW d \in Data("RIL_Dial")
  PROVE  /\ WriteData("RIL_Dial", d) \in Seq(Int)
         /\ Delivered("RIL_Dial", d, dispatchDial(WriteData("RIL_Dial", d)))
<1> DEFINE p == WriteData("RIL_Dial", d)
           g == Run(Start(p), <<"str", "int", "check">>)
           h == NotNull(g, 1)
           c == Run(h, <<"int", "check">>)
           long == Run(Drop(c), <<"int", "int", "raw">>)
           r == IF version < 3 THEN h ELSE IF Last(c) = 0 THEN Drop(c) ELSE long
           o == dispatchDial(p)
           null == FALSE
<1>1. o = Outcome(r, null, <<r.args>>, 1) BY Zenon DEF dispatchDial
<1>2. PICK x, u, f : DialIs(d, p, x, u, f) BY DialData
<1> HIDE DEF p, o
<1>3. /\ x \in Seq(Sendable) /\ u \in Seq(Sendable) /\ KindsOf(x) = RIL_Dial
      /\ p = Words(x) \o (<<f>> \o Words(u)) /\ f \in {0, 1} /\ f \in Int
      /\ f = 0 => u = <<>> /\ d = Datum(null, <<x>>)
      /\ f # 0 => KindsOf(u) = RIL_UUS_Info /\ d = Datum(null, <<x \o u>>)
      /\ d.elems[1][1] = x[1] /\ SubSeq(d.elems[1], 1, 2) = x /\ Len(x) = 2
  <2>1. /\ x \in Seq(Sendable) /\ u \in Seq(Sendable) /\ KindsOf(x) = RIL_Dial
        /\ p = Words(x) \o (<<f>> \o Words(u))
        /\ d.elems[1][1] = x[1] /\ SubSeq(d.elems[1], 1, 2) = x /\ Len(x) = 2
    BY <1>2, Zenon DEF DialIs
  <2>2. \/ f = 0 /\ u = <<>> /\ d = Datum(null, <<x>>)
        \/ f = 1 /\ KindsOf(u) = RIL_UUS_Info /\ d = Datum(null, <<x \o u>>)
    BY <1>2, Zenon DEF DialIs
  <2> HIDE DEF null
  <2> QED BY <2>1, <2>2
<1> DEFINE z == Words(u)
           more == <<f>> \o z
<1>4. z \in Seq(Int) /\ more \in Seq(Int) /\ Words(x) \in Seq(Int) /\ p \in Seq(Int)
  <2>1. z \in Seq(Int) /\ Words(x) \in Seq(Int) BY <1>3, WordsIsSeq
  <2>2. <<f>> \in Seq(Int) BY <1>3
  <2> HIDE DEF z
  <2>3. more \in Seq(Int) BY <2>1, <2>2, ConcatProperties
  <2> HIDE DEF more
  <2>4. p = Words(x) \o more BY <1>3 DEF more, z
  <2> QED BY <2>1, <2>3, <2>4, ConcatProperties DEF z
<1> HIDE DEF z, null
<1>5. /\ <<"str", "int", "check">> = Append(RIL_Dial, "check") /\ RIL_Dial \in Seq(Kinds)
      /\ RIL_UUS_Info = <<"int", "int", "raw">> /\ RIL_UUS_Info \in Seq(Kinds)
  BY DEF RIL_Dial, RIL_UUS_Info, Kinds
<1>6. FedAt(g, more, x)
  <2> HIDE DEF more
  <2>1. FedAt(Start(p), Words(x) \o more, <<>>)
    <3>1. p = Words(x) \o more BY <1>3 DEF more, z
    <3> QED BY <1>4, <3>1, StartFed
  <2>2. FedAt(g, more, <<>> \o x) BY <1>3, <1>4, <1>5, <2>1, FedMore
  <2>3. <<>> \o x = x BY <1>3, ConcatEmptySeq
  <2> QED BY <2>2, <2>3
<1> HIDE DEF g
<1> DEFINE full == x[1][2] # -1
<1>7. h \in Readers /\ (full => FedAt(h, more, x)) /\ (~full => ~h.valid)
  <2>1. g.args[1] = x[1] BY <1>6 DEF FedAt
  <2>2. h = [g EXCEPT !.valid = @ /\ full] BY <2>1 DEF NotNull
  <2>3. full \in BOOLEAN OBVIOUS
  <2> HIDE DEF full, h, more
  <2> QED BY <1>6, <2>2, <2>3, FedNarrowed
<1> HIDE DEF h
<1> DEFINE rest == IF version < 3 THEN x ELSE IF f = 0 THEN x ELSE x \o u
<1>8. ASSUME full PROVE o.valid /\ o.data = Datum(null, <<rest>>)
  <2>1. FedAt(h, <<f>> \o z, x) BY <1>7, <1>8
  <2>2. FedAt(Drop(c), z, x) /\ Last(c) = f BY <1>3, <1>4, <2>1, FedNumber
  <2> HIDE DEF c
  <2>3. FedAt(long, <<>>, x \o u) \/ f = 0
    <3>1. SUFFICES ASSUME f # 0 PROVE FedAt(long, <<>>, x \o u) OBVIOUS
    <3>2. FedAt(Drop(c), Words(u), x) BY <2>2 DEF z
    <3> QED BY <1>3, <1>5, <3>1, <3>2, FedRest
  <2> HIDE DEF long
  <2>4. \E t : FedAt(r, t, rest)
    <3>1. CASE version < 3 BY <2>1, <3>1
    <3>2. CASE ~(version < 3) /\ f = 0 BY <2>2, <3>2
    <3>3. CASE ~(version < 3) /\ f # 0 BY <2>2, <2>3, <3>3
    <3> QED BY <3>1, <3>2, <3>3
  <2> HIDE DEF r, rest
  <2>5. r.args = rest BY <2>4 DEF FedAt
  <2> QED BY <1>1, <2>4, <2>5, FedOutcome
<1>9. ASSUME ~full PROVE ~o.valid
  <2>1. ~h.valid /\ h \in Readers BY <1>7, <1>9
  <2>2. c = h
    <3>1. <<"int", "check">> \in Seq(Reads) BY DEF Reads, Kinds
    <3> QED BY <2>1, <3>1, RunInvalid
  <2>3. Drop(c) \in Readers /\ ~Drop(c).valid BY <2>1, <2>2, DropKeeps
  <2>4. long = Drop(c)
    <3>1. <<"int", "int", "raw">> \in Seq(Reads) BY DEF Reads, Kinds
    <3> QED BY <2>3, <3>1, RunInvalid
  <2> HIDE DEF c, long
  <2>5. r \in Readers /\ ~r.valid BY <2>1, <2>3, <2>4
  <2> HIDE DEF r
  <2> QED BY <1>1, <2>5, OutcomeParts
<1>10. Legal("RIL_Dial", d) <=> full BY <1>3 DEF Legal
<1>11. Received("RIL_Dial", d) = Datum(null, <<rest>>)
  <2>0. PICK t : d = Datum(null, <<t>>) BY <1>3
  <2>1. CASE version < 3
    <3>1. Received("RIL_Dial", d) = [d EXCEPT !.elems[1] = SubSeq(@, 1, 2)] BY <2>1 DEF Received
    <3>2. Received("RIL_Dial", d) =
            [d EXCEPT !.elems = [d.elems EXCEPT ![1] = SubSeq(d.elems[1], 1, 2)]]
      BY <3>1, Zenon
    <3>3. Received("RIL_Dial", d) = [d EXCEPT !.elems = [d.elems EXCEPT ![1] = x]]
      BY <1>3, <3>2, Zenon
    <3>4. d.elems = <<t>> BY <2>0, DatumExcept
    <3>5. [d.elems EXCEPT ![1] = x] = <<x>> BY <3>4, SingleExcept
    <3>6. [d EXCEPT !.elems = <<x>>] = Datum(null, <<x>>) BY <2>0, DatumExcept
    <3>7. rest = x BY <2>1
    <3> HIDE DEF rest
    <3> QED BY <3>3, <3>5, <3>6, <3>7, Zenon
  <2>2. CASE ~(version < 3)
    <3>1. Received("RIL_Dial", d) = d BY <2>2 DEF Received
    <3>2. rest = IF f = 0 THEN x ELSE x \o u BY <2>2
    <3> HIDE DEF rest
    <3> QED BY <1>3, <3>1, <3>2
  <2> QED BY <2>1, <2>2
<1> HIDE DEF full, rest
<1>12. Delivered("RIL_Dial", d, o) BY <1>8, <1>9, <1>10, <1>11 DEF Delivered
<1> QED BY <1>4, <1>12 DEF o, p

-----------------------------------------------------------------------------
\* Arrays: the values of all the elements, one after the other.

LEMMA SinglesParts ==
  ASSUME NEW T, NEW vals \in Seq(T)
  PROVE  /\ Singles(vals) \in Seq(Seq(T)) /\ Len(Singles(vals)) = Len(vals)
         /\ \A i \in 1 .. Len(vals) : Singles(vals)[i] = <<vals[i]>>
<1> DEFINE n == Len(vals)
           ones == [i \in 1 .. n |-> <<vals[i]>>]
<1>1. n \in Nat /\ DOMAIN vals = 1 .. n BY LenProperties
<1>2. Singles(vals) = ones BY <1>1 DEF Singles
<1>3. \A i \in 1 .. n : <<vals[i]>> \in Seq(T)
  <2>1. \A i \in 1 .. n : vals[i] \in T BY ElementOfSeq
  <2> QED BY <2>1
<1>4. ones \in Seq(Seq(T)) BY <1>1, <1>3, IsASeq
<1>5. Len(ones) = n BY <1>1, <1>4, LenProperties
<1> QED BY <1>2, <1>4, <1>5

LEMMA SinglesAppend ==
  ASSUME NEW T, NEW vals \in Seq(T), NEW v \in T
  PROVE  Singles(Append(vals, v)) = Append(Singles(vals), <<v>>)
<1> DEFINE n == Len(vals)
           more == Append(vals, v)
           a == Singles(more)
           b == Append(Singles(vals), <<v>>)
<1>1. /\ n \in Nat /\ more \in Seq(T) /\ Len(more) = n + 1 /\ more[n + 1] = v
      /\ \A i \in 1 .. n : more[i] = vals[i]
  BY LenProperties, AppendParts
<1>2. a \in Seq(Seq(T)) /\ Len(a) = n + 1 /\ \A i \in 1 .. n + 1 : a[i] = <<more[i]>>
  BY <1>1, SinglesParts
<1>3. <<v>> \in Seq(T) OBVIOUS
<1>4. /\ b \in Seq(Seq(T)) /\ Len(b) = n + 1 /\ b[n + 1] = <<v>>
      /\ \A i \in 1 .. n : b[i] = <<vals[i]>>
  BY <1>3, SinglesParts, AppendParts
<1> HIDE DEF n, more, a, b
<1>5. \A i \in 1 .. n + 1 : i \in 1 .. n \/ i = n + 1 BY <1>1
<1>6. \A i \in 1 .. n + 1 : a[i] = b[i] BY <1>1, <1>2, <1>4, <1>5
<1>7. a = b BY <1>2, <1>4, <1>6, SeqEqual
<1> QED BY <1>7 DEF a, b, more

LEMMA SinglesFlat ==
  ASSUME NEW T, NEW vals \in Seq(T)
  PROVE  Concat(Singles(vals)) = vals
<1> DEFINE P == {s \in Seq(T) : Concat(Singles(s)) = s}
<1>1. <<>> \in P
  <2>1. Singles(<<>>) = <<>>
    <3>1. <<>> \in Seq(T) /\ Len(<<>>) = 0 OBVIOUS
    <3>2. Singles(<<>>) \in Seq(Seq(T)) /\ Len(Singles(<<>>)) = 0 BY <3>1, SinglesParts
    <3> QED BY <3>2, EmptySeq
  <2> QED BY <2>1, ConcatNothing
<1>2. ASSUME NEW s \in Seq(T), NEW v \in T, s \in P PROVE Append(s, v) \in P
  <2>1. Singles(s) \in Seq(Seq(T)) /\ <<v>> \in Seq(T) BY SinglesParts
  <2>2. Concat(Append(Singles(s), <<v>>)) = Concat(Singles(s)) \o <<v>> BY <2>1, ConcatAppend
  <2>3. Concat(Singles(Append(s, v))) = s \o <<v>> BY <1>2, <2>2, SinglesAppend
  <2>4. s \o <<v>> = Append(s, v) /\ Append(s, v) \in Seq(T) BY AppendIsConcat, AppendParts
  <2> QED BY <2>3, <2>4
<1>3. vals \in P
  <2> HIDE DEF P
  <2> QED BY <1>1, <1>2, SeqCases
<1> QED BY <1>3

\* The block of an array: the number of its elements, then their values.
LEMMA ArrayHead ==
  ASSUME NEW e \in Seq(Seq(Sendable)), NEW p, p = <<Len(e)>> \o AllWords(e)
  PROVE  LET h == Run(Start(p), <<"int", "check">>)
         IN /\ p \in Seq(Int) /\ Concat(e) \in Seq(Sendable) /\ Last(h) = Len(e)
            /\ FedAt(Drop(h), Words(Concat(e)), <<>>)
<1> DEFINE n == Len(e)
           w == AllWords(e)
<1>1. n \in Int /\ Concat(e) \in Seq(Sendable) /\ w = Words(Concat(e)) /\ w \in Seq(Int)
  BY LenProperties, AllWordsFlat
<1>2. <<n>> \in Seq(Int) BY <1>1
<1> HIDE DEF n, w
<1>3. p = <<n>> \o w BY DEF n, w
<1>4. p \in Seq(Int) BY <1>1, <1>2, <1>3, ConcatProperties
<1>5. FedAt(Start(p), p, <<>>) BY <1>4, StartFed
<1>6. FedAt(Start(p), <<n>> \o w, <<>>) BY <1>3, <1>5
<1>7. LET h == Run(Start(p), <<"int", "check">>)
      IN FedAt(Drop(h), w, <<>>) /\ Last(h) = n
  BY <1>1, <1>6, FedNumber
<1> QED BY <1>1, <1>4, <1>7 DEF n

LEMMA ListData ==
  ASSUME NEW kind \in {"str", "int"}, NEW e \in ListsOf(kind)
  PROVE  \E t \in Seq(Sendable) :
           /\ e = Singles(t) /\ e \in Seq(Seq(Sendable)) /\ Len(e) = Len(t) /\ Concat(e) = t
           /\ KindsOf(t) = Repeat(Len(t), kind) /\ Len(t) \in Nat
<1>1. PICK n \in 0 .. ArrayMax : \E t \in Tuples(Repeat(n, kind)) : e = Singles(t)
  BY DEF ListsOf
<1>2. PICK t \in Tuples(Repeat(n, kind)) : e = Singles(t) BY <1>1
<1>3. n \in Nat /\ n \in Int /\ kind \in Kinds BY SizesAssumption DEF Kinds
<1>4. Repeat(n, kind) \in Seq(Kinds) /\ Len(Repeat(n, kind)) = n
  <2>1. Len(Repeat(n, kind)) = IF n <= 0 THEN 0 ELSE n BY <1>3, RepeatIsSeq
  <2>2. n <= 0 => n = 0 BY <1>3
  <2> QED BY <1>3, <2>1, <2>2, RepeatIsSeq
<1>5. t \in Seq(Sendable) /\ Len(t) = n /\ KindsOf(t) = Repeat(n, kind)
  BY <1>4, TuplesParts, KindsOfAre
<1> QED BY <1>2, <1>3, <1>5, SinglesParts, SinglesFlat

LEMMA StringsDelivered ==
  ASSUME NEW d \in Data("strings")
  PROVE  /\ WriteData("strings", d) \in Seq(Int)
         /\ Delivered("strings", d, dispatchStrings(WriteData("strings", d)))
<1> DEFINE p == WriteData("strings", d)
           h == Run(Start(p), <<"int", "check">>)
           r == Run(Drop(h), Repeat(Last(h), "str"))
           none == Last(h) = -1
           o == dispatchStrings(p)
<1>1. o = Outcome(r, none, Singles(r.args), r.live) BY DEF dispatchStrings
<1> HIDE DEF o
<1>2. ASSUME d = NoDatum PROVE p \in Seq(Int) /\ o.valid /\ o.data = d
  <2>1. d.null BY <1>2 DEF NoDatum, Datum
  <2>2. p = <<-1>> BY <2>1 DEF WriteData, Arrays
  <2>3. <<-1>> \in Seq(Int) /\ <<-1>> \o <<>> = <<-1>> /\ <<>> \in Seq(Int) OBVIOUS
  <2> HIDE DEF p
  <2>4. FedAt(Start(p), <<-1>> \o <<>>, <<>>) BY <2>2, <2>3, StartFed
  <2>5. FedAt(Drop(h), <<>>, <<>>) /\ Last(h) = -1
    <3> DEFINE m == -1
    <3>1. m \in Int /\ FedAt(Start(p), <<m>> \o <<>>, <<>>) BY <2>4
    <3> HIDE DEF m
    <3>2. FedAt(Drop(h), <<>>, <<>>) /\ Last(h) = m BY <2>3, <3>1, FedNumber
    <3> QED BY <3>2 DEF m
  <2> HIDE DEF h
  <2>6. r = Drop(h)
    <3>1. Repeat(-1, "str") = <<>> BY DEF Repeat
    <3> QED BY <2>5, <3>1, RunNothing
  <2>7. r.args = <<>> BY <2>5, <2>6 DEF FedAt
  <2>8. Singles(<<>>) = <<>>
    <3>1. <<>> \in Seq(Int) /\ Len(<<>>) = 0 OBVIOUS
    <3>2. Singles(<<>>) \in Seq(Seq(Int)) /\ Len(Singles(<<>>)) = 0 BY <3>1, SinglesParts
    <3> QED BY <3>2, EmptySeq
  <2>9. NoDatum = Datum(none, <<>>) BY <2>5 DEF NoDatum, Datum
  <2> HIDE DEF r, none
  <2>10. o.valid /\ o.data = Datum(none, Singles(r.args)) BY <1>1, <2>5, <2>6, FedOutcome
  <2> QED BY <1>2, <2>2, <2>3, <2>7, <2>8, <2>9, <2>10
<1>3. ASSUME NEW e \in ElemsOf("strings"), d = Datum(FALSE, e)
      PROVE  p \in Seq(Int) /\ o.valid /\ o.data = d
  <2>1. e \in ListsOf("str") BY DEF ElemsOf, Arrays
  <2>2. PICK t \in Seq(Sendable) :
          /\ e = Singles(t) /\ e \in Seq(Seq(Sendable)) /\ Len(e) = Len(t) /\ Concat(e) = t
          /\ KindsOf(t) = Repeat(Len(t), "str") /\ Len(t) \in Nat
    BY <2>1, ListData
  <2>3. ~d.null /\ d.elems = e BY <1>3 DEF Datum
  <2>4. p = <<Len(e)>> \o AllWords(e) BY <2>3 DEF WriteData, Arrays
  <2> HIDE DEF p
  <2>5. p \in Seq(Int) /\ Last(h) = Len(t) /\ FedAt(Drop(h), Words(t), <<>>)
    BY <2>2, <2>4, ArrayHead
  <2> HIDE DEF h
  <2>6. Repeat(Len(t), "str") \in Seq(Kinds)
    <3>1. "str" \in Kinds /\ Len(t) \in Int BY <2>2 DEF Kinds
    <3> QED BY <3>1, RepeatIsSeq
  <2>7. FedAt(r, <<>>, <<>> \o t) BY <2>2, <2>5, <2>6, FedRest
  <2>8. <<>> \o t = t BY ConcatEmptySeq
  <2>9. r.args = t BY <2>7, <2>8 DEF FedAt
  <2>10. d = Datum(none, e)
    <3>1. Last(h) # -1 BY <2>2, <2>5
    <3> QED BY <1>3, <3>1 DEF Datum
  <2> HIDE DEF r, none
  <2>11. o.valid /\ o.data = Datum(none, Singles(r.args)) BY <1>1, <2>7, FedOutcome
  <2> QED BY <2>2, <2>5, <2>9, <2>10, <2>11
<1>4. d = NoDatum \/ \E e \in ElemsOf("strings") : d = Datum(FALSE, e) BY DEF Data
<1>5. p \in Seq(Int) /\ o.valid /\ o.data = d BY <1>2, <1>3, <1>4
<1>6. Delivered("strings", d, o) BY <1>5, PlainDelivered DEF PlainTypes
<1> QED BY <1>5, <1>6 DEF o

\* The status is looked at after every int.
CheckedInts(n) == Concat(Repeat(n, <<"int", "check">>))

LEMMA RunBoth ==
  ASSUME NEW r, NEW a \in Seq(Reads), NEW b \in Seq(Reads)
  PROVE  Run(r, a \o b) = Run(Run(r, a), b)
BY RunConcat

LEMMA CheckedIntsMore ==
  ASSUME NEW n \in Nat
  PROVE  /\ CheckedInts(0) = <<>> /\ CheckedInts(n) \in Seq(Reads)
         /\ \A r : Run(r, CheckedInts(n + 1)) = Step(Step(Run(r, CheckedInts(n)), "int"), "check")
<1> DEFINE two == <<"int", "check">>
           a == Repeat(n, two)
<1>1. /\ two \in Seq(Reads) /\ two = Append(<<"int">>, "check") /\ <<"int">> \in Seq(Reads)
      /\ "check" \in Reads
  BY DEF Reads, Kinds
<1> HIDE DEF two
<1>2. n \in Int /\ a \in Seq(Seq(Reads))
  <2>1. n \in Int OBVIOUS
  <2> DEFINE K == Seq(Reads)
  <2>2. two \in K BY <1>1
  <2> HIDE DEF K
  <2>3. a \in Seq(K) BY <2>1, <2>2, RepeatIsSeq
  <2> QED BY <2>1, <2>3 DEF K
<1>3. Repeat(0, two) = <<>> /\ Repeat(n + 1, two) = Append(a, two) BY <1>1, RepeatAppend
<1> HIDE DEF a
<1>4. CheckedInts(0) = <<>> BY <1>3, ConcatNothing DEF CheckedInts, two
<1>5. CheckedInts(n) = Concat(a) /\ Concat(a) \in Seq(Reads) BY <1>2, ConcatIsSeq DEF CheckedInts, a, two
<1>6. CheckedInts(n + 1) = Concat(a) \o two BY <1>1, <1>2, <1>3, ConcatAppend DEF CheckedInts, two
<1>7. ASSUME NEW r
      PROVE  Run(r, CheckedInts(n + 1)) = Step(Step(Run(r, CheckedInts(n)), "int"), "check")
  <2> DEFINE q == Run(r, Concat(a))
  <2>1. Run(r, CheckedInts(n + 1)) = Run(q, two)
    <3> DEFINE x == Concat(a)
    <3>1. x \in Seq(Reads) /\ CheckedInts(n + 1) = x \o two BY <1>5, <1>6
    <3> HIDE DEF x
    <3>2. Run(r, x \o two) = Run(Run(r, x), two) BY ZenonT(30), <1>1, <3>1, RunBoth
    <3> QED BY <3>1, <3>2 DEF x
  <2> HIDE DEF q
  <2>2. Run(q, two) = Step(Run(q, <<"int">>), "check") BY <1>1, RunAppend
  <2>3. Run(q, <<"int">>) = Step(q, "int") BY RunOne
  <2> QED BY <1>5, <2>1, <2>2, <2>3 DEF q
<1> QED BY <1>4, <1>5, <1>7

LEMMA FedInts ==
  ASSUME NEW vals \in Seq(Sendable), \A i \in 1 .. Len(vals) : vals[i][1] = "int", NEW r,
         NEW args, NEW t \in Seq(Int), FedAt(r, Words(vals) \o t, args)
  PROVE  FedAt(Run(r, CheckedInts(Len(vals))), t, args \o vals)
<1> DEFINE Q(s) == \A u \in Seq(Int) : (\A i \in 1 .. Len(s) : s[i][1] = "int") =>
                     (FedAt(r, Words(s) \o u, args) =>
                        FedAt(Run(r, CheckedInts(Len(s))), u, args \o s))
           P == {s \in Seq(Sendable) : Q(s)}
<1>0. args \in Seq(Values) BY ReaderParts DEF FedAt
<1>1. <<>> \in P
  <2>1. <<>> \in Seq(Sendable) /\ Len(<<>>) = 0 OBVIOUS
  <2>2. Run(r, CheckedInts(0)) = r
    <3>1. 0 \in Nat OBVIOUS
    <3> QED BY <3>1, CheckedIntsMore, RunNothing
  <2>3. args \o <<>> = args BY <1>0, ConcatEmptySeq
  <2>4. \A u \in Seq(Int) : Words(<<>>) \o u = u BY WordsNothing, ConcatEmptySeq
  <2> QED BY <2>1, <2>2, <2>3, <2>4
<1>2. ASSUME NEW s \in Seq(Sendable), NEW v \in Sendable, s \in P PROVE Append(s, v) \in P
  <2> DEFINE more == Append(s, v)
             n == Len(s)
             q == Run(r, CheckedInts(n))
  <2>1. /\ more \in Seq(Sendable) /\ Len(more) = n + 1 /\ n \in Nat
        /\ \A i \in 1 .. n : more[i] = s[i] /\ more[n + 1] = v
    BY AppendParts, LenProperties
  <2> SUFFICES ASSUME NEW u \in Seq(Int), \A i \in 1 .. Len(more) : more[i][1] = "int",
                      FedAt(r, Words(more) \o u, args)
               PROVE  FedAt(Run(r, CheckedInts(Len(more))), u, args \o more)
    BY <2>1
  <2>2. Words(more) = Words(s) \o WordsOf(v) BY WordsAppend
  <2>3. Words(s) \in Seq(Int) /\ WordsOf(v) \in Seq(Int) BY WordsIsSeq, WordsOfIsSeq
  <2> DEFINE x == Words(s)
             y == WordsOf(v)
  <2>4. FedAt(r, (x \o y) \o u, args) BY <2>2
  <2>5. FedAt(r, x \o (y \o u), args) /\ y \o u \in Seq(Int) BY <2>3, <2>4, FedSplit
  <2> HIDE DEF n
  <2>6. v[1] = "int" /\ \A i \in 1 .. n : s[i][1] = "int"
    <3> HIDE DEF more
    <3>1. n + 1 \in 1 .. n + 1 /\ \A i \in 1 .. n : i \in 1 .. n + 1 BY <2>1
    <3>2. 1 .. Len(more) = 1 .. n + 1 /\ more[n + 1] = v BY <2>1, AppendParts DEF more, n
    <3>3. more[n + 1][1] = "int" BY <3>1, <3>2
    <3>4. \A i \in 1 .. n : more[i][1] = "int" BY <3>1, <3>2
    <3> QED BY <2>1, <3>2, <3>3, <3>4
  <2>7. FedAt(q, y \o u, args \o s) BY <1>2, <2>5, <2>6 DEF n
  <2>8. FedAt(Step(q, "int"), u, Append(args \o s, v)) BY <2>6, <2>7, FedValue
  <2>9. FedAt(Step(Step(q, "int"), "check"), u, Append(args \o s, v)) BY <2>8, FedChecked
  <2>10. Run(r, CheckedInts(Len(more))) = Step(Step(q, "int"), "check")
    BY <2>1, CheckedIntsMore
  <2>11. args \o more = Append(args \o s, v)
    <3>1. s \in Seq(Values) /\ v \in Values BY SendableValues, SeqMonotonic
    <3> QED BY <1>0, <3>1, AppendOne
  <2> HIDE DEF q, more
  <2> QED BY <2>9, <2>10, <2>11
<1>3. vals \in P
  <2> HIDE DEF P
  <2> QED BY <1>1, <1>2, SeqCases
<1> QED BY <1>3

LEMMA IntsDelivered ==
  ASSUME NEW d \in Data("ints")
  PROVE  /\ WriteData("ints", d) \in Seq(Int)
         /\ Delivered("ints", d, dispatchInts(WriteData("ints", d)))
<1> DEFINE p == WriteData("ints", d)
           h == Run(Start(p), <<"int", "check">>)
           c == [Drop(h) EXCEPT !.valid = @ /\ Last(h) # 0]
           r == Run(c, CheckedInts(Last(h)))
           o == dispatchInts(p)
           null == FALSE
<1>1. o = Outcome(r, null, Singles(r.args), 0) BY DEF dispatchInts, CheckedInts
<1> HIDE DEF o
<1>2. PICK e \in ElemsOf("ints") : d = Datum(null, e) BY DEF Data
<1>3. e \in ListsOf("int") BY DEF ElemsOf, Arrays
<1>4. PICK t \in Seq(Sendable) :
        /\ e = Singles(t) /\ e \in Seq(Seq(Sendable)) /\ Len(e) = Len(t) /\ Concat(e) = t
        /\ KindsOf(t) = Repeat(Len(t), "int") /\ Len(t) \in Nat
  BY <1>3, ListData
<1>5. ~d.null /\ d.elems = e BY <1>2 DEF Datum
<1>6. p = <<Len(e)>> \o AllWords(e) BY <1>5 DEF WriteData, Arrays
<1> HIDE DEF p, null
<1>7. p \in Seq(Int) /\ Last(h) = Len(t) /\ FedAt(Drop(h), Words(t), <<>>)
  BY <1>4, <1>6, ArrayHead
<1> HIDE DEF h
<1> DEFINE some == Len(t) # 0
<1>8. c \in Readers /\ (some => FedAt(c, Words(t), <<>>)) /\ (~some => ~c.valid)
  <2>1. c = [Drop(h) EXCEPT !.valid = @ /\ some] BY <1>7
  <2>2. some \in BOOLEAN OBVIOUS
  <2> HIDE DEF some, c
  <2> QED BY <1>7, <2>1, <2>2, FedNarrowed
<1> HIDE DEF c
<1>9. ASSUME some PROVE o.valid /\ o.data = d
  <2>1. Words(t) \in Seq(Int) /\ <<>> \in Seq(Int) BY WordsIsSeq
  <2>2. Words(t) \o <<>> = Words(t) BY <2>1, ConcatEmptySeq
  <2>3. FedAt(c, Words(t) \o <<>>, <<>>) BY <1>8, <1>9, <2>2
  <2>4. \A i \in 1 .. Len(t) : t[i][1] = "int"
    <3>1. "int" \in Kinds /\ Len(t) \in Int BY <1>4 DEF Kinds
    <3>2. Len(KindsOf(t)) = Len(t) /\ \A i \in 1 .. Len(t) : KindsOf(t)[i] = t[i][1]
      BY KindsOfParts
    <3>3. \A i \in 1 .. Len(Repeat(Len(t), "int")) : Repeat(Len(t), "int")[i] = "int"
      BY <3>1, RepeatIsSeq
    <3> QED BY <1>4, <3>2, <3>3
  <2>5. FedAt(r, <<>>, <<>> \o t) BY <1>7, <2>1, <2>3, <2>4, FedInts
  <2>6. <<>> \o t = t BY ConcatEmptySeq
  <2>7. r.args = t BY <2>5, <2>6 DEF FedAt
  <2> HIDE DEF r
  <2>8. o.valid /\ o.data = Datum(null, Singles(r.args)) BY <1>1, <2>5, FedOutcome
  <2> QED BY <1>2, <1>4, <2>7, <2>8
<1>10. ASSUME ~some PROVE ~o.valid
  <2>1. CheckedInts(Last(h)) \in Seq(Reads) BY <1>4, <1>7, CheckedIntsMore
  <2>2. r = c BY <1>8, <1>10, <2>1, RunInvalid
  <2> HIDE DEF r
  <2>3. o.valid = r.valid BY <1>1, <1>8, <2>2, OutcomeParts
  <2> QED BY <1>8, <1>10, <2>2, <2>3
<1>11. Legal("ints", d) <=> some
  <2>1. e = <<>> <=> Len(e) = 0 BY <1>4, EmptySeq
  <2> QED BY <1>4, <1>5, <2>1 DEF Legal
<1>12. Received("ints", d) = d BY DEF Received
<1> HIDE DEF some
<1>13. Delivered("ints", d, o) BY <1>9, <1>10, <1>11, <1>12 DEF Delivered
<1> QED BY <1>7, <1>13 DEF o, p

\* Structures of one size: the i-th one's j-th value among those of all.
EvenSizes(e, m) == \A i \in 1 .. Len(e) : Len(e[i]) = m

Before(i, m) == (i - 1) * m

Grid(e, m) ==
  /\ Len(Concat(e)) = Before(Len(e) + 1, m)
  /\ \A i \in 1 .. Len(e) : \A j \in 1 .. m : Concat(e)[Before(i, m) + j] = e[i][j]

LEMMA BeforeIs ==
  ASSUME NEW m \in {3, 5}, NEW n \in Nat
  PROVE  /\ Before(n + 1, m) \in Nat /\ Before(n + 1, m) = m * n
         /\ Before(n + 1 + 1, m) = Before(n + 1, m) + m
         /\ Before(n + 1, m) \div m = n /\ Before(1, m) = 0
<1>1. CASE m = 3 BY <1>1 DEF Before
<1>2. CASE m = 5 BY <1>2 DEF Before
<1> QED BY <1>1, <1>2

LEMMA BeforeWithin ==
  ASSUME NEW m \in {3, 5}, NEW n \in Nat, NEW i \in 1 .. n
  PROVE  /\ Before(i, m) \in Nat /\ Before(i, m) + m <= Before(n + 1, m)
         /\ i * m = Before(i, m) + m
<1>1. CASE m = 3 BY <1>1 DEF Before
<1>2. CASE m = 5 BY <1>2 DEF Before
<1> QED BY <1>1, <1>2

LEMMA ArrayGrid ==
  ASSUME NEW T, NEW m \in {3, 5}, NEW e \in Seq(Seq(T)), EvenSizes(e, m)
  PROVE  Grid(e, m)
<1> DEFINE P == {s \in Seq(Seq(T)) : EvenSizes(s, m) => Grid(s, m)}
<1>0. m \in Nat OBVIOUS
<1>1. <<>> \in P
  <2>1. <<>> \in Seq(Seq(T)) /\ Len(<<>>) = 0 /\ 0 + 1 = 1 OBVIOUS
  <2>2. \A i \in 1 .. 0 : FALSE OBVIOUS
  <2>3. 0 \in Nat OBVIOUS
  <2>4. Before(1, m) = 0 BY <2>3, BeforeIs
  <2> QED BY <2>1, <2>2, <2>4, ConcatNothing DEF Grid
<1>2. ASSUME NEW s \in Seq(Seq(T)), NEW v \in Seq(T), s \in P PROVE Append(s, v) \in P
  <2> DEFINE more == Append(s, v)
             n == Len(s)
             a == Concat(s)
             b == Concat(more)
             all == Before(n + 1, m)
  <2>1. /\ more \in Seq(Seq(T)) /\ Len(more) = n + 1 /\ n \in Nat /\ more[n + 1] = v
        /\ \A i \in 1 .. n : more[i] = s[i]
    BY AppendParts, LenProperties
  <2> SUFFICES ASSUME EvenSizes(more, m) PROVE Grid(more, m) BY <2>1
  <2>2. b = a \o v /\ a \in Seq(T) BY ConcatAppend, ConcatIsSeq
  <2> HIDE DEF n, b, a, more
  <2>3. Len(v) = m /\ \A i \in 1 .. n : Len(s[i]) = m
    <3>1. n + 1 \in 1 .. n + 1 /\ \A i \in 1 .. n : i \in 1 .. n + 1 BY <2>1
    <3> QED BY <2>1, <3>1 DEF EvenSizes
  <2>4. Len(a) = all /\ \A i \in 1 .. n : \A j \in 1 .. m : a[Before(i, m) + j] = s[i][j]
    BY <1>2, <2>3 DEF n, a, EvenSizes, Grid
  <2>5. all \in Nat /\ Before(n + 1 + 1, m) = all + m BY <2>1, BeforeIs
  <2> HIDE DEF all
  <2>6. /\ Len(b) = all + m
        /\ \A k \in 1 .. all + m : b[k] = IF k <= all THEN a[k] ELSE v[k - all]
    BY <2>2, <2>3, <2>4, ConcatProperties
  <2>7. ASSUME NEW i \in 1 .. n + 1, NEW j \in 1 .. m PROVE b[Before(i, m) + j] = more[i][j]
    <3> DEFINE before == Before(i, m)
    <3>1. i \in 1 .. n \/ i = n + 1 BY <2>1
    <3>2. ASSUME i \in 1 .. n PROVE b[before + j] = more[i][j]
      <4>1. a[before + j] = s[i][j] BY <2>4, <3>2
      <4>2. before \in Nat /\ before + m <= all BY <2>1, <3>2, BeforeWithin DEF all
      <4> HIDE DEF before
      <4>3. before + j \in 1 .. all + m /\ before + j <= all BY <1>0, <2>5, <4>2
      <4>4. b[before + j] = a[before + j] BY <2>6, <4>3
      <4> QED BY <2>1, <3>2, <4>1, <4>4
    <3>3. ASSUME i = n + 1 PROVE b[before + j] = more[i][j]
      <4>1. before = all BY <3>3 DEF all
      <4> HIDE DEF before
      <4> DEFINE k == before + j
      <4>2. k \in 1 .. all + m /\ ~(k <= all) /\ k - all = j BY <1>0, <2>5, <4>1
      <4> HIDE DEF k
      <4>3. b[k] = v[j] BY <2>6, <4>2
      <4> QED BY <2>1, <3>3, <4>3 DEF k
    <3> QED BY <3>1, <3>2, <3>3
  <2>8. Len(b) = Before(Len(more) + 1, m) BY <2>1, <2>5, <2>6
  <2> QED BY <2>1, <2>7, <2>8 DEF Grid, b
<1>3. e \in P
  <2> DEFINE K == Seq(T)
  <2> HIDE DEF P, K
  <2>1. \A s \in Seq(K) : \A v \in K : s \in P => Append(s, v) \in P BY <1>2 DEF K
  <2>2. \A s \in Seq(K) : s \in P BY <1>1, <2>1, SeqCases
  <2> QED BY <2>2 DEF K
<1> QED BY <1>3

LEMMA GridChunks ==
  ASSUME NEW T, NEW m \in {3, 5}, NEW e \in Seq(Seq(T)), EvenSizes(e, m)
  PROVE  Chunks(Concat(e), m) = e
<1> DEFINE n == Len(e)
           a == Concat(e)
           all == Before(n + 1, m)
<1>1. /\ n \in Nat /\ DOMAIN e = 1 .. n /\ e = [i \in 1 .. n |-> e[i]] /\ m \in Nat
      /\ \A i \in 1 .. n : e[i] \in Seq(T)
  BY LenProperties, ElementOfSeq
<1>2. a \in Seq(T) BY ConcatIsSeq
<1>3. Grid(e, m) BY ArrayGrid
<1>4. Len(a) = all /\ \A i \in 1 .. n : \A j \in 1 .. m : a[Before(i, m) + j] = e[i][j]
  BY <1>3 DEF Grid
<1>5. \A i \in 1 .. n : Len(e[i]) = m BY DEF EvenSizes
<1>6. all \in Nat /\ all \div m = n BY <1>1, BeforeIs
<1> HIDE DEF n, a, all
<1>7. \A k \in 1 .. all : a[k] \in T BY <1>2, <1>4, ElementOfSeq
<1>8. ASSUME NEW i \in 1 .. n PROVE SubSeq(a, (i - 1) * m + 1, i * m) = e[i]
  <2> DEFINE before == Before(i, m)
             lo == before + 1
             hi == before + m
             s == SubSeq(a, lo, hi)
  <2>1. before \in Nat /\ before + m <= all /\ i * m = hi BY <1>1, BeforeWithin DEF all
  <2>2. \A j \in 1 .. m : a[before + j] = e[i][j] BY <1>4
  <2>3. (i - 1) * m = before BY DEF Before
  <2> HIDE DEF before
  <2>4. /\ lo \in Int /\ hi \in Int /\ (IF lo <= hi THEN hi - lo + 1 ELSE 0) = m
        /\ \A k \in lo .. hi : k \in 1 .. all
        /\ \A j \in 1 .. m : lo + j - 1 = before + j
    <3>1. lo \in Int /\ hi \in Int /\ (IF lo <= hi THEN hi - lo + 1 ELSE 0) = m
      <4>1. m \in Nat /\ m >= 1 OBVIOUS
      <4>2. lo \in Int /\ hi \in Int /\ lo <= hi BY <2>1, <4>1
      <4>3. hi - lo + 1 = m BY <2>1, <4>1
      <4> QED BY <4>2, <4>3
    <3>2. \A k \in lo .. hi : k \in 1 .. all BY SMTT(30), <1>1, <1>6, <2>1
    <3>3. \A j \in 1 .. m : lo + j - 1 = before + j BY <1>1, <2>1
    <3> QED BY <3>1, <3>2, <3>3
  <2>5. SubSeq(a, (i - 1) * m + 1, i * m) = s BY <2>1, <2>3
  <2> HIDE DEF lo, hi
  <2>6. \A k \in lo .. hi : a[k] \in T BY <1>7, <2>4
  <2>7. s \in Seq(T) /\ Len(s) = m /\ \A j \in 1 .. m : s[j] = a[lo + j - 1]
    BY <2>4, <2>6, SubSeqProperties
  <2> HIDE DEF s
  <2>8. \A j \in 1 .. m : s[j] = e[i][j] BY <2>2, <2>4, <2>7
  <2>9. e[i] \in Seq(T) /\ Len(e[i]) = m BY <1>1, <1>5
  <2>10. s = e[i] BY <2>7, <2>8, <2>9, SeqEqual
  <2> QED BY <2>5, <2>10
<1>9. Chunks(a, m) = [i \in 1 .. n |-> SubSeq(a, (i - 1) * m + 1, i * m)]
  <2>1. Len(a) \div m = n BY <1>4, <1>6
  <2> QED BY <2>1 DEF Chunks
<1>10. Chunks(a, m) = [i \in 1 .. n |-> e[i]] BY <1>8, <1>9
<1> QED BY <1>1, <1>10 DEF a

LEMMA MadeSeq ==
  ASSUME NEW T, NEW n \in Nat, NEW s, s = [i \in 1 .. n |-> s[i]], \A i \in 1 .. n : s[i] \in T
  PROVE  s \in Seq(T) /\ Len(s) = n
<1>1. s \in [1 .. n -> T] OBVIOUS
<1>2. s \in Seq(T) BY <1>1, SeqDef
<1> QED BY <1>1, <1>2, LenProperties

\* The arrays of structures of a layout.
LEMMA ArrayParts ==
  ASSUME NEW layout \in Seq(Kinds), NEW e \in ArraysOf(Tuples(layout))
  PROVE  /\ e \in Seq(Seq(Sendable)) /\ Len(e) \in Nat
         /\ \A i \in 1 .. Len(e) : /\ e[i] \in Seq(Sendable) /\ Len(e[i]) = Len(layout)
                                   /\ \A j \in 1 .. Len(layout) : e[i][j][1] = layout[j]
<1>1. PICK n \in 0 .. ArrayMax : e \in [1 .. n -> Tuples(layout)] BY DEF ArraysOf
<1>2. n \in Nat BY SizesAssumption
<1>3. e = [i \in 1 .. n |-> e[i]] /\ \A i \in 1 .. n : e[i] \in Tuples(layout) BY <1>1
<1>4. \A i \in 1 .. n : /\ e[i] \in Seq(Sendable) /\ Len(e[i]) = Len(layout)
                        /\ \A j \in 1 .. Len(layout) : e[i][j][1] = layout[j]
  BY <1>3, TuplesParts
<1>5. e \in Seq(Seq(Sendable)) BY <1>2, <1>3, <1>4, IsASeq
<1>6. Len(e) = n BY <1>1, <1>2, <1>5, LenProperties
<1> QED BY <1>2, <1>4, <1>5, <1>6

\* Structures of ints, as the cell broadcast configurations are.
LEMMA RecordsDelivered ==
  ASSUME NEW m \in {3, 5}, NEW layout \in Seq(Kinds), Len(layout) = m,
         \A j \in 1 .. m : layout[j] = "int", NEW e \in ArraysOf(Tuples(layout)),
         NEW p, p = <<Len(e)>> \o AllWords(e)
  PROVE  /\ p \in Seq(Int)
         /\ Records(p, m).valid /\ Records(p, m).data = Datum(FALSE, e)
<1> DEFINE h == Run(Start(p), <<"int", "check">>)
           kinds == Repeat(m * Last(h), "int")
           r == Run(Drop(h), kinds \o <<"check">>)
           o == Records(p, m)
           null == FALSE
           n == Len(e)
           vals == Concat(e)
           T == {v \in Sendable : v[1] = "int"}
<1>1. o = Outcome(r, null, Chunks(r.args, m), 0) BY DEF Records
<1> HIDE DEF o, null
<1>2. /\ e \in Seq(Seq(Sendable)) /\ n \in Nat
      /\ \A i \in 1 .. n : /\ e[i] \in Seq(Sendable) /\ Len(e[i]) = m
                           /\ \A j \in 1 .. m : e[i][j][1] = "int"
  <2> HIDE DEF h, kinds, r, vals, T
  <2>1. /\ e \in Seq(Seq(Sendable)) /\ Len(e) \in Nat
        /\ \A i \in 1 .. Len(e) : /\ e[i] \in Seq(Sendable) /\ Len(e[i]) = Len(layout)
                                  /\ \A j \in 1 .. Len(layout) : e[i][j][1] = layout[j]
    BY ArrayParts
  <2>2. \A j \in 1 .. Len(layout) : layout[j] = "int" OBVIOUS
  <2> QED BY <2>1, <2>2
<1>3. e \in Seq(Seq(T))
  <2>1. \A i \in 1 .. n : e[i] \in Seq(T)
    <3> SUFFICES ASSUME NEW i \in 1 .. n PROVE e[i] \in Seq(T) OBVIOUS
    <3> DEFINE s == e[i]
    <3>1. s \in Seq(Sendable) /\ Len(s) = m /\ \A j \in 1 .. m : s[j][1] = "int" BY <1>2
    <3> HIDE DEF s
    <3>2. \A j \in 1 .. m : s[j] \in T BY <3>1, ElementOfSeq
    <3>3. s = [j \in 1 .. m |-> s[j]] BY <3>1, LenProperties
    <3>4. m \in Nat OBVIOUS
    <3> HIDE DEF T
    <3>5. s \in Seq(T) BY <3>2, <3>3, <3>4, MadeSeq
    <3> QED BY <3>5 DEF s
  <2>2. e = [i \in 1 .. n |-> e[i]] BY <1>2, LenProperties
  <2> HIDE DEF n, T
  <2> DEFINE K == Seq(T)
  <2> HIDE DEF K
  <2>3. \A i \in 1 .. n : e[i] \in K BY <2>1 DEF K
  <2>4. e \in Seq(K) BY <1>2, <2>2, <2>3, MadeSeq DEF n
  <2> QED BY <2>4 DEF K
<1>4. EvenSizes(e, m) BY <1>2 DEF EvenSizes
<1>5. vals \in Seq(T) /\ Chunks(vals, m) = e
  <2> HIDE DEF T
  <2> QED BY <1>3, <1>4, ConcatIsSeq, GridChunks
<1>6. Len(vals) = m * n
  <2> HIDE DEF T
  <2>1. Grid(e, m) BY <1>3, <1>4, ArrayGrid
  <2>2. Before(n + 1, m) = m * n BY <1>2, BeforeIs
  <2> QED BY <2>1, <2>2 DEF Grid
<1>7. \A i \in 1 .. Len(vals) : vals[i][1] = "int"
  <2> HIDE DEF vals
  <2>1. \A i \in 1 .. Len(vals) : vals[i] \in T BY <1>5, ElementOfSeq
  <2> QED BY <2>1
<1> HIDE DEF T, n, h
<1>8. /\ p \in Seq(Int) /\ vals \in Seq(Sendable) /\ Last(h) = n
      /\ FedAt(Drop(h), Words(vals), <<>>)
  BY <1>2, ArrayHead DEF h, n
<1> DEFINE mn == m * n
<1>9. mn \in Nat /\ mn \in Int /\ "int" \in Kinds /\ ~(mn <= 0 /\ mn # 0)
  <2>1. mn \in Nat
    <3>1. m \in Nat OBVIOUS
    <3> QED BY <1>2, <3>1
  <2> HIDE DEF mn
  <2> QED BY <2>1 DEF Kinds
<1>10. kinds = Repeat(mn, "int") BY <1>8
<1> HIDE DEF mn, kinds, vals
<1>11. KindsOf(vals) = kinds /\ kinds \in Seq(Kinds)
  <2>1. /\ kinds \in Seq(Kinds) /\ Len(kinds) = mn
        /\ \A i \in 1 .. Len(kinds) : kinds[i] = "int"
    <3>1. Len(kinds) = IF mn <= 0 THEN 0 ELSE mn BY <1>9, <1>10, RepeatIsSeq
    <3>2. Len(kinds) = mn BY <1>9, <3>1
    <3>3. kinds \in Seq(Kinds) BY <1>9, <1>10, RepeatIsSeq
    <3>4. \A i \in 1 .. Len(kinds) : kinds[i] = "int" BY <1>9, <1>10, RepeatIsSeq
    <3> QED BY <3>2, <3>3, <3>4
  <2>2. Len(vals) = Len(kinds) BY <1>6, <2>1 DEF mn
  <2>3. \A i \in 1 .. Len(kinds) : vals[i][1] = kinds[i] BY <1>7, <2>1, <2>2
  <2> QED BY <1>8, <2>1, <2>2, <2>3, KindsOfAre
<1>12. kinds \o <<"check">> = Append(kinds, "check")
  <2>1. kinds \in Seq(Reads) /\ "check" \in Reads BY <1>11, SeqMonotonic DEF Reads
  <2> QED BY <2>1, AppendIsConcat
<1>13. FedAt(r, <<>>, <<>> \o vals) BY <1>8, <1>11, <1>12, FedRest
<1>14. <<>> \o vals = vals BY <1>8, ConcatEmptySeq
<1>15. r.args = vals BY <1>13, <1>14 DEF FedAt
<1> HIDE DEF r
<1>16. o.valid /\ o.data = Datum(null, Chunks(r.args, m)) BY <1>1, <1>13, FedOutcome
<1>17. o.data = Datum(null, e) BY <1>5, <1>15, <1>16 DEF vals
<1> QED BY <1>8, <1>16, <1>17 DEF o, null

BroadcastTypes == {"RIL_GSM_BroadcastSmsConfigInfo**", "RIL_CDMA_BroadcastSmsConfigInfo**"}

LEMMA BroadcastData ==
  ASSUME NEW type \in BroadcastTypes, NEW d \in Data(type)
  PROVE  \E e \in ArraysOf(Tuples(LayoutOf(type))) :
           /\ d = Datum(FALSE, e) /\ WriteData(type, d) = <<Len(e)>> \o AllWords(e)
<1>1. /\ type \notin {"void", "strings", "ints", "RIL_Dial"} /\ type \in Arrays
      /\ d \in {Datum(FALSE, e) : e \in ElemsOf(type)}
  BY DEF BroadcastTypes, Arrays, Data
<1>2. ElemsOf(type) = ArraysOf(Tuples(LayoutOf(type)))
  <2>1. ElemsOf("RIL_GSM_BroadcastSmsConfigInfo**")
          = ArraysOf(Tuples(LayoutOf("RIL_GSM_BroadcastSmsConfigInfo**")))
    BY DEF ElemsOf, Arrays
  <2>2. ElemsOf("RIL_CDMA_BroadcastSmsConfigInfo**")
          = ArraysOf(Tuples(LayoutOf("RIL_CDMA_BroadcastSmsConfigInfo**")))
    BY DEF ElemsOf, Arrays
  <2> QED BY <2>1, <2>2 DEF BroadcastTypes
<1>3. PICK e \in ArraysOf(Tuples(LayoutOf(type))) : d = Datum(FALSE, e) BY <1>1, <1>2
<1>4. ~d.null /\ d.elems = e BY <1>3 DEF Datum
<1>5. WriteData(type, d) = IF d.null THEN <<-1>> ELSE <<Len(d.elems)>> \o AllWords(d.elems)
  BY <1>1 DEF WriteData
<1> QED BY <1>3, <1>4, <1>5

LEMMA GsmBrSmsCnfDelivered ==
  ASSUME NEW d \in Data("RIL_GSM_BroadcastSmsConfigInfo**")
  PROVE  LET type == "RIL_GSM_BroadcastSmsConfigInfo**"
         IN /\ WriteData(type, d) \in Seq(Int)
            /\ Delivered(type, d, dispatchGsmBrSmsCnf(WriteData(type, d)))
<1> DEFINE type == "RIL_GSM_BroadcastSmsConfigInfo**"
           layout == LayoutOf(type)
           p == WriteData(type, d)
           o == dispatchGsmBrSmsCnf(p)
<1>1. PICK e \in ArraysOf(Tuples(layout)) : d = Datum(FALSE, e) /\ p = <<Len(e)>> \o AllWords(e)
  BY BroadcastData DEF BroadcastTypes
<1>2. layout = <<"int", "int", "int", "int", "int">>
  BY DEF LayoutOf, RIL_GSM_BroadcastSmsConfigInfo
<1>3. layout \in Seq(Kinds) /\ Len(layout) = 5 /\ \A j \in 1 .. 5 : layout[j] = "int"
  <2>1. \A j \in 1 .. 5 : j = 1 \/ j = 2 \/ j = 3 \/ j = 4 \/ j = 5 OBVIOUS
  <2> DEFINE five == <<"int", "int", "int", "int", "int">>
  <2>2. five \in Seq(Kinds) /\ Len(five) = 5 BY DEF Kinds
  <2>3. /\ layout[1] = "int" /\ layout[2] = "int" /\ layout[3] = "int" /\ layout[4] = "int"
        /\ layout[5] = "int"
    BY <1>2
  <2>4. layout = five BY <1>2
  <2> HIDE DEF layout, five
  <2> QED BY <2>1, <2>2, <2>3, <2>4
<1>4. o = Records(p, 5) BY DEF dispatchGsmBrSmsCnf
<1> HIDE DEF layout, p, o
<1>5. 5 \in {3, 5} OBVIOUS
<1>6. p \in Seq(Int) /\ o.valid /\ o.data = Datum(FALSE, e)
  BY <1>1, <1>3, <1>4, <1>5, RecordsDelivered, Zenon
<1>7. Delivered(type, d, o) BY <1>1, <1>6, PlainDelivered DEF PlainTypes
<1> QED BY <1>6, <1>7 DEF o, p

LEMMA CdmaBrSmsCnfDelivered ==
  ASSUME NEW d \in Data("RIL_CDMA_BroadcastSmsConfigInfo**")
  PROVE  LET type == "RIL_CDMA_BroadcastSmsConfigInfo**"
         IN /\ WriteData(type, d) \in Seq(Int)
            /\ Delivered(type, d, dispatchCdmaBrSmsCnf(WriteData(type, d)))
<1> DEFINE type == "RIL_CDMA_BroadcastSmsConfigInfo**"
           layout == LayoutOf(type)
           p == WriteData(type, d)
           o == dispatchCdmaBrSmsCnf(p)
<1>1. PICK e \in ArraysOf(Tuples(layout)) : d = Datum(FALSE, e) /\ p = <<Len(e)>> \o AllWords(e)
  BY BroadcastData DEF BroadcastTypes
<1>2. layout = <<"int", "int", "int">>
  BY DEF LayoutOf, RIL_CDMA_BroadcastSmsConfigInfo
<1>3. layout \in Seq(Kinds) /\ Len(layout) = 3 /\ \A j \in 1 .. 3 : layout[j] = "int"
  <2>1. \A j \in 1 .. 3 : j = 1 \/ j = 2 \/ j = 3 OBVIOUS
  <2> QED BY <1>2, <2>1 DEF Kinds
<1>4. o = Records(p, 3) BY DEF dispatchCdmaBrSmsCnf
<1> HIDE DEF layout, p, o
<1>5. 3 \in {3, 5} OBVIOUS
<1>6. p \in Seq(Int) /\ o.valid /\ o.data = Datum(FALSE, e)
  BY <1>1, <1>3, <1>4, <1>5, RecordsDelivered, Zenon
<1>7. Delivered(type, d, o) BY <1>1, <1>6, PlainDelivered DEF PlainTypes
<1> QED BY <1>6, <1>7 DEF o, p

-----------------------------------------------------------------------------
\* CDMA messages: the arrays that are sent are as long as the count before them.

LEMMA HeadingParts ==
  /\ Heading \in Seq(Sendable) /\ KindsOf(Heading) = RIL_CDMA_SMS_Address
  /\ RIL_CDMA_SMS_Address \in Seq(Kinds)
<1> DEFINE vals == [i \in 1 .. 7 |-> <<RIL_CDMA_SMS_Address[i], 10 + i>>]
<1>1. RIL_CDMA_SMS_Address \in Seq(Kinds) /\ Len(RIL_CDMA_SMS_Address) = 7
  BY DEF RIL_CDMA_SMS_Address, Kinds
<1>2. DOMAIN RIL_CDMA_SMS_Address = 1 .. 7 BY <1>1, LenProperties
<1>3. \A i \in 1 .. 7 : RIL_CDMA_SMS_Address[i] \in Kinds BY <1>1, ElementOfSeq
<1>4. /\ vals = [i \in 1 .. 7 |-> vals[i]]
      /\ \A i \in 1 .. 7 : vals[i] \in Sendable /\ vals[i][1] = RIL_CDMA_SMS_Address[i]
  BY <1>3 DEF Sendable
<1>5. 7 \in Nat OBVIOUS
<1>6. Heading = vals BY <1>2 DEF Heading
<1> HIDE DEF vals
<1>7. vals \in Seq(Sendable) /\ Len(vals) = 7 BY <1>4, <1>5, MadeSeq
<1>8. KindsOf(vals) = RIL_CDMA_SMS_Address BY <1>1, <1>4, <1>7, KindsOfAre
<1> QED BY <1>1, <1>6, <1>7, <1>8

LEMMA BytesParts ==
  ASSUME NEW n \in Nat
  PROVE  /\ Bytes(n) \in Seq(Sendable) /\ KindsOf(Bytes(n)) = Repeat(n, "byte")
         /\ Repeat(n, "byte") \in Seq(Kinds)
<1> DEFINE v == <<"byte", 7>>
           kinds == Repeat(n, "byte")
<1>1. v \in Sendable /\ v[1] = "byte" /\ "byte" \in Kinds BY DEF Sendable, Kinds
<1>2. n \in Int /\ (IF n <= 0 THEN 0 ELSE n) = n OBVIOUS
<1>3. Bytes(n) = Repeat(n, v) BY DEF Bytes
<1> HIDE DEF v
<1>4. /\ Bytes(n) \in Seq(Sendable) /\ Len(Bytes(n)) = n
      /\ \A i \in 1 .. n : Bytes(n)[i] = v
  BY <1>1, <1>2, <1>3, RepeatIsSeq
<1>5. /\ kinds \in Seq(Kinds) /\ Len(kinds) = n
      /\ \A i \in 1 .. n : kinds[i] = "byte"
  BY <1>1, <1>2, RepeatIsSeq
<1> HIDE DEF kinds
<1>6. \A i \in 1 .. Len(kinds) : Bytes(n)[i][1] = kinds[i] BY <1>1, <1>4, <1>5
<1>7. KindsOf(Bytes(n)) = kinds BY <1>4, <1>5, <1>6, KindsOfAre
<1> QED BY <1>4, <1>5, <1>7 DEF kinds

LEMMA OneKind ==
  ASSUME NEW k \in Kinds, NEW x \in Int
  PROVE  /\ <<<<k, x>>>> \in Seq(Sendable) /\ KindsOf(<<<<k, x>>>>) = <<k>> /\ <<k>> \in Seq(Kinds)
<1> DEFINE v == <<k, x>>
           one == <<v>>
           kinds == <<k>>
<1>1. v \in Sendable /\ v[1] = k BY DEF Sendable
<1> HIDE DEF v
<1>2. one \in Seq(Sendable) /\ Len(one) = 1 /\ one[1] = v BY <1>1
<1>3. kinds \in Seq(Kinds) /\ Len(kinds) = 1 /\ kinds[1] = k OBVIOUS
<1>4. \A i \in 1 .. 1 : i = 1 OBVIOUS
<1> HIDE DEF one, kinds
<1>5. \A i \in 1 .. Len(kinds) : one[i][1] = kinds[i] BY <1>1, <1>2, <1>3, <1>4
<1>6. KindsOf(one) = kinds BY <1>2, <1>3, <1>5, KindsOfAre
<1> QED BY <1>2, <1>3, <1>6 DEF one, kinds, v

\* The next values of a block that holds more than those.
LEMMA FedBoth ==
  ASSUME NEW r, NEW args, NEW x \in Seq(Sendable), NEW y \in Seq(Sendable), NEW t \in Seq(Int),
         FedAt(r, Words(x \o y) \o t, args)
  PROVE  FedAt(r, Words(x) \o (Words(y) \o t), args) /\ Words(y) \o t \in Seq(Int)
<1> DEFINE wx == Words(x)
           wy == Words(y)
<1>1. Words(x \o y) = wx \o wy /\ wx \in Seq(Int) /\ wy \in Seq(Int) BY WordsConcat, WordsIsSeq
<1> HIDE DEF wx, wy
<1>2. FedAt(r, (wx \o wy) \o t, args) BY <1>1
<1>3. FedAt(r, wx \o (wy \o t), args) /\ wy \o t \in Seq(Int) BY <1>1, <1>2, FedSplit
<1> QED BY <1>3 DEF wx, wy

LEMMA FedCounted ==
  ASSUME NEW k \in {"int", "byte"}, NEW max \in Nat, NEW n \in 0 .. max, NEW t \in Seq(Int), NEW r,
         NEW args, FedAt(r, Words(<<<<k, n>>>>) \o (Words(Bytes(n)) \o t), args)
  PROVE  FedAt(Counted(r, k, max), t, (args \o <<<<k, n>>>>) \o Bytes(n))
<1> DEFINE v == <<k, n>>
           one == <<v>>
           c == Step(r, k)
           w == Words(Bytes(n)) \o t
<1>1. n \in Nat /\ n \in Int /\ k \in Kinds /\ Smaller(n, max) = n BY DEF Kinds, Smaller
<1>2. one \in Seq(Sendable) /\ KindsOf(one) = <<k>> /\ <<k>> \in Seq(Kinds) BY <1>1, OneKind
<1>3. /\ Bytes(n) \in Seq(Sendable) /\ KindsOf(Bytes(n)) = Repeat(n, "byte")
      /\ Repeat(n, "byte") \in Seq(Kinds)
  BY <1>1, BytesParts
<1>4. w \in Seq(Int)
  <2>1. Words(Bytes(n)) \in Seq(Int) BY <1>3, WordsIsSeq
  <2> QED BY <2>1, ConcatProperties
<1>5. v \in Sendable /\ v[2] = n BY <1>1 DEF Sendable
<1>6. args \in Seq(Values) BY ReaderParts DEF FedAt
<1>7. args \o one = Append(args, v)
  <2>1. v \in Values BY <1>5, SendableValues
  <2> HIDE DEF v
  <2> QED BY <1>6, <2>1, AppendIsConcat
<1>8. FedAt(r, Words(one) \o w, args) OBVIOUS
<1> HIDE DEF w, one, v
<1>9. FedAt(c, w, args \o one)
  <2>1. FedAt(Run(r, <<k>>), w, args \o one) BY <1>2, <1>4, <1>8, FedMore
  <2> QED BY <2>1, RunOne
<1> HIDE DEF c
<1>10. Last(c) = n
  <2>1. FedAt(c, w, Append(args, v)) BY <1>7, <1>9
  <2>2. v \in Values BY <1>5, SendableValues
  <2> QED BY <1>5, <1>6, <2>1, <2>2, FedDrop
<1>11. Counted(r, k, max) = Run(c, Repeat(n, "byte")) BY <1>1, <1>10 DEF Counted, c
<1>12. FedAt(c, Words(Bytes(n)) \o t, args \o one) BY <1>9 DEF w
<1>13. FedAt(Run(c, Repeat(n, "byte")), t, (args \o one) \o Bytes(n)) BY <1>3, <1>12, FedMore
<1> QED BY <1>11, <1>13 DEF one, v

LEMMA CdmaSmsDelivered ==
  ASSUME NEW d \in Data("RIL_CDMA_SMS_Message")
  PROVE  /\ WriteData("RIL_CDMA_SMS_Message", d) \in Seq(Int)
         /\ Delivered("RIL_CDMA_SMS_Message", d,
                      dispatchCdmaSms(WriteData("RIL_CDMA_SMS_Message", d)))
<1> DEFINE p == WriteData("RIL_CDMA_SMS_Message", d)
           r0 == Run(Start(p), RIL_CDMA_SMS_Address)
           ra == Counted(r0, "byte", AddressMax)
           rs == Run(ra, RIL_CDMA_SMS_Subaddress)
           rb == Counted(rs, "byte", SubaddressMax)
           rc == Counted(rb, "int", BearerMax)
           r == Step(rc, "check")
           o == dispatchCdmaSms(p)
           null == FALSE
<1>1. o = Outcome(r, null, <<r.args>>, 0) BY DEF dispatchCdmaSms
<1>2. PICK m \in MessagesSent : d = Datum(null, <<m>>)
  <2>1. d \in {Datum(null, e) : e \in ElemsOf("RIL_CDMA_SMS_Message")} BY DEF Data
  <2>2. ElemsOf("RIL_CDMA_SMS_Message") = OneOf(MessagesSent) BY DEF ElemsOf, Arrays
  <2> HIDE DEF null
  <2> QED BY <2>1, <2>2 DEF OneOf
<1>3. PICK a \in 0 .. AddressMax, b \in 0 .. SubaddressMax, c \in 0 .. BearerMax :
        m = Message(a, a, b, b, c, c)
  BY DEF MessagesSent
<1> HIDE DEF null, o
<1>4. p = Words(m)
  <2>1. d.elems = <<m>> BY <1>2, DatumExcept
  <2>2. p = Words(d.elems[1]) BY DEF WriteData, Arrays
  <2> QED BY <2>1, <2>2
<1> HIDE DEF p
<1> DEFINE av == <<<<"byte", a>>>>
           bv == <<<<"byte", b>>>>
           cv == <<<<"int", c>>>>
           sv == <<<<"int", 1>>, <<"byte", 2>>>>
           ab == Bytes(a)
           bb == Bytes(b)
           cb == Bytes(c)
           m1 == Heading \o av
           m2 == m1 \o ab
           m3 == (m2 \o sv) \o bv
           m4 == m3 \o bb
           m5 == m4 \o cv
           t1 == Words(cb) \o <<>>
           t2 == Words(cv) \o t1
           t3 == Words(bb) \o t2
           t4 == Words(bv) \o t3
           t5 == Words(sv) \o t4
           t6 == Words(ab) \o t5
           t7 == Words(av) \o t6
<1>5. /\ a \in Nat /\ b \in Nat /\ c \in Nat /\ AddressMax \in Nat /\ SubaddressMax \in Nat
      /\ BearerMax \in Nat
  BY SizesAssumption
<1>6. /\ av \in Seq(Sendable) /\ bv \in Seq(Sendable) /\ cv \in Seq(Sendable)
      /\ ab \in Seq(Sendable) /\ bb \in Seq(Sendable) /\ cb \in Seq(Sendable)
      /\ Heading \in Seq(Sendable)
  <2>1. "byte" \in Kinds /\ "int" \in Kinds /\ a \in Int /\ b \in Int /\ c \in Int
    BY <1>5 DEF Kinds
  <2> QED BY <1>5, <2>1, OneKind, BytesParts, HeadingParts
<1>7. /\ sv \in Seq(Sendable) /\ KindsOf(sv) = RIL_CDMA_SMS_Subaddress
      /\ RIL_CDMA_SMS_Subaddress \in Seq(Kinds)
  <2> DEFINE kinds == <<"int", "byte">>
  <2>1. sv \in Seq(Sendable) /\ Len(sv) = 2 /\ sv[1][1] = "int" /\ sv[2][1] = "byte"
    BY DEF Sendable, Kinds
  <2>2. kinds \in Seq(Kinds) /\ Len(kinds) = 2 /\ kinds[1] = "int" /\ kinds[2] = "byte"
    BY DEF Kinds
  <2>3. \A i \in 1 .. 2 : i = 1 \/ i = 2 OBVIOUS
  <2>4. RIL_CDMA_SMS_Subaddress = kinds BY DEF RIL_CDMA_SMS_Subaddress
  <2> HIDE DEF sv, kinds
  <2>5. \A i \in 1 .. Len(kinds) : sv[i][1] = kinds[i] BY <2>1, <2>2, <2>3
  <2>6. KindsOf(sv) = kinds BY <2>1, <2>2, <2>5, KindsOfAre
  <2> QED BY <2>1, <2>2, <2>4, <2>6
<1>8. m = m5 \o cb BY <1>3 DEF Message
<1> HIDE DEF av, bv, cv, sv, ab, bb, cb
<1>9. /\ m1 \in Seq(Sendable) /\ m2 \in Seq(Sendable) /\ m2 \o sv \in Seq(Sendable)
      /\ m3 \in Seq(Sendable) /\ m4 \in Seq(Sendable) /\ m5 \in Seq(Sendable)
      /\ m \in Seq(Sendable)
  <2>1. m1 \in Seq(Sendable) /\ m2 \in Seq(Sendable) BY <1>6, ConcatProperties
  <2> HIDE DEF m2
  <2>2. m2 \o sv \in Seq(Sendable) /\ m3 \in Seq(Sendable) BY <1>6, <1>7, <2>1, ConcatProperties
  <2> HIDE DEF m3
  <2>3. m4 \in Seq(Sendable) /\ m5 \in Seq(Sendable) BY <1>6, <2>2, ConcatProperties
  <2> HIDE DEF m5
  <2> QED BY <1>6, <1>8, <2>1, <2>2, <2>3, ConcatProperties
<1>10. p \in Seq(Int) BY <1>4, <1>9, WordsIsSeq
<1>11. FedAt(Start(p), Words(m) \o <<>>, <<>>)
  <2>1. Words(m) \o <<>> = p BY <1>4, <1>10, ConcatEmptySeq
  <2> QED BY <1>10, <2>1, StartFed
<1> DEFINE q == Start(p)
           none == <<>>
<1>12. none \in Seq(Int) OBVIOUS
<1> HIDE DEF none, q
<1>13. FedAt(q, Words(m5 \o cb) \o none, none) BY <1>8, <1>11 DEF q, none
<1> HIDE DEF m5
<1>14. FedAt(q, Words(m5) \o t1, none) /\ t1 \in Seq(Int)
  BY <1>6, <1>9, <1>12, <1>13, FedBoth DEF none
<1> HIDE DEF t1, m4
<1>15. FedAt(q, Words(m4) \o t2, none) /\ t2 \in Seq(Int)
  BY <1>6, <1>9, <1>14, FedBoth DEF m5
<1> HIDE DEF t2, m3
<1>16. FedAt(q, Words(m3) \o t3, none) /\ t3 \in Seq(Int)
  BY <1>6, <1>9, <1>15, FedBoth DEF m4
<1> HIDE DEF t3, m2
<1>17. FedAt(q, Words(m2 \o sv) \o t4, none) /\ t4 \in Seq(Int)
  BY <1>6, <1>9, <1>16, FedBoth DEF m3
<1> HIDE DEF t4
<1>18. FedAt(q, Words(m2) \o t5, none) /\ t5 \in Seq(Int)
  BY <1>7, <1>9, <1>17, FedBoth
<1> HIDE DEF t5, m1
<1>19. FedAt(q, Words(m1) \o t6, none) /\ t6 \in Seq(Int)
  BY <1>6, <1>9, <1>18, FedBoth DEF m2
<1> HIDE DEF t6
<1>20. FedAt(q, Words(Heading) \o t7, none) /\ t7 \in Seq(Int)
  BY <1>6, <1>9, <1>19, FedBoth DEF m1
<1>21. FedAt(r0, t7, Heading)
  <2> HIDE DEF t7
  <2>1. FedAt(r0, t7, none \o Heading) BY <1>20, HeadingParts, FedMore DEF q
  <2>2. none \o Heading = Heading BY HeadingParts, ConcatEmptySeq DEF none
  <2> HIDE DEF r0
  <2> QED BY <2>1, <2>2
<1> HIDE DEF r0
<1>22. FedAt(ra, t5, m2)
  <2>1. FedAt(r0, Words(<<<<"byte", a>>>>) \o (Words(Bytes(a)) \o t5), Heading)
    BY <1>21 DEF t6, av, ab
  <2>2. FedAt(ra, t5, (Heading \o <<<<"byte", a>>>>) \o Bytes(a)) BY <1>5, <1>18, <2>1, FedCounted
  <2> HIDE DEF ra
  <2> QED BY <2>2 DEF m2, m1, av, ab
<1> HIDE DEF ra
<1>23. FedAt(rs, t4, m2 \o sv)
  <2>1. FedAt(ra, Words(sv) \o t4, m2) BY <1>22 DEF t5
  <2> QED BY <1>7, <1>17, <2>1, FedMore
<1> HIDE DEF rs
<1>24. FedAt(rb, t2, m4)
  <2>1. FedAt(rs, Words(<<<<"byte", b>>>>) \o (Words(Bytes(b)) \o t2), m2 \o sv)
    BY <1>23 DEF t4, t3, bv, bb
  <2>2. FedAt(rb, t2, ((m2 \o sv) \o <<<<"byte", b>>>>) \o Bytes(b))
    BY <1>5, <1>15, <2>1, FedCounted
  <2> HIDE DEF rb
  <2> QED BY <2>2 DEF m4, m3, bv, bb
<1> HIDE DEF rb
<1>25. FedAt(rc, none, m)
  <2>1. FedAt(rb, Words(<<<<"int", c>>>>) \o (Words(Bytes(c)) \o none), m4)
    BY <1>24 DEF t2, t1, cv, cb, none
  <2>2. FedAt(rc, none, (m4 \o <<<<"int", c>>>>) \o Bytes(c))
    BY <1>5, <1>12, <2>1, FedCounted
  <2> HIDE DEF rc
  <2> QED BY <1>8, <2>2 DEF m5, cv, cb
<1> HIDE DEF rc
<1>26. FedAt(r, none, m) BY <1>25, FedChecked
<1>27. r.args = m BY <1>26 DEF FedAt
<1> HIDE DEF r
<1>28. o.valid /\ o.data = d BY <1>1, <1>2, <1>26, <1>27, FedOutcome
<1>29. Delivered("RIL_CDMA_SMS_Message", d, o) BY <1>28, PlainDelivered DEF PlainTypes
<1> QED BY <1>10, <1>29 DEF o, p

\* The values n of a block are those of x and then m, and k are their kinds.
Grown(x, m, n, k) ==
  /\ m \in Seq(Sendable) /\ n \in Seq(Sendable) /\ k \in Seq(Kinds)
  /\ x \o m = n /\ KindsOf(n) = k

LEMMA KindsOfBoth ==
  ASSUME NEW a \in Seq(Sendable), NEW b \in Seq(Sendable)
  PROVE  KindsOf(a \o b) = KindsOf(a) \o KindsOf(b)
<1> DEFINE m == Len(a)
           n == Len(b)
           c == a \o b
           ka == KindsOf(a)
           kb == KindsOf(b)
           kinds == ka \o kb
<1>1. /\ m \in Nat /\ n \in Nat /\ c \in Seq(Sendable) /\ Len(c) = m + n
      /\ \A i \in 1 .. m + n : c[i] = IF i <= m THEN a[i] ELSE b[i - m]
  BY LenProperties, ConcatProperties
<1>2. /\ ka \in Seq(Kinds) /\ Len(ka) = m /\ \A i \in 1 .. m : ka[i] = a[i][1]
      /\ kb \in Seq(Kinds) /\ Len(kb) = n /\ \A i \in 1 .. n : kb[i] = b[i][1]
  BY KindsOfParts
<1> HIDE DEF c, ka, kb, m, n
<1>3. /\ kinds \in Seq(Kinds) /\ Len(kinds) = m + n
      /\ \A i \in 1 .. m + n : kinds[i] = IF i <= m THEN ka[i] ELSE kb[i - m]
  BY <1>2, ConcatProperties
<1> HIDE DEF kinds
<1>4. \A i \in 1 .. m + n : i <= m => i \in 1 .. m BY <1>1
<1>5. \A i \in 1 .. m + n : ~(i <= m) => i - m \in 1 .. n BY <1>1
<1>6. \A i \in 1 .. m + n : c[i][1] = kinds[i]
  <2>1. SUFFICES ASSUME NEW i \in 1 .. m + n PROVE c[i][1] = kinds[i] OBVIOUS
  <2>2. CASE i <= m
    <3>1. c[i] = a[i] /\ kinds[i] = ka[i] /\ i \in 1 .. m BY <1>1, <1>3, <1>4, <2>2
    <3> QED BY <1>2, <3>1
  <2>3. CASE ~(i <= m)
    <3>1. c[i] = b[i - m] /\ kinds[i] = kb[i - m] /\ i - m \in 1 .. n
      BY <1>1, <1>3, <1>5, <2>3
    <3> QED BY <1>2, <3>1
  <2> QED BY <2>2, <2>3
<1>7. KindsOf(c) = kinds BY <1>1, <1>3, <1>6, KindsOfAre
<1> QED BY <1>7 DEF c, kinds, ka, kb

LEMMA SendableThree ==
  ASSUME NEW a \in Seq(Sendable), NEW b \in Seq(Sendable), NEW c \in Seq(Sendable)
  PROVE  (a \o b) \o c = a \o (b \o c)
BY ConcatThree

LEMMA GrowMore ==
  ASSUME NEW x \in Seq(Sendable), NEW m, NEW n, NEW k, Grown(x, m, n, k),
         NEW v \in Seq(Sendable), NEW l \in Seq(Kinds), KindsOf(v) = l
  PROVE  Grown(x, m \o v, n \o v, k \o l)
<1>1. /\ m \in Seq(Sendable) /\ n \in Seq(Sendable) /\ k \in Seq(Kinds)
      /\ x \o m = n /\ KindsOf(n) = k
  BY DEF Grown
<1>2. (x \o m) \o v = x \o (m \o v) BY ZenonT(30), <1>1, SendableThree
<1>3. KindsOf(n \o v) = k \o l BY <1>1, KindsOfBoth
<1>4. m \o v \in Seq(Sendable) /\ n \o v \in Seq(Sendable) /\ k \o l \in Seq(Kinds)
  BY <1>1, ConcatProperties
<1> QED BY <1>1, <1>2, <1>3, <1>4 DEF Grown

LEMMA RilCdmaSmsWriteArgsDelivered ==
  ASSUME NEW d \in Data("RIL_CDMA_SMS_WriteArgs")
  PROVE  /\ WriteData("RIL_CDMA_SMS_WriteArgs", d) \in Seq(Int)
         /\ Delivered("RIL_CDMA_SMS_WriteArgs", d,
                      dispatchRilCdmaSmsWriteArgs(WriteData("RIL_CDMA_SMS_WriteArgs", d)))
<1> DEFINE p == WriteData("RIL_CDMA_SMS_WriteArgs", d)
           ka == Repeat(AddressMax, "byte")
           kb == Repeat(SubaddressMax, "byte")
           kc == Repeat(BearerMax, "byte")
           k == <<"int">> \o RIL_CDMA_SMS_Address \o <<"byte">> \o ka \o RIL_CDMA_SMS_Subaddress
                  \o <<"byte">> \o kb \o <<"int">> \o kc
           r == Run(Start(p), k \o <<"check">>)
           o == dispatchRilCdmaSmsWriteArgs(p)
           null == FALSE
           x == <<<<"int", 9>>>>
<1>1. o = Outcome(r, null, <<r.args>>, 0) BY DEF dispatchRilCdmaSmsWriteArgs
<1>2. PICK w \in MessagesWritten : d = Datum(null, <<w>>)
  <2>1. d \in {Datum(null, e) : e \in ElemsOf("RIL_CDMA_SMS_WriteArgs")} BY DEF Data
  <2>2. ElemsOf("RIL_CDMA_SMS_WriteArgs") = OneOf(MessagesWritten) BY DEF ElemsOf, Arrays
  <2> HIDE DEF null
  <2> QED BY <2>1, <2>2 DEF OneOf
<1>3. PICK a \in 0 .. AddressMax, b \in 0 .. SubaddressMax, c \in 0 .. BearerMax :
        w = x \o Message(a, AddressMax, b, SubaddressMax, c, BearerMax)
  BY DEF MessagesWritten
<1> HIDE DEF null, o
<1>4. p = Words(w)
  <2>1. d.elems = <<w>> BY <1>2, DatumExcept
  <2>2. p = Words(d.elems[1]) BY DEF WriteData, Arrays
  <2> QED BY <2>1, <2>2
<1> HIDE DEF p
<1> DEFINE av == <<<<"byte", a>>>>
           bv == <<<<"byte", b>>>>
           cv == <<<<"int", c>>>>
           sv == <<<<"int", 1>>, <<"byte", 2>>>>
           ab == Bytes(AddressMax)
           bb == Bytes(SubaddressMax)
           cb == Bytes(BearerMax)
           m == Heading \o av \o ab \o sv \o bv \o bb \o cv \o cb
           n == x \o Heading \o av \o ab \o sv \o bv \o bb \o cv \o cb
<1>5. w = x \o m BY <1>3 DEF Message
<1>6. /\ a \in Int /\ b \in Int /\ c \in Int /\ AddressMax \in Nat /\ SubaddressMax \in Nat
      /\ BearerMax \in Nat /\ "byte" \in Kinds /\ "int" \in Kinds /\ 9 \in Int
  BY SizesAssumption DEF Kinds
<1>7. /\ x \in Seq(Sendable) /\ KindsOf(x) = <<"int">> /\ <<"int">> \in Seq(Kinds)
      /\ <<"byte">> \in Seq(Kinds)
      /\ av \in Seq(Sendable) /\ KindsOf(av) = <<"byte">>
      /\ bv \in Seq(Sendable) /\ KindsOf(bv) = <<"byte">>
      /\ cv \in Seq(Sendable) /\ KindsOf(cv) = <<"int">>
  BY <1>6, OneKind
<1>8. /\ ab \in Seq(Sendable) /\ KindsOf(ab) = ka /\ ka \in Seq(Kinds)
      /\ bb \in Seq(Sendable) /\ KindsOf(bb) = kb /\ kb \in Seq(Kinds)
      /\ cb \in Seq(Sendable) /\ KindsOf(cb) = kc /\ kc \in Seq(Kinds)
  BY <1>6, BytesParts
<1>9. /\ sv \in Seq(Sendable) /\ KindsOf(sv) = RIL_CDMA_SMS_Subaddress
      /\ RIL_CDMA_SMS_Subaddress \in Seq(Kinds)
  <2> DEFINE kinds == <<"int", "byte">>
  <2>1. sv \in Seq(Sendable) /\ Len(sv) = 2 /\ sv[1][1] = "int" /\ sv[2][1] = "byte"
    BY DEF Sendable, Kinds
  <2>2. kinds \in Seq(Kinds) /\ Len(kinds) = 2 /\ kinds[1] = "int" /\ kinds[2] = "byte"
    BY DEF Kinds
  <2>3. \A i \in 1 .. 2 : i = 1 \/ i = 2 OBVIOUS
  <2>4. RIL_CDMA_SMS_Subaddress = kinds BY DEF RIL_CDMA_SMS_Subaddress
  <2> HIDE DEF sv, kinds
  <2>5. \A i \in 1 .. Len(kinds) : sv[i][1] = kinds[i] BY <2>1, <2>2, <2>3
  <2>6. KindsOf(sv) = kinds BY <2>1, <2>2, <2>5, KindsOfAre
  <2> QED BY <2>1, <2>2, <2>4, <2>6
<1> DEFINE none == <<>>
<1> HIDE DEF x, av, bv, cv, sv, ab, bb, cb, ka, kb, kc, none
<1>10. Grown(x, Heading, x \o Heading, <<"int">> \o RIL_CDMA_SMS_Address)
  <2>1. Grown(x, none, x, <<"int">>)
    <3>1. x \o none = x /\ none \in Seq(Sendable) BY <1>7, ConcatEmptySeq DEF none
    <3> QED BY <1>7, <3>1 DEF Grown
  <2>2. Grown(x, none \o Heading, x \o Heading, <<"int">> \o RIL_CDMA_SMS_Address)
    BY <1>7, <2>1, HeadingParts, GrowMore
  <2>3. none \o Heading = Heading BY HeadingParts, ConcatEmptySeq DEF none
  <2> QED BY <2>2, <2>3
<1>11. Grown(x, Heading \o av \o ab, x \o Heading \o av \o ab,
             <<"int">> \o RIL_CDMA_SMS_Address \o <<"byte">> \o ka)
  BY <1>7, <1>8, <1>10, GrowMore
<1>12. Grown(x, Heading \o av \o ab \o sv \o bv, x \o Heading \o av \o ab \o sv \o bv,
             <<"int">> \o RIL_CDMA_SMS_Address \o <<"byte">> \o ka \o RIL_CDMA_SMS_Subaddress
               \o <<"byte">>)
  BY <1>7, <1>9, <1>11, GrowMore
<1>13. Grown(x, Heading \o av \o ab \o sv \o bv \o bb \o cv,
             x \o Heading \o av \o ab \o sv \o bv \o bb \o cv,
             <<"int">> \o RIL_CDMA_SMS_Address \o <<"byte">> \o ka \o RIL_CDMA_SMS_Subaddress
               \o <<"byte">> \o kb \o <<"int">>)
  BY <1>7, <1>8, <1>12, GrowMore
<1>14. Grown(x, m, n, k) BY <1>7, <1>8, <1>13, GrowMore
<1> HIDE DEF m, n, k
<1>15. w \in Seq(Sendable) /\ KindsOf(w) = k /\ k \in Seq(Kinds) BY <1>5, <1>14 DEF Grown
<1>16. k \o <<"check">> = Append(k, "check")
  <2>1. k \in Seq(Reads) /\ "check" \in Reads BY <1>15, SeqMonotonic DEF Reads
  <2> QED BY <2>1, AppendIsConcat
<1>17. p \in Seq(Int) /\ FedAt(r, <<>>, w) BY <1>4, <1>15, <1>16, FedStructure
<1>18. r.args = w BY <1>17 DEF FedAt
<1> HIDE DEF r
<1>19. o.valid /\ o.data = d BY <1>1, <1>2, <1>17, <1>18, FedOutcome
<1>20. Delivered("RIL_CDMA_SMS_WriteArgs", d, o) BY <1>19, PlainDelivered DEF PlainTypes
<1> QED BY <1>17, <1>20 DEF o, p

\* The table of ril.cpp against ril.h.
Rows ==
  {<<"void", "Void">>, <<"string", "String">>, <<"strings", "Strings">>, <<"ints", "Ints">>,
   <<"RIL_SMS_WriteArgs", "SmsWrite">>, <<"RIL_Dial", "Dial">>, <<"RIL_SIM_IO", "SIM_IO">>,
   <<"RIL_CallForwardInfo", "CallForward">>, <<"raw", "Raw">>,
   <<"RIL_CDMA_SMS_Message", "CdmaSms">>, <<"RIL_CDMA_SMS_Ack", "CdmaSmsAck">>,
   <<"RIL_GSM_BroadcastSmsConfigInfo**", "GsmBrSmsCnf">>,
   <<"RIL_CDMA_BroadcastSmsConfigInfo**", "CdmaBrSmsCnf">>,
   <<"RIL_CDMA_SMS_WriteArgs", "RilCdmaSmsWriteArgs">>}

LEMMA TablesAgree ==
  /\ DOMAIN RIL_REQUEST = 1 .. 108
  /\ \A q \in 1 .. 108 : <<RIL_REQUEST[q][1], s_commands[q][1]>> \in Rows
<1>1. DOMAIN RIL_REQUEST = 1 .. 108
  BY DEF RIL_REQUEST, SimPinRequests, CallListRequests,
         SupplementaryCallRequests, RegistrationRequests, OperatorAndSmsRequests,
         DataCallAndUssdRequests, ForwardingRequests, FacilityRequests,
         NetworkSelectionRequests, ConnectionRequests, OemAndScreenRequests,
         StkProfileRequests, StkAndNetworkTypeRequests, CdmaPreferenceRequests,
         CdmaSmsRequests, BroadcastSmsRequests, IdentityAndVendorRequests
<1>2. \A q \in 1 .. 108 : <<RIL_REQUEST[q][1], s_commands[q][1]>> \in Rows
  BY SMTT(120) DEF s_commands, Rows, V, I, S, SS, RIL_REQUEST, SimPinRequests, CallListRequests,
         SupplementaryCallRequests, RegistrationRequests, OperatorAndSmsRequests,
         DataCallAndUssdRequests, ForwardingRequests, FacilityRequests,
         NetworkSelectionRequests, ConnectionRequests, OemAndScreenRequests,
         StkProfileRequests, StkAndNetworkTypeRequests, CdmaPreferenceRequests,
         CdmaSmsRequests, BroadcastSmsRequests, IdentityAndVendorRequests
<1> QED BY <1>1, <1>2

\* Every dispatch function on the block of the type its request has.
LEMMA DispatchDelivered ==
  ASSUME NEW type, NEW name, <<type, name>> \in Rows, NEW d \in Data(type)
  PROVE  /\ WriteData(type, d) \in Seq(Int)
         /\ Delivered(type, d, dispatchFunction(name, WriteData(type, d)))
<1> DEFINE p == WriteData(type, d)
<1>1. CASE type = "void" /\ name = "Void"
  <2>1. dispatchFunction(name, p) = dispatchVoid(p) BY <1>1 DEF dispatchFunction
  <2> QED BY <1>1, <2>1, VoidDelivered
<1>2. CASE type = "string" /\ name = "String"
  <2>1. dispatchFunction(name, p) = dispatchString(p) BY <1>2 DEF dispatchFunction
  <2> QED BY <1>2, <2>1, StringDelivered
<1>3. CASE type = "strings" /\ name = "Strings"
  <2>1. dispatchFunction(name, p) = dispatchStrings(p) BY <1>3 DEF dispatchFunction
  <2> QED BY <1>3, <2>1, StringsDelivered
<1>4. CASE type = "ints" /\ name = "Ints"
  <2>1. dispatchFunction(name, p) = dispatchInts(p) BY <1>4 DEF dispatchFunction
  <2> QED BY <1>4, <2>1, IntsDelivered
<1>5. CASE type = "RIL_SMS_WriteArgs" /\ name = "SmsWrite"
  <2>1. dispatchFunction(name, p) = dispatchSmsWrite(p) BY <1>5 DEF dispatchFunction
  <2> QED BY <1>5, <2>1, SmsWriteDelivered
<1>6. CASE type = "RIL_Dial" /\ name = "Dial"
  <2>1. dispatchFunction(name, p) = dispatchDial(p) BY <1>6 DEF dispatchFunction
  <2> QED BY <1>6, <2>1, DialDelivered
<1>7. CASE type = "RIL_SIM_IO" /\ name = "SIM_IO"
  <2>1. dispatchFunction(name, p) = dispatchSIM_IO(p) BY <1>7 DEF dispatchFunction
  <2> QED BY <1>7, <2>1, SIM_IODelivered
<1>8. CASE type = "RIL_CallForwardInfo" /\ name = "CallForward"
  <2>1. dispatchFunction(name, p) = dispatchCallForward(p) BY <1>8 DEF dispatchFunction
  <2> QED BY <1>8, <2>1, CallForwardDelivered
<1>9. CASE type = "raw" /\ name = "Raw"
  <2>1. dispatchFunction(name, p) = dispatchRaw(p) BY <1>9 DEF dispatchFunction
  <2> QED BY <1>9, <2>1, RawDelivered
<1>10. CASE type = "RIL_CDMA_SMS_Message" /\ name = "CdmaSms"
  <2>1. dispatchFunction(name, p) = dispatchCdmaSms(p) BY <1>10 DEF dispatchFunction
  <2> QED BY <1>10, <2>1, CdmaSmsDelivered
<1>11. CASE type = "RIL_CDMA_SMS_Ack" /\ name = "CdmaSmsAck"
  <2>1. dispatchFunction(name, p) = dispatchCdmaSmsAck(p) BY <1>11 DEF dispatchFunction
  <2> QED BY <1>11, <2>1, CdmaSmsAckDelivered
<1>12. CASE type = "RIL_GSM_BroadcastSmsConfigInfo**" /\ name = "GsmBrSmsCnf"
  <2>1. dispatchFunction(name, p) = dispatchGsmBrSmsCnf(p) BY <1>12 DEF dispatchFunction
  <2> QED BY <1>12, <2>1, GsmBrSmsCnfDelivered
<1>13. CASE type = "RIL_CDMA_BroadcastSmsConfigInfo**" /\ name = "CdmaBrSmsCnf"
  <2>1. dispatchFunction(name, p) = dispatchCdmaBrSmsCnf(p) BY <1>13 DEF dispatchFunction
  <2> QED BY <1>13, <2>1, CdmaBrSmsCnfDelivered
<1>14. CASE type = "RIL_CDMA_SMS_WriteArgs" /\ name = "RilCdmaSmsWriteArgs"
  <2>1. dispatchFunction(name, p) = dispatchRilCdmaSmsWriteArgs(p) BY <1>14 DEF dispatchFunction
  <2> QED BY <1>14, <2>1, RilCdmaSmsWriteArgsDelivered
<1> QED BY <1>1, <1>2, <1>3, <1>4, <1>5, <1>6, <1>7, <1>8, <1>9, <1>10,
          <1>11, <1>12, <1>13, <1>14
       DEF Rows

-----------------------------------------------------------------------------
(* The invariant: until a block has been dealt with, sent says what the       *)
(* client wrote for which request, and the block waiting is a part of that.   *)
PartOf(words, n, whole) ==
  /\ n \in 0 .. Len(words)
  /\ block = SubSeq(words, 1, n)
  /\ whole = (n = Len(words))

Sending ==
  /\ phase \in {"sent", "pending", "rejected", "ignored"} =>
       /\ req \in 0 .. 109
       /\ sent.type = DataType(req)
       /\ sent.datum \in Data(DataType(req))
  /\ phase = "sent" =>
       \E n \in 0 .. Len(BlockOf(req, sent.datum)) :
         PartOf(BlockOf(req, sent.datum), n, sent.whole)

MarshalInv == /\ Sending
              /\ DeliveredAsSent
              /\ NothingUnset
              /\ OnlyBrokenBlocksRejected
              /\ OnlyKnownLeaks

LEMMA RowOf ==
  ASSUME NEW q \in 1 .. 108
  PROVE  <<DataType(q), s_commands[q][1]>> \in Rows
BY TablesAgree DEF DataType

\* What a client writes, for a request or for an unknown number.
LEMMA BlockParts ==
  ASSUME NEW q \in 0 .. 109, NEW d \in Data(DataType(q))
  PROVE  /\ WriteData(DataType(q), d) \in Seq(Int)
         /\ BlockOf(q, d) \in Seq(Int) /\ Len(BlockOf(q, d)) >= 2
         /\ BlockOf(q, d)[1] = q
         /\ SubSeq(BlockOf(q, d), 3, Len(BlockOf(q, d))) = WriteData(DataType(q), d)
<1> DEFINE head == <<q, Token>>
           p == WriteData(DataType(q), d)
<1>1. p \in Seq(Int)
  <2>1. CASE q \in 1 .. 108 BY <2>1, RowOf, DispatchDelivered
  <2>2. CASE ~(q \in 1 .. 108)
    <3>1. DataType(q) = "void" BY <2>2, TablesAgree DEF DataType, V
    <3> QED BY <3>1, VoidDelivered
  <2> QED BY <2>1, <2>2
<1>2. head \in Seq(Int) /\ Len(head) = 2 /\ head[1] = q BY DEF Token
<1> HIDE DEF head, p
<1>3. Len(p) \in Nat /\ Len(head \o p) = 2 + Len(p) /\ head \o p \in Seq(Int)
      /\ (head \o p)[1] = q
  <2>1. Len(p) \in Nat BY <1>1, LenProperties
  <2>2. head \o p \in Seq(Int) /\ Len(head \o p) = Len(head) + Len(p)
    BY <1>1, <1>2, ConcatProperties
  <2>3. (head \o p)[1] = head[1] BY <1>1, <1>2, <2>1, ConcatProperties
  <2> QED BY <1>2, <2>1, <2>2, <2>3
<1>4. SubSeq(head \o p, 3, Len(head \o p)) = p
  <2>1. SubSeq(head \o p, Len(head) + 1, Len(head) + Len(p)) = p BY <1>1, <1>2, ConcatSplit
  <2> QED BY <1>2, <1>3, <2>1
<1>5. BlockOf(q, d) = head \o p BY DEF BlockOf, head, p
<1> QED BY <1>1, <1>3, <1>4, <1>5 DEF p

\* A part of a sequence, and its own part.
LEMMA PartParts ==
  ASSUME NEW words \in Seq(Int), NEW n \in 0 .. Len(words)
  PROVE  LET b == SubSeq(words, 1, n)
         IN /\ b \in Seq(Int) /\ Len(b) = n
            /\ n >= 1 => b[1] = words[1]
            /\ n >= 2 => SubSeq(b, 3, n) \in Seq(Int)
            /\ n = Len(words) => b = words
<1> DEFINE b == SubSeq(words, 1, n)
<1>1. Len(words) \in Nat /\ n \in Nat BY LenProperties
<1>2. b \in Seq(Int) /\ Len(b) = n /\ \A i \in 1 .. n : b[i] = words[i]
  BY <1>1, SubSeqProperties, ElementOfSeq
<1>3. n = Len(words) => b = words BY <1>1, <1>2, SubSeqWhole
<1> HIDE DEF b
<1>4. n >= 2 => SubSeq(b, 3, n) \in Seq(Int)
  <2>1. SUFFICES ASSUME n >= 2 PROVE SubSeq(b, 3, n) \in Seq(Int) OBVIOUS
  <2>2. \A i \in 3 .. n : b[i] \in Int BY <1>1, <1>2, <2>1, ElementOfSeq
  <2>3. 3 \in 1 .. Len(b) + 1 /\ n \in 3 - 1 .. Len(b) BY <1>1, <1>2, <2>1
  <2> QED BY <1>2, <2>3, SubSeqProperties
<1>5. n >= 1 => b[1] = words[1] BY <1>1, <1>2
<1> QED BY <1>2, <1>3, <1>4, <1>5 DEF b

\* What processCommandBuffer finds.
LEMMA BlockSound ==
  ASSUME Sending, phase = "sent"
  PROVE  LET p == SubSeq(block, 3, Len(block))
         IN /\ headerRead(block) /\ supported(block[1]) =>
                 /\ block[1] = req /\ req \in 1 .. 108 /\ p \in Seq(Int)
                 /\ sent.whole => p = WriteData(sent.type, sent.datum)
            /\ sent.whole /\ req \in DOMAIN RIL_REQUEST =>
                 headerRead(block) /\ supported(block[1])
<1> DEFINE words == BlockOf(req, sent.datum)
<1>1. req \in 0 .. 109 /\ sent.type = DataType(req) /\ sent.datum \in Data(DataType(req))
  BY DEF Sending
<1>2. PICK n \in 0 .. Len(words) : PartOf(words, n, sent.whole) BY DEF Sending
<1>3. /\ words \in Seq(Int) /\ Len(words) >= 2 /\ words[1] = req
      /\ SubSeq(words, 3, Len(words)) = WriteData(sent.type, sent.datum)
  BY ZenonT(30), <1>1, BlockParts
<1> HIDE DEF words
<1>4. block = SubSeq(words, 1, n) /\ sent.whole = (n = Len(words)) BY <1>2 DEF PartOf
<1>5. /\ block \in Seq(Int) /\ Len(block) = n
      /\ n >= 1 => block[1] = words[1]
      /\ n >= 2 => SubSeq(block, 3, n) \in Seq(Int)
      /\ n = Len(words) => block = words
  BY <1>3, <1>4, PartParts
<1>6. Len(words) \in Nat /\ n \in Nat BY <1>3, LenProperties
<1>7. Len(s_commands) = 108 /\ DOMAIN RIL_REQUEST = 1 .. 108 BY CommandsTable, TablesAgree
<1>8. ASSUME headerRead(block), supported(block[1])
      PROVE  block[1] = req /\ req \in 1 .. 108 /\ SubSeq(block, 3, Len(block)) \in Seq(Int)
  <2>1. n >= 2 BY <1>5, <1>8 DEF headerRead
  <2>2. block[1] = req BY <1>3, <1>5, <1>6, <2>1
  <2>3. req \in 1 .. 108 BY <1>1, <1>7, <1>8, <2>2 DEF supported
  <2> QED BY <1>5, <2>1, <2>2, <2>3
<1>9. ASSUME sent.whole
      PROVE  SubSeq(block, 3, Len(block)) = WriteData(sent.type, sent.datum)
  <2>1. block = words BY <1>4, <1>5, <1>9
  <2> QED BY <1>3, <2>1
<1>10. ASSUME sent.whole, req \in DOMAIN RIL_REQUEST
       PROVE  headerRead(block) /\ supported(block[1])
  <2>1. block = words BY <1>4, <1>5, <1>10
  <2>2. Len(block) >= 2 /\ block[1] = req /\ req \in 1 .. 108 BY <1>3, <1>7, <1>10, <2>1
  <2> QED BY <1>7, <2>2 DEF headerRead, supported
<1> QED BY <1>8, <1>9, <1>10

\* The step that hands a block over, or does not.
LEMMA ProcessedSound ==
  ASSUME MarshalInv, processCommandBuffer
  PROVE  MarshalInv'
<1> DEFINE p == SubSeq(block, 3, Len(block))
           name == s_commands[req][1]
           o == dispatchFunction(name, p)
           found == headerRead(block) /\ supported(block[1])
<1>1. /\ phase = "sent" /\ version' = version /\ req' = req /\ sent' = sent
      /\ found => /\ phase' = IF dispatchFunction(s_commands[block[1]][1], p).valid
                              THEN "pending" ELSE "rejected"
                  /\ given' = dispatchFunction(s_commands[block[1]][1], p)
      /\ ~found => phase' = "ignored"
  BY DEF processCommandBuffer
<1>2. Sending /\ sent.type = DataType(req) /\ sent.datum \in Data(DataType(req))
      /\ req \in 0 .. 109
  BY <1>1 DEF MarshalInv, Sending
<1>3. /\ found => /\ block[1] = req /\ req \in 1 .. 108 /\ p \in Seq(Int)
                  /\ sent.whole => p = WriteData(sent.type, sent.datum)
      /\ sent.whole /\ req \in DOMAIN RIL_REQUEST => found
  BY <1>1, <1>2, BlockSound
<1>4. found => phase' = (IF o.valid THEN "pending" ELSE "rejected") /\ given' = o
  BY <1>1, <1>3
<1>5. found => name \in DispatchNames BY <1>3, CommandsTable
<1>6. found /\ sent.whole => Delivered(sent.type, sent.datum, o)
  <2>1. SUFFICES ASSUME found, sent.whole PROVE Delivered(sent.type, sent.datum, o) OBVIOUS
  <2>2. <<sent.type, name>> \in Rows BY <1>2, <1>3, <2>1, RowOf
  <2>3. p = WriteData(sent.type, sent.datum) BY <1>3, <2>1
  <2> HIDE DEF p, name
  <2>4. Delivered(sent.type, sent.datum, dispatchFunction(name, WriteData(sent.type, sent.datum)))
    BY <1>2, <2>2, DispatchDelivered
  <2> QED BY <2>3, <2>4
<1>7. found /\ o.valid => /\ NoUnset(o.data.elems)
                          /\ o.leak > 0 => \/ name = "SmsWrite"
                                           \/ name = "CallForward" /\ o.data.elems[1][5][2] = -1
  BY <1>3, <1>5, DispatchSound
<1> HIDE DEF o, p, found
<1>8. phase' = "pending" => found /\ o.valid /\ given' = o BY <1>1, <1>4
<1>9. phase' # "sent" BY <1>1, <1>4
<1>10. Sending' BY <1>1, <1>2, <1>9 DEF Sending, DataType
<1>11. DeliveredAsSent' BY <1>1, <1>6, <1>8 DEF DeliveredAsSent, Delivered, Received
<1>12. NothingUnset' BY <1>7, <1>8 DEF NothingUnset, NoUnset
<1>13. OnlyBrokenBlocksRejected'
  <2>1. ASSUME phase' = "rejected", sent.whole PROVE ~Legal(sent.type, sent.datum)
    <3>1. found /\ ~o.valid BY <1>1, <1>4, <2>1
    <3> QED BY <1>6, <2>1, <3>1 DEF Delivered
  <2>2. ASSUME phase' = "ignored", sent.whole PROVE req \notin DOMAIN RIL_REQUEST
    <3>1. ~found BY <1>1, <1>4, <2>2
    <3> QED BY <1>3, <2>2, <3>1
  <2> QED BY <1>1, <2>1, <2>2 DEF OnlyBrokenBlocksRejected
<1>14. OnlyKnownLeaks' BY <1>1, <1>7, <1>8 DEF OnlyKnownLeaks
<1> QED BY <1>10, <1>11, <1>12, <1>13, <1>14 DEF MarshalInv

\* The block a client writes is what the invariant says of it.
LEMMA SentSound ==
  ASSUME NEW q \in 0 .. 109, NEW d \in Data(DataType(q)), NEW n \in 0 .. Len(BlockOf(q, d)),
         SendBlock(q, d, n)
  PROVE  MarshalInv'
<1> DEFINE words == BlockOf(q, d)
<1>1. /\ phase' = "sent" /\ req' = q
      /\ sent' = [type |-> DataType(q), datum |-> d, whole |-> n = Len(words)]
      /\ block' = SubSeq(words, 1, n)
  BY DEF SendBlock
<1>2. sent'.type = DataType(q) /\ sent'.datum = d /\ sent'.whole = (n = Len(words))
  BY <1>1
<1>3. PartOf(words, n, sent.whole)' BY <1>1, <1>2 DEF PartOf
<1>4. Sending' BY <1>1, <1>2, <1>3 DEF Sending
<1> QED BY <1>1, <1>4
    DEF MarshalInv, DeliveredAsSent, NothingUnset, OnlyBrokenBlocksRejected, OnlyKnownLeaks

LEMMA MarshalInit == Init => MarshalInv
BY DEF Init, MarshalInv, Sending, DeliveredAsSent, NothingUnset, OnlyBrokenBlocksRejected,
       OnlyKnownLeaks

LEMMA MarshalStep == MarshalInv /\ [Next]_vars => MarshalInv'
<1> SUFFICES ASSUME MarshalInv, [Next]_vars PROVE MarshalInv' OBVIOUS
<1>1. ASSUME phase' \notin {"sent", "pending", "rejected", "ignored"} PROVE MarshalInv'
  BY <1>1 DEF MarshalInv, Sending, DeliveredAsSent, NothingUnset, OnlyBrokenBlocksRejected,
              OnlyKnownLeaks
<1>2. ASSUME NEW q \in 0 .. 109, NEW d \in Data(DataType(q)), NEW n \in 0 .. Len(BlockOf(q, d)),
             SendBlock(q, d, n)
      PROVE  MarshalInv'
  BY <1>2, SentSound
<1>3. CASE processCommandBuffer BY <1>3, ProcessedSound
<1>4. ASSUME NEW e, NEW r, RIL_onRequestComplete(e, r) PROVE MarshalInv'
  <2>1. phase' = "answered" BY <1>4 DEF RIL_onRequestComplete
  <2> QED BY <1>1, <2>1
<1>5. ASSUME NEW u, NEW r, RIL_onUnsolicitedResponse(u, r) PROVE MarshalInv'
  <2>1. phase' \in {"unsol", "withheld"} BY <1>5 DEF RIL_onUnsolicitedResponse
  <2> QED BY <1>1, <2>1
<1>6. CASE Finish
  <2>1. phase' = "idle" BY <1>6 DEF Finish, Idle
  <2> QED BY <1>1, <2>1
<1>7. CASE UNCHANGED vars
  <2>1. /\ version' = version /\ phase' = phase /\ req' = req /\ sent' = sent
        /\ block' = block /\ given' = given
    BY <1>7 DEF vars
  <2>2. Sending' BY <2>1 DEF MarshalInv, Sending, PartOf
  <2>3. DeliveredAsSent' BY <2>1 DEF MarshalInv, DeliveredAsSent, Received
  <2>4. NothingUnset' BY <2>1 DEF MarshalInv, NothingUnset
  <2>5. OnlyBrokenBlocksRejected' BY <2>1 DEF MarshalInv, OnlyBrokenBlocksRejected
  <2>6. OnlyKnownLeaks' BY <2>1 DEF MarshalInv, OnlyKnownLeaks
  <2> QED BY <2>2, <2>3, <2>4, <2>5, <2>6 DEF MarshalInv
<1>8. CASE \E q \in 0 .. 109 : \E d \in Data(DataType(q)) :
             \E n \in 0 .. Len(BlockOf(q, d)) : SendBlock(q, d, n)
  <2>1. PICK q \in 0 .. 109 : \E d \in Data(DataType(q)) :
               \E n \in 0 .. Len(BlockOf(q, d)) : SendBlock(q, d, n)
    BY <1>8
  <2>2. PICK d \in Data(DataType(q)) : \E n \in 0 .. Len(BlockOf(q, d)) : SendBlock(q, d, n)
    BY <2>1
  <2>3. PICK n \in 0 .. Len(BlockOf(q, d)) : SendBlock(q, d, n) BY <2>2
  <2> QED BY <1>2, <2>3
<1>9. CASE \E e \in {0, 2}, r \in Responses(ResponseType) : RIL_onRequestComplete(e, r)
  <2>1. PICK e \in {0, 2}, r \in Responses(ResponseType) : RIL_onRequestComplete(e, r)
    BY <1>9
  <2> QED BY <1>4, <2>1
<1>10. CASE \E u \in 1000 .. 1031 : \E r \in Responses(RIL_UNSOL[u - 999]) :
              RIL_onUnsolicitedResponse(u, r)
  <2>1. PICK u \in 1000 .. 1031 : \E r \in Responses(RIL_UNSOL[u - 999]) :
               RIL_onUnsolicitedResponse(u, r)
    BY <1>10
  <2>2. PICK r \in Responses(RIL_UNSOL[u - 999]) : RIL_onUnsolicitedResponse(u, r) BY <2>1
  <2> QED BY <1>5, <2>2
<1> QED BY <1>3, <1>6, <1>7, <1>8, <1>9, <1>10 DEF Next

LEMMA MarshalSound == Spec => []MarshalInv
BY MarshalInit, MarshalStep, PTL DEF Spec

(* DeliveredAsSent: whatever a client marshals for a request the way ril.h    *)
(* declares it, the dispatch function that s_commands gives the request hands *)
(* onRequest the same members, for every build and every size of the arrays.  *)
THEOREM DeliveredAsSentAlways == Spec => []DeliveredAsSent
<1>1. MarshalInv => DeliveredAsSent BY DEF MarshalInv
<1> QED BY <1>1, MarshalSound, PTL

(* NothingUnset: wherever a block is cut short, no dispatch function hands    *)
(* onRequest a number or a byte it has not read. A text that is cut may be    *)
(* NULL, a buffer a NULL pointer with the length the block announced.         *)
THEOREM NothingUnsetAlways == Spec => []NothingUnset
<1>1. MarshalInv => NothingUnset BY DEF MarshalInv
<1> QED BY <1>1, MarshalSound, PTL

(* OnlyBrokenBlocksRejected: processCommandBuffer turns away no whole block   *)
(* of a known request that holds what ril.h allows.                           *)
THEOREM OnlyBrokenBlocksRejectedAlways == Spec => []OnlyBrokenBlocksRejected
<1>1. MarshalInv => OnlyBrokenBlocksRejected BY DEF MarshalInv
<1> QED BY <1>1, MarshalSound, PTL

(* OnlyKnownLeaks: the strings a dispatch function allocates are freed after  *)
(* onRequest, but for the SMSC of an SMS to write and the number of a call    *)
(* forward that was the empty string.                                         *)
THEOREM OnlyKnownLeaksAlways == Spec => []OnlyKnownLeaks
<1>1. MarshalInv => OnlyKnownLeaks BY DEF MarshalInv
<1> QED BY <1>1, MarshalSound, PTL

-----------------------------------------------------------------------------
(* What the client reads of a list.                                           *)

\* One structure more, and what has been read of it.
ListMore(type, x) ==
  [r |-> ReadOne(type, [x.r EXCEPT !.args = <<>>]),
   es |-> Append(x.es, ReadOne(type, [x.r EXCEPT !.args = <<>>]).args)]

ListNone(r) == [r |-> r, es |-> <<>>]

LEMMA ListSteps ==
  ASSUME NEW type, NEW r, NEW n \in Nat
  PROVE  \E f : /\ f[0] = ListNone(r)
                /\ \A i \in 1 .. n : f[i] = ListMore(type, f[i - 1])
                /\ ReadList(type, r, n) = f[n].es
<1> DEFINE Steps(f, m) ==
             f = [i \in 0 .. m |-> IF i = 0 THEN ListNone(r) ELSE ListMore(type, f[i - 1])]
           P == {m \in Nat : \E f : Steps(f, m)}
<1>1. 0 \in P
  <2>1. Steps([i \in 0 .. 0 |-> ListNone(r)], 0) OBVIOUS
  <2> QED BY <2>1
<1>2. ASSUME NEW m \in Nat, m \in P PROVE m + 1 \in P
  <2>1. PICK f : Steps(f, m) BY <1>2
  <2> DEFINE g == [i \in 0 .. m + 1 |-> IF i = m + 1 THEN ListMore(type, f[m]) ELSE f[i]]
  <2>2. Steps(g, m + 1)
    <3>1. \A i \in 0 .. m : f[i] = IF i = 0 THEN ListNone(r) ELSE ListMore(type, f[i - 1])
      BY <2>1
    <3>2. \A i \in 0 .. m : g[i] = f[i] OBVIOUS
    <3>3. \A i \in 0 .. m + 1 : g[i] = IF i = 0 THEN ListNone(r) ELSE ListMore(type, g[i - 1])
      <4> TAKE i \in 0 .. m + 1
      <4>1. CASE i = m + 1 BY <4>1
      <4>2. CASE i # m + 1
        <5>1. i \in 0 .. m /\ (i # 0 => i - 1 \in 0 .. m) BY <4>2
        <5> QED BY <3>1, <3>2, <5>1
      <4> QED BY <4>1, <4>2
    <3> QED BY <3>3
  <2> HIDE DEF g
  <2> QED BY <2>2
<1>3. n \in P
  <2> HIDE DEF P
  <2>1. \A m \in Nat : m \in P BY <1>1, <1>2, EveryNumber
  <2> QED BY <2>1
<1>4. PICK f : Steps(f, n) BY <1>3
<1> DEFINE g == CHOOSE h : Steps(h, n)
<1>5. Steps(g, n) BY <1>4
<1>6. ReadList(type, r, n) = g[n].es BY DEF ReadList, ListMore, ListNone
<1> HIDE DEF g
<1>7. /\ g[0] = ListNone(r) /\ \A i \in 1 .. n : g[i] = ListMore(type, g[i - 1]) BY <1>5
<1> QED BY <1>6, <1>7

LEMMA FedCleared ==
  ASSUME NEW r, NEW t, NEW args, FedAt(r, t, args)
  PROVE  FedAt([r EXCEPT !.args = <<>>], t, <<>>)
<1> DEFINE none == <<>>
           q == [r EXCEPT !.args = none]
<1>1. r \in Readers /\ r.valid /\ r.ok /\ Coming(r) = t BY DEF FedAt
<1>2. none \in Seq(Values) OBVIOUS
<1> HIDE DEF none
<1>3. q \in Readers /\ q.w = r.w /\ q.pos = r.pos /\ q.ok = r.ok /\ q.valid = r.valid /\ q.args = none
  BY <1>1, <1>2 DEF Readers
<1> HIDE DEF q
<1>4. Coming(q) = Coming(r) BY <1>3 DEF Coming
<1>5. FedAt(q, t, none) BY <1>1, <1>3, <1>4 DEF FedAt
<1> QED BY <1>5 DEF q, none

\* The beginnings of a sequence, one element at a time.
LEMMA OneMore ==
  ASSUME NEW T, NEW s \in Seq(T), NEW m \in Nat, m + 1 <= Len(s)
  PROVE  /\ SubSeq(s, 1, m) \in Seq(T) /\ s[m + 1] \in T
         /\ SubSeq(s, 1, m + 1) = Append(SubSeq(s, 1, m), s[m + 1])
<1> DEFINE n == Len(s)
           a == SubSeq(s, 1, m)
           b == SubSeq(s, 1, m + 1)
           c == Append(a, s[m + 1])
<1>1. n \in Nat /\ m <= n /\ m + 1 \in 1 .. n /\ \A i \in 1 .. n : s[i] \in T
  BY LenProperties, ElementOfSeq
<1>2. a \in Seq(T) /\ Len(a) = m /\ \A i \in 1 .. m : a[i] = s[i]
  <2> HIDE DEF n
  <2>1. \A i \in 1 .. m : s[i] \in T BY <1>1
  <2> QED BY <2>1, SubSeqProperties
<1>3. b \in Seq(T) /\ Len(b) = m + 1 /\ \A i \in 1 .. m + 1 : b[i] = s[i]
  <2> HIDE DEF n
  <2> DEFINE k == m + 1
  <2>1. k \in Nat /\ \A i \in 1 .. k : s[i] \in T BY <1>1
  <2> HIDE DEF k
  <2>2. SubSeq(s, 1, k) \in Seq(T) /\ Len(SubSeq(s, 1, k)) = k
        /\ \A i \in 1 .. k : SubSeq(s, 1, k)[i] = s[i]
    BY <2>1, SubSeqProperties
  <2> QED BY <2>2 DEF k
<1>4. s[m + 1] \in T BY <1>1
<1>5. /\ c \in Seq(T) /\ Len(c) = m + 1 /\ c[m + 1] = s[m + 1] /\ \A i \in 1 .. m : c[i] = a[i]
  <2> DEFINE v == s[m + 1]
  <2> HIDE DEF a, v
  <2> QED BY <1>2, <1>4, AppendParts DEF v
<1> HIDE DEF a, b, c, n
<1>6. \A i \in 1 .. m + 1 : b[i] = c[i]
  <2> TAKE i \in 1 .. m + 1
  <2>1. CASE i = m + 1 BY <1>3, <1>5, <2>1
  <2>2. CASE i # m + 1
    <3>1. i \in 1 .. m BY <2>2
    <3> QED BY <1>2, <1>3, <1>5, <3>1
  <2> QED BY <2>1, <2>2
<1>7. b = c BY <1>3, <1>5, <1>6, SeqEqual
<1> QED BY <1>2, <1>4, <1>7 DEF a, b, c

LEMMA ConcatConcat ==
  ASSUME NEW T, NEW a \in Seq(Seq(T)), NEW b \in Seq(Seq(T))
  PROVE  Concat(a \o b) = Concat(a) \o Concat(b)
<1> DEFINE K == Seq(T)
           P == {t \in Seq(K) : Concat(a \o t) = Concat(a) \o Concat(t)}
<1>0. a \in Seq(K) /\ b \in Seq(K) OBVIOUS
<1>1. <<>> \in P
  <2>1. <<>> \in Seq(K) /\ a \o <<>> = a BY ConcatEmptySeq
  <2>2. Concat(a) \in Seq(T) BY ConcatIsSeq
  <2>3. Concat(a) \o <<>> = Concat(a) BY <2>2, ConcatEmptySeq
  <2> QED BY <2>1, <2>3, ConcatNothing
<1>2. ASSUME NEW t \in Seq(K), NEW k \in K, t \in P PROVE Append(t, k) \in P
  <2> DEFINE c == Concat(a)
             d == Concat(t)
  <2>1. Append(t, k) \in Seq(K) /\ a \o t \in Seq(K)
    <3> HIDE DEF K
    <3> QED BY <1>0, AppendProperties, ConcatProperties
  <2>2. a \o Append(t, k) = Append(a \o t, k)
    <3> HIDE DEF K
    <3> QED BY <1>0, AppendOne
  <2>3. Concat(Append(a \o t, k)) = Concat(a \o t) \o k BY <2>1, ConcatAppend
  <2>4. Concat(Append(t, k)) = d \o k BY ConcatAppend
  <2>5. Concat(a \o t) = c \o d BY <1>2
  <2>6. c \in Seq(T) /\ d \in Seq(T) /\ k \in Seq(T) BY ConcatIsSeq
  <2> HIDE DEF c, d, K, P
  <2>7. (c \o d) \o k = c \o (d \o k) BY SMTT(30), <2>6, ConcatThree
  <2>8. Concat(a \o Append(t, k)) = c \o Concat(Append(t, k))
    BY <2>2, <2>3, <2>4, <2>5, <2>7
  <2> QED BY <2>1, <2>8 DEF c, P
<1>3. b \in P
  <2> HIDE DEF P, K
  <2> QED BY <1>0, <1>1, <1>2, SeqCases
<1> QED BY <1>3

\* A sequence is its beginning and what follows.
LEMMA BeginningIsSeq ==
  ASSUME NEW T, NEW s \in Seq(T), NEW m \in Nat, m <= Len(s)
  PROVE  SubSeq(s, 1, m) \in Seq(T)
<1> DEFINE n == Len(s)
<1>1. n \in Nat BY LenProperties
<1>2. \A i \in 1 .. m : s[i] \in T BY <1>1, ElementOfSeq
<1> HIDE DEF n
<1> QED BY <1>2, SubSeqProperties

LEMMA InTwo ==
  ASSUME NEW T, NEW s \in Seq(T), NEW m \in Nat, m <= Len(s)
  PROVE  \E b \in Seq(T) : s = SubSeq(s, 1, m) \o b
<1> DEFINE n == Len(s)
           P == {k \in Nat : m + k <= n => \E b \in Seq(T) : SubSeq(s, 1, m + k) = SubSeq(s, 1, m) \o b}
           a == SubSeq(s, 1, m)
<1>1. n \in Nat BY LenProperties
<1>2. a \in Seq(T) BY BeginningIsSeq
<1>3. 0 \in P
  <2>1. <<>> \in Seq(T) /\ m + 0 = m /\ a \o <<>> = a BY <1>2, ConcatEmptySeq
  <2> HIDE DEF a
  <2> QED BY <2>1 DEF a
<1>4. ASSUME NEW k \in Nat, k \in P PROVE k + 1 \in P
  <2> SUFFICES ASSUME m + (k + 1) <= n
               PROVE  \E b \in Seq(T) : SubSeq(s, 1, m + (k + 1)) = a \o b
    OBVIOUS
  <2> DEFINE j == m + k
  <2>1. j \in Nat /\ j + 1 <= Len(s) /\ j + 1 = m + (k + 1) /\ j <= n BY <1>1
  <2>2. PICK b \in Seq(T) : SubSeq(s, 1, j) = a \o b BY <1>4, <2>1
  <2> HIDE DEF j, a
  <2> DEFINE v == s[j + 1]
  <2>3. SubSeq(s, 1, j + 1) = Append(SubSeq(s, 1, j), v) /\ v \in T BY <2>1, OneMore
  <2> HIDE DEF v
  <2>4. a \o Append(b, v) = Append(a \o b, v) /\ Append(b, v) \in Seq(T)
    <3>1. v \in T BY <2>3
    <3>2. a \o Append(b, v) = Append(a \o b, v) BY <1>2, <3>1, AppendOne
    <3> QED BY <3>1, <3>2, AppendProperties
  <2> QED BY <2>1, <2>2, <2>3, <2>4
<1> DEFINE k == n - m
<1>5. k \in Nat /\ m + k = n BY <1>1
<1> HIDE DEF n, k, a
<1>6. k \in P
  <2> HIDE DEF P
  <2> QED BY <1>3, <1>4, <1>5, EveryNumber DEF a
<1>7. PICK b \in Seq(T) : SubSeq(s, 1, n) = a \o b
  <2>1. m + k <= n BY <1>1, <1>5
  <2> QED BY <1>5, <1>6, <2>1 DEF a
<1> USE DEF n, a
<1>8. SubSeq(s, 1, n) = s BY SubSeqWhole
<1> QED BY <1>2, <1>7, <1>8

LEMMA ConcatInTwo ==
  ASSUME NEW K, NEW ws \in Seq(Seq(K)), NEW k \in Nat, k <= Len(ws)
  PROVE  \E u \in Seq(K) : Concat(ws) = Concat(SubSeq(ws, 1, k)) \o u
<1> DEFINE T == Seq(K)
           part == SubSeq(ws, 1, k)
<1>1. ws \in Seq(T) OBVIOUS
<1> HIDE DEF T
<1>2. \E b \in Seq(T) : ws = SubSeq(ws, 1, k) \o b BY ZenonT(30), <1>1, InTwo
<1>3. PICK b \in Seq(T) : ws = part \o b BY <1>2
<1>6. part \in Seq(T) BY <1>1, BeginningIsSeq
<1> HIDE DEF part
<1>4. part \in Seq(Seq(K)) /\ b \in Seq(Seq(K)) BY <1>6 DEF T
<1>5. Concat(part \o b) = Concat(part) \o Concat(b) /\ Concat(b) \in Seq(K)
  BY <1>4, ConcatConcat, ConcatIsSeq
<1> QED BY <1>3, <1>5 DEF part

\* A structure is read from its words, whatever follows them.
ReadsAs(type, w, e) ==
  \A q \in Readers : \A t \in Seq(Int) :
    FedAt(q, w \o t, <<>>) => FedAt(ReadOne(type, q), t, e)

LEMMA FedList ==
  ASSUME NEW type, NEW ws \in Seq(Seq(Int)), NEW es \in Seq(Seq(Sendable)), Len(es) = Len(ws),
         \A i \in 1 .. Len(ws) : ReadsAs(type, ws[i], es[i]),
         NEW r, NEW args, FedAt(r, Concat(ws), args)
  PROVE  ReadList(type, r, Len(ws)) = es
<1> DEFINE n == Len(ws)
           w == Concat(ws)
           T == Seq(Int)
           E == Seq(Sendable)
<1>0. n \in Nat /\ w \in Seq(Int) /\ r \in Readers BY LenProperties, ConcatIsSeq DEF FedAt
<1> HIDE DEF n, w, T, E
<1>1. PICK f : /\ f[0] = ListNone(r)
               /\ \A i \in 1 .. n : f[i] = ListMore(type, f[i - 1])
               /\ ReadList(type, r, n) = f[n].es
  BY <1>0, ListSteps
<1> DEFINE Here(m) == /\ f[m].es = SubSeq(es, 1, m)
                      /\ \A u \in Seq(Int) : w = Concat(SubSeq(ws, 1, m)) \o u =>
                           \E a : FedAt(f[m].r, u, a)
           P == {m \in Nat : m <= n => Here(m)}
<1>2. 0 \in P
  <2>1. f[0].r = r /\ f[0].es = <<>> BY <1>1 DEF ListNone
  <2>2. SubSeq(es, 1, 0) = <<>> /\ SubSeq(ws, 1, 0) = <<>> BY SubSeqEmpty
  <2>3. \A u \in Seq(Int) : Concat(<<>>) \o u = u BY ConcatNothing, ConcatEmptySeq
  <2>4. FedAt(r, w, args) BY DEF w
  <2>5. Here(0) BY <2>1, <2>2, <2>3, <2>4
  <2> QED BY <2>5
<1>3. ASSUME NEW m \in Nat, m \in P PROVE m + 1 \in P
  <2> HIDE DEF Here
  <2> SUFFICES ASSUME m + 1 <= n PROVE Here(m + 1) OBVIOUS
  <2> USE DEF Here
  <2>1. m <= n /\ m + 1 \in 1 .. n /\ (m + 1) - 1 = m /\ m + 1 <= Len(ws) /\ m + 1 <= Len(es)
    BY <1>0 DEF n
  <2>2. Here(m) BY <1>3, <2>1
  <2> DEFINE x == ws[m + 1]
             before == SubSeq(ws, 1, m)
             q == [f[m].r EXCEPT !.args = <<>>]
             one == ReadOne(type, q)
             e == es[m + 1]
  <2>3. before \in Seq(Seq(Int)) /\ x \in Seq(Int) /\ SubSeq(ws, 1, m + 1) = Append(before, x)
    <3>1. ws \in Seq(T) BY DEF T
    <3>2. before \in Seq(T) /\ x \in T /\ SubSeq(ws, 1, m + 1) = Append(before, x)
      BY <2>1, <3>1, OneMore
    <3> QED BY <3>2 DEF T
  <2>4. e \in Seq(Sendable) /\ SubSeq(es, 1, m + 1) = Append(SubSeq(es, 1, m), e)
    <3>1. es \in Seq(E) BY DEF E
    <3>2. e \in E /\ SubSeq(es, 1, m + 1) = Append(SubSeq(es, 1, m), e) BY <2>1, <3>1, OneMore
    <3> QED BY <3>2 DEF E
  <2>5. Concat(SubSeq(ws, 1, m + 1)) = Concat(before) \o x BY <2>3, ConcatAppend
  <2>6. Concat(before) \in Seq(Int) BY <2>3, ConcatIsSeq
  <2>7. ReadsAs(type, x, e) BY <2>1 DEF n
  <2>8. f[m + 1] = ListMore(type, f[m]) BY <1>1, <2>1
  <2>9. f[m + 1].r = one /\ f[m + 1].es = Append(f[m].es, one.args) BY <2>8 DEF ListMore
  <2> DEFINE next == Concat(SubSeq(ws, 1, m + 1))
  <2>10. ASSUME NEW u \in Seq(Int), w = next \o u PROVE FedAt(one, u, e)
    <3> DEFINE c == Concat(before)
    <3> HIDE DEF c, x, w, one, e, next
    <3>1. w = (c \o x) \o u BY <2>5, <2>10 DEF c, next
    <3>2. w = c \o (x \o u) /\ x \o u \in Seq(Int) BY <2>3, <2>6, <3>1, ConcatInts DEF c
    <3>3. PICK a : FedAt(f[m].r, x \o u, a) BY <2>2, <3>2 DEF c
    <3>4. FedAt(q, x \o u, <<>>) BY <3>3, FedCleared
    <3>5. q \in Readers BY <3>4 DEF FedAt
    <3> HIDE DEF q
    <3> QED BY <2>7, <3>4, <3>5 DEF ReadsAs, one
  <2>11. PICK u \in Seq(Int) : w = next \o u
    <3> DEFINE k == m + 1
    <3> HIDE DEF k
    <3>1. k \in Nat /\ k <= Len(ws) BY <2>1 DEF k
    <3>2. \E u \in Seq(Int) : Concat(ws) = Concat(SubSeq(ws, 1, k)) \o u BY <3>1, ConcatInTwo
    <3> QED BY <3>2 DEF w, k
  <2>12. one.args = e BY <2>10, <2>11 DEF FedAt
  <2>13. f[m + 1].es = SubSeq(es, 1, m + 1) BY <2>2, <2>4, <2>9, <2>12
  <2>14. \A v \in Seq(Int) : w = next \o v => FedAt(f[m + 1].r, v, e) BY <2>9, <2>10
  <2> QED BY <2>13, <2>14
<1>4. n \in P
  <2> HIDE DEF P
  <2> QED BY <1>0, <1>2, <1>3, EveryNumber
<1>5. f[n].es = SubSeq(es, 1, Len(es)) BY <1>0, <1>4 DEF n
<1>6. SubSeq(es, 1, Len(es)) = es BY SubSeqWhole
<1> QED BY <1>1, <1>5, <1>6 DEF n

-----------------------------------------------------------------------------
(* Every response is read by the client as the vendor RIL completed with it.  *)

\* f is what the response function makes of r, a structure of the type.
Answered(type, r, f) ==
  ~r.null =>
    /\ WellFormed(type, r) => /\ f.ret = 0 /\ f.w \in Seq(Int)
                              /\ ReadBack(type, f.w) = Reported(type, r)
    /\ ~WellFormed(type, r) => /\ f.ret = -1
                               /\ type # "RIL_CDMA_InformationRecords" => f.w = <<>>

LEMMA ResponseParts ==
  ASSUME NEW null, NEW bad, NEW e
  PROVE  LET r == Response(null, bad, e) IN r.null = null /\ r.bad = bad /\ r.elems = e
BY DEF Response

LEMMA WrittenParts ==
  /\ \A w : Written(w).ret = 0 /\ Written(w).w = w
  /\ INVALID_RESPONSE.ret = -1 /\ INVALID_RESPONSE.w = <<>>
BY DEF Written, INVALID_RESPONSE

\* The types of which no response function looks at the length.
UnsizedTypes == {"string", "raw", "RIL_GSM_BroadcastSmsConfigInfo**",
                 "RIL_CDMA_BroadcastSmsConfigInfo**"}

LEMMA ResponsesParts ==
  ASSUME NEW type, type # "void", NEW r \in Responses(type), ~r.null
  PROVE  /\ r.elems \in ElemsOf(type) /\ r.bad \in BOOLEAN
         /\ type \in UnsizedTypes => ~r.bad
<1> DEFINE E == ElemsOf(type)
<1>1. r \in IF type \in UnsizedTypes THEN Fitting(E) \cup NullPointer
           ELSE AnyLength(E) \cup NullPointer
  <2> HIDE DEF E
  <2>1. CASE type \in UnsizedTypes BY <2>1 DEF Responses, UnsizedTypes, E
  <2>2. CASE type \notin UnsizedTypes BY <2>2 DEF Responses, UnsizedTypes, E
  <2> QED BY <2>1, <2>2
<1> HIDE DEF E
<1>2. r \notin NullPointer BY DEF NullPointer, Response
<1>3. ASSUME r \in Fitting(E) PROVE r.elems \in E /\ r.bad \in BOOLEAN /\ ~r.bad
  <2>1. r.elems \in E BY <1>3 DEF Fitting, Response
  <2>2. r.bad = FALSE BY <1>3 DEF Fitting, Response
  <2> QED BY <2>1, <2>2, Zenon
<1>4. ASSUME r \in AnyLength(E) PROVE r.elems \in E /\ r.bad \in BOOLEAN
  BY <1>4 DEF AnyLength, Response
<1> QED BY <1>1, <1>2, <1>3, <1>4 DEF E

\* One structure, written member by member.
SingleTypes == {"RIL_SMS_Response", "RIL_SIM_IO_Response", "RIL_SuppSvcNotification",
                "RIL_CDMA_SignalInfoRecord", "RIL_CDMA_CallWaiting", "string", "raw"}

LEMMA SingleLayouts ==
  ASSUME NEW type \in SingleTypes
  PROVE  LayoutOf(type) \in Seq(Kinds)
<1>1. LayoutOf("RIL_SMS_Response") = RIL_SMS_Response
      /\ LayoutOf("RIL_SIM_IO_Response") = RIL_SIM_IO_Response
  BY DEF LayoutOf
<1>2. LayoutOf("RIL_SuppSvcNotification") = RIL_SuppSvcNotification
      /\ LayoutOf("RIL_CDMA_SignalInfoRecord") = RIL_CDMA_SignalInfoRecord
  BY DEF LayoutOf
<1>3. LayoutOf("RIL_CDMA_CallWaiting") = RIL_CDMA_CallWaiting BY DEF LayoutOf
<1>4. RIL_SMS_Response \in Seq(Kinds) /\ RIL_SIM_IO_Response \in Seq(Kinds)
  BY DEF Kinds, RIL_SMS_Response, RIL_SIM_IO_Response
<1>5. RIL_SuppSvcNotification \in Seq(Kinds) /\ RIL_CDMA_SignalInfoRecord \in Seq(Kinds)
  BY DEF Kinds, RIL_SuppSvcNotification, RIL_CDMA_SignalInfoRecord
<1>6. RIL_CDMA_CallWaiting \in Seq(Kinds)
  <2>1. <<"str", "int", "str">> \in Seq(Kinds) BY DEF Kinds
  <2> QED BY <1>5, <2>1, ConcatProperties DEF RIL_CDMA_CallWaiting
<1>7. LayoutOf("string") \in Seq(Kinds) /\ LayoutOf("raw") \in Seq(Kinds)
  BY StructLayouts DEF StructTypes
<1> QED BY <1>1, <1>2, <1>3, <1>4, <1>5, <1>6, <1>7 DEF SingleTypes

LEMMA SingleElems ==
  ASSUME NEW type \in SingleTypes, NEW e \in ElemsOf(type)
  PROVE  \E t \in Seq(Sendable) :
           e = <<t>> /\ KindsOf(t) = LayoutOf(type) /\ Len(t) = Len(LayoutOf(type))
<1>1. type \notin {"void", "strings", "ints", "RIL_Dial", "RIL_CDMA_SMS_Message",
                   "RIL_CDMA_SMS_WriteArgs", "RIL_Call**", "RIL_CardStatus",
                   "RIL_SignalStrength", "RIL_CDMA_InformationRecords"} /\ type \notin Arrays
  BY DEF SingleTypes, Arrays
<1>2. ElemsOf(type) = OneOf(Tuples(LayoutOf(type))) BY <1>1 DEF ElemsOf
<1>3. PICK t \in Tuples(LayoutOf(type)) : e = <<t>> BY <1>2 DEF OneOf
<1>4. LayoutOf(type) \in Seq(Kinds) BY SingleLayouts
<1>5. t \in Seq(Sendable) /\ KindsOf(t) = LayoutOf(type) /\ Len(t) = Len(LayoutOf(type))
  BY <1>4, TuplesParts, KindsOfAre
<1> QED BY <1>3, <1>5

\* What is read of it, with what may follow it.
LEMMA SingleReadMore ==
  ASSUME NEW type \in SingleTypes, NEW t \in Seq(Sendable), KindsOf(t) = LayoutOf(type),
         NEW more \in Seq(Int)
  PROVE  ReadBack(type, Words(t) \o more) = <<t>>
<1> DEFINE w == Words(t) \o more
           k == LayoutOf(type)
           r == Run(Start(w), k)
<1>1. Words(t) \in Seq(Int) /\ k \in Seq(Kinds) BY WordsIsSeq, SingleLayouts
<1>2. w \in Seq(Int) BY <1>1, ConcatProperties
<1>3. FedAt(Start(w), w, <<>>) BY <1>2, StartFed
<1>4. FedAt(Run(Start(w), KindsOf(t)), more, <<>> \o t) BY <1>3, FedValues
<1>5. <<>> \o t = t BY ConcatEmptySeq
<1>6. r.args = t BY <1>4, <1>5 DEF FedAt
<1>7. ReadBack(type, w) = <<r.args>>
  <2>1. type \notin {"void", "RIL_Call**", "RIL_CardStatus", "RIL_CDMA_SMS_Message",
                     "RIL_CDMA_InformationRecords", "RIL_NeighboringCell**"} /\ type \notin Arrays
    BY DEF SingleTypes, Arrays
  <2> QED BY <2>1 DEF ReadBack
<1> QED BY <1>6, <1>7

LEMMA SingleRead ==
  ASSUME NEW type \in SingleTypes, NEW t \in Seq(Sendable), KindsOf(t) = LayoutOf(type)
  PROVE  Words(t) \in Seq(Int) /\ ReadBack(type, Words(t)) = <<t>>
<1>1. Words(t) \in Seq(Int) /\ <<>> \in Seq(Int) BY WordsIsSeq
<1>2. Words(t) \o <<>> = Words(t) BY <1>1, ConcatEmptySeq
<1>3. ReadBack(type, Words(t) \o <<>>) = <<t>> BY <1>1, SingleReadMore
<1> QED BY <1>1, <1>2, <1>3

LEMMA SingleAnswered ==
  ASSUME NEW type \in SingleTypes, NEW r \in Responses(type), NEW f,
         r.bad /\ ~r.null => f = INVALID_RESPONSE,
         ~r.bad /\ ~r.null => f = Written(Words(r.elems[1]))
  PROVE  Answered(type, r, f)
<1> SUFFICES ASSUME ~r.null
             PROVE  /\ WellFormed(type, r) => /\ f.ret = 0 /\ f.w \in Seq(Int)
                                              /\ ReadBack(type, f.w) = Reported(type, r)
                    /\ ~WellFormed(type, r) => f.ret = -1 /\ f.w = <<>>
  BY DEF Answered
<1>1. type \notin {"void", "RIL_CDMA_InformationRecords", "RIL_Call**", "RIL_SignalStrength"}
  BY DEF SingleTypes
<1>2. WellFormed(type, r) = ~r.bad /\ Reported(type, r) = r.elems
  BY <1>1 DEF WellFormed, Reported
<1>3. r.elems \in ElemsOf(type) BY <1>1, ResponsesParts
<1>4. PICK t \in Seq(Sendable) : r.elems = <<t>> /\ KindsOf(t) = LayoutOf(type)
  BY <1>3, SingleElems
<1>5. r.elems[1] = t BY <1>4
<1>6. CASE ~r.bad
  <2>1. f.ret = 0 /\ f.w = Words(t) BY <1>5, <1>6, WrittenParts
  <2> QED BY <1>2, <1>4, <1>6, <2>1, SingleRead
<1>7. CASE r.bad BY <1>2, <1>7, WrittenParts
<1> QED BY <1>6, <1>7

LEMMA SplitAt ==
  ASSUME NEW T, NEW s \in Seq(T), NEW m \in Nat, m <= Len(s)
  PROVE  /\ SubSeq(s, 1, m) \in Seq(T) /\ SubSeq(s, m + 1, Len(s)) \in Seq(T)
         /\ s = SubSeq(s, 1, m) \o SubSeq(s, m + 1, Len(s))
<1> DEFINE a == SubSeq(s, 1, m)
<1>1. a \in Seq(T) BY BeginningIsSeq
<1>2. PICK b \in Seq(T) : s = a \o b BY InTwo
<1>3. Len(a) = m
  <2>1. Len(s) \in Nat /\ \A i \in 1 .. Len(s) : s[i] \in T BY LenProperties, ElementOfSeq
  <2> DEFINE n == Len(s)
  <2> HIDE DEF n
  <2>2. \A i \in 1 .. m : s[i] \in T BY <2>1 DEF n
  <2> QED BY <2>2, SubSeqProperties
<1> HIDE DEF a
<1>4. Len(s) = m + Len(b) BY <1>1, <1>2, <1>3, ConcatProperties
<1>5. SubSeq(a \o b, Len(a) + 1, Len(a) + Len(b)) = b BY <1>1, ConcatSplit
<1>6. SubSeq(s, m + 1, Len(s)) = b BY <1>2, <1>3, <1>4, <1>5
<1> QED BY <1>1, <1>2, <1>6 DEF a

LEMMA SingleFunction ==
  ASSUME NEW r, ~r.null
  PROVE  /\ r.bad => Single(r) = INVALID_RESPONSE
         /\ ~r.bad => Single(r) = Written(Words(r.elems[1]))
BY DEF Single

LEMMA SMSAnswered ==
  ASSUME NEW r \in Responses("RIL_SMS_Response")
  PROVE  Answered("RIL_SMS_Response", r, responseSMS(r))
<1>1. responseSMS(r) = Single(r) BY DEF responseSMS
<1> QED BY <1>1, SingleFunction, SingleAnswered DEF SingleTypes

LEMMA SIM_IOAnswered ==
  ASSUME NEW r \in Responses("RIL_SIM_IO_Response")
  PROVE  Answered("RIL_SIM_IO_Response", r, responseSIM_IO(r))
<1>1. responseSIM_IO(r) = Single(r) BY DEF responseSIM_IO
<1> QED BY <1>1, SingleFunction, SingleAnswered DEF SingleTypes

LEMMA SsnAnswered ==
  ASSUME NEW r \in Responses("RIL_SuppSvcNotification")
  PROVE  Answered("RIL_SuppSvcNotification", r, responseSsn(r))
<1>1. responseSsn(r) = Single(r) BY DEF responseSsn
<1> QED BY <1>1, SingleFunction, SingleAnswered DEF SingleTypes

LEMMA CallRingAnswered ==
  ASSUME NEW r \in Responses("RIL_CDMA_SignalInfoRecord")
  PROVE  Answered("RIL_CDMA_SignalInfoRecord", r, responseCallRing(r))
<1> DEFINE f == responseCallRing(r)
           type == "RIL_CDMA_SignalInfoRecord"
<1>1. ASSUME ~r.null
      PROVE  (r.bad => f = INVALID_RESPONSE) /\ (~r.bad => f = Written(Words(r.elems[1])))
  <2>1. r.elems \in ElemsOf(type) BY <1>1, ResponsesParts
  <2>2. r.elems # <<>> BY <2>1, SingleElems DEF SingleTypes
  <2> QED BY <1>1, <2>2 DEF responseCallRing, responseCdmaSignalInfoRecord, marshallSignalInfoRecord
<1> QED BY <1>1, SingleAnswered DEF SingleTypes

LEMMA CdmaCallWaitingAnswered ==
  ASSUME NEW r \in Responses("RIL_CDMA_CallWaiting")
  PROVE  Answered("RIL_CDMA_CallWaiting", r, responseCdmaCallWaiting(r))
<1> DEFINE f == responseCdmaCallWaiting(r)
           type == "RIL_CDMA_CallWaiting"
<1>1. ASSUME ~r.null
      PROVE  (r.bad => f = INVALID_RESPONSE) /\ (~r.bad => f = Written(Words(r.elems[1])))
  <2>1. r.elems \in ElemsOf(type) BY <1>1, ResponsesParts
  <2>2. PICK t \in Seq(Sendable) : r.elems = <<t>> /\ Len(t) = Len(LayoutOf(type))
    BY <2>1, SingleElems DEF SingleTypes
  <2>3. Len(t) = 7
    <3>1. LayoutOf(type) = <<"str", "int", "str">> \o <<"int", "int", "int", "int">>
      BY DEF LayoutOf, RIL_CDMA_CallWaiting, RIL_CDMA_SignalInfoRecord
    <3> QED BY <2>2, <3>1
  <2> DEFINE a == SubSeq(t, 1, 3)
             b == SubSeq(t, 4, 7)
  <2>4. a \in Seq(Sendable) /\ b \in Seq(Sendable) /\ t = a \o b
    <3> DEFINE m == 3
    <3>1. m \in Nat /\ m <= Len(t) /\ m + 1 = 4 BY <2>3
    <3> HIDE DEF m
    <3>2. /\ SubSeq(t, 1, m) \in Seq(Sendable) /\ SubSeq(t, m + 1, Len(t)) \in Seq(Sendable)
          /\ t = SubSeq(t, 1, m) \o SubSeq(t, m + 1, Len(t))
      BY <3>1, SplitAt
    <3> QED BY <2>3, <3>1, <3>2 DEF m
  <2> HIDE DEF a, b
  <2>5. Words(t) = Words(a) \o Words(b) BY <2>4, WordsConcat
  <2>6. r.elems[1] = t BY <2>2
  <2> QED BY <1>1, <2>5, <2>6 DEF responseCdmaCallWaiting, marshallSignalInfoRecord, a, b
<1> QED BY <1>1, SingleAnswered DEF SingleTypes

\* A string is written as it is; only a buffer would be cut at a zero byte.
LEMMA StringWritten ==
  ASSUME NEW e \in ElemsOf("string")
  PROVE  WordsOf(CString(e[1][1])) = Words(e[1])
<1>1. PICK t \in Seq(Sendable) : e = <<t>> /\ KindsOf(t) = LayoutOf("string")
  BY SingleElems DEF SingleTypes
<1>2. LayoutOf("string") = <<"str">> /\ <<"str">> \in Seq(Kinds) BY DEF LayoutOf, Kinds
<1>3. PICK x \in Int : t = <<<<"str", x>>>>
  <2>1. Len(KindsOf(t)) = 1 /\ KindsOf(t)[1] = "str" BY <1>1, <1>2
  <2>2. Len(t) = 1 /\ t[1][1] = "str" /\ t[1] \in Sendable
    <3>1. Len(t) = 1 BY <2>1, KindsOfParts
    <3>2. 1 \in 1 .. Len(t) BY <3>1
    <3>3. t[1][1] = "str" BY <2>1, <3>2, KindsOfParts
    <3>4. t[1] \in Sendable BY <3>2, ElementOfSeq
    <3> QED BY <3>1, <3>3, <3>4
  <2>3. t = <<t[1]>> BY <2>2
  <2>4. t[1] = <<"str", t[1][2]>> /\ t[1][2] \in Int BY <2>2 DEF Sendable
  <2> QED BY <2>3, <2>4
<1>4. <<"str", x>> \in Sendable BY DEF Sendable, Kinds
<1>5. e[1] = <<<<"str", x>>>> /\ e[1][1] = <<"str", x>> BY <1>1, <1>3
<1>6. CString(<<"str", x>>) = <<"str", x>> BY DEF CString
<1>7. Words(<<<<"str", x>>>>) = WordsOf(<<"str", x>>) BY <1>4, WordsOne
<1> QED BY <1>5, <1>6, <1>7

LEMMA StringAnswered ==
  ASSUME NEW r \in Responses("string")
  PROVE  Answered("string", r, responseString(r))
<1>1. ASSUME ~r.null PROVE ~r.bad /\ responseString(r) = Written(Words(r.elems[1]))
  <2>1. r.elems \in ElemsOf("string") /\ ~r.bad BY <1>1, ResponsesParts DEF UnsizedTypes
  <2>2. responseString(r) = Written(WordsOf(CString(r.elems[1][1]))) BY <1>1 DEF responseString
  <2> QED BY <2>1, <2>2, StringWritten
<1> QED BY <1>1, SingleAnswered DEF SingleTypes

LEMMA RawAnswered ==
  ASSUME NEW r \in Responses("raw")
  PROVE  Answered("raw", r, responseRaw(r))
<1>1. ASSUME ~r.null PROVE ~r.bad /\ responseRaw(r) = Written(Words(r.elems[1]))
  BY <1>1, ResponsesParts DEF responseRaw, UnsizedTypes
<1> QED BY <1>1, SingleAnswered DEF SingleTypes

LEMMA VoidAnswered ==
  ASSUME NEW r \in Responses("void")
  PROVE  Answered("void", r, responseVoid(r)) /\ r.null
<1>1. r \in {Response(TRUE, FALSE, <<>>)} BY DEF Responses
<1>2. r.null = TRUE BY <1>1 DEF Response
<1> QED BY <1>2 DEF Answered

\* The number of the structures, and what follows it.
LEMMA HeadTail ==
  ASSUME NEW T, NEW n \in T, NEW w \in Seq(T)
  PROVE  /\ <<n>> \o w \in Seq(T) /\ (<<n>> \o w)[1] = n /\ Tail(<<n>> \o w) = w
         /\ Len(<<n>> \o w) = Len(w) + 1
<1> DEFINE one == <<n>>
           p == one \o w
           m == Len(w)
<1>1. one \in Seq(T) /\ Len(one) = 1 /\ one[1] = n OBVIOUS
<1> HIDE DEF one
<1>2. /\ m \in Nat /\ p \in Seq(T) /\ Len(p) = 1 + m
      /\ \A i \in 1 .. 1 + m : p[i] = IF i <= 1 THEN one[i] ELSE w[i - 1]
  <2>1. p \in Seq(T) /\ Len(p) = Len(one) + Len(w) BY <1>1, ConcatProperties
  <2>2. \A i \in 1 .. Len(one) + Len(w) :
           p[i] = IF i <= Len(one) THEN one[i] ELSE w[i - Len(one)]
    BY <1>1, ConcatProperties
  <2>3. Len(w) \in Nat BY LenProperties
  <2> QED BY <1>1, <2>1, <2>2, <2>3
<1>3. p[1] = n BY <1>1, <1>2
<1>4. p # <<>> BY <1>2, EmptySeq
<1> HIDE DEF p
<1>5. Tail(p) \in Seq(T) /\ Len(Tail(p)) = m /\ \A i \in 1 .. m : Tail(p)[i] = p[i + 1]
  BY <1>2, <1>4, HeadTailProperties
<1>6. \A i \in 1 .. m : i + 1 \in 1 .. 1 + m /\ ~(i + 1 <= 1) /\ (i + 1) - 1 = i BY <1>2
<1>7. \A i \in 1 .. m : Tail(p)[i] = w[i] BY <1>2, <1>5, <1>6
<1>8. Tail(p) = w BY <1>5, <1>7, SeqEqual
<1> QED BY <1>2, <1>3, <1>8 DEF p, one, m

LEMMA ReadCounted ==
  ASSUME NEW type, NEW ws \in Seq(Seq(Int)), NEW es \in Seq(Seq(Sendable)), Len(es) = Len(ws),
         \A i \in 1 .. Len(ws) : ReadsAs(type, ws[i], es[i]),
         NEW p, p = <<Len(ws)>> \o Concat(ws)
  PROVE  p \in Seq(Int) /\ ReadList(type, Start(Tail(p)), p[1]) = es
<1> DEFINE n == Len(ws)
           w == Concat(ws)
           r == Start(w)
<1>1. n \in Int /\ w \in Seq(Int) BY LenProperties, ConcatIsSeq
<1>2. p \in Seq(Int) /\ p[1] = n /\ Tail(p) = w
  <2> HIDE DEF n, w
  <2>1. p = <<n>> \o w BY DEF n, w
  <2> QED BY <1>1, <2>1, HeadTail
<1>3. FedAt(r, w, <<>>) BY <1>1, StartFed
<1> HIDE DEF r
<1>4. ReadList(type, r, n) = es BY <1>3, FedList
<1> QED BY <1>2, <1>4 DEF r

LEMMA StructureReads ==
  ASSUME NEW type, NEW x \in Seq(Sendable), NEW kinds, KindsOf(x) = kinds,
         \A q \in Readers : ReadOne(type, q) = Run(q, kinds)
  PROVE  ReadsAs(type, Words(x), x)
<1> SUFFICES ASSUME NEW q \in Readers, NEW t \in Seq(Int), FedAt(q, Words(x) \o t, <<>>)
             PROVE  FedAt(ReadOne(type, q), t, x)
  BY DEF ReadsAs
<1>1. FedAt(Run(q, KindsOf(x)), t, <<>> \o x) BY FedValues
<1>2. <<>> \o x = x BY ConcatEmptySeq
<1> QED BY <1>1, <1>2

\* A list of structures of one layout.
LEMMA ListedRead ==
  ASSUME NEW type, NEW es \in Seq(Seq(Sendable)), NEW kinds,
         \A i \in 1 .. Len(es) : KindsOf(es[i]) = kinds,
         \A q \in Readers : ReadOne(type, q) = Run(q, kinds),
         NEW p, p = <<Len(es)>> \o AllWords(es)
  PROVE  p \in Seq(Int) /\ ReadList(type, Start(Tail(p)), p[1]) = es
<1> DEFINE ws == [i \in DOMAIN es |-> Words(es[i])]
<1>1. /\ ws \in Seq(Seq(Int)) /\ Len(ws) = Len(es)
      /\ \A i \in 1 .. Len(es) : ws[i] = Words(es[i])
  BY AllWordsParts
<1>2. AllWords(es) = Concat(ws) BY DEF AllWords
<1> HIDE DEF ws
<1>3. ASSUME NEW i \in 1 .. Len(es) PROVE ReadsAs(type, ws[i], es[i])
  <2>1. es[i] \in Seq(Sendable) /\ KindsOf(es[i]) = kinds BY ElementOfSeq
  <2>2. ReadsAs(type, Words(es[i]), es[i]) BY <2>1, StructureReads
  <2> QED BY <1>1, <2>2
<1>4. p = <<Len(ws)>> \o Concat(ws) BY <1>1, <1>2
<1> QED BY <1>1, <1>3, <1>4, ReadCounted

\* The structures of a list that the client reads by their layout.
StructureLists == {"RIL_Data_Call_Response[]", "RIL_CallForwardInfo**",
                   "RIL_GSM_BroadcastSmsConfigInfo**", "RIL_CDMA_BroadcastSmsConfigInfo**"}

ListTypes == {"strings", "ints"} \cup StructureLists

LEMMA ListLayouts ==
  /\ LayoutOf("strings") = <<"str">> /\ LayoutOf("ints") = <<"int">>
  /\ \A type \in StructureLists : LayoutOf(type) \in Seq(Kinds)
<1>1. LayoutOf("strings") = <<"str">> /\ LayoutOf("ints") = <<"int">> BY DEF LayoutOf
<1>2. LayoutOf("RIL_Data_Call_Response[]") \in Seq(Kinds)
  BY DEF LayoutOf, RIL_Data_Call_Response, Kinds
<1>3. LayoutOf("RIL_CallForwardInfo**") \in Seq(Kinds)
  BY DEF LayoutOf, RIL_CallForwardInfo, Kinds
<1>4. LayoutOf("RIL_GSM_BroadcastSmsConfigInfo**") \in Seq(Kinds)
  BY DEF LayoutOf, RIL_GSM_BroadcastSmsConfigInfo, Kinds
<1>5. LayoutOf("RIL_CDMA_BroadcastSmsConfigInfo**") \in Seq(Kinds)
  BY DEF LayoutOf, RIL_CDMA_BroadcastSmsConfigInfo, Kinds
<1> QED BY <1>1, <1>2, <1>3, <1>4, <1>5 DEF StructureLists

LEMMA SinglesKinds ==
  ASSUME NEW kind \in {"str", "int"}, NEW e \in ListsOf(kind)
  PROVE  e \in Seq(Seq(Sendable)) /\ \A i \in 1 .. Len(e) : KindsOf(e[i]) = <<kind>>
<1>1. PICK t \in Seq(Sendable) :
        /\ e = Singles(t) /\ e \in Seq(Seq(Sendable)) /\ Len(e) = Len(t)
        /\ KindsOf(t) = Repeat(Len(t), kind) /\ Len(t) \in Nat
  BY ListData
<1>2. \A i \in 1 .. Len(t) : e[i] = <<t[i]>> /\ t[i] \in Sendable
  BY <1>1, SinglesParts, ElementOfSeq
<1>3. \A i \in 1 .. Len(t) : t[i][1] = kind
  <2>1. \A i \in 1 .. Len(t) : KindsOf(t)[i] = t[i][1] BY KindsOfParts
  <2>2. \A i \in 1 .. Len(t) : Repeat(Len(t), kind)[i] = kind BY <1>1 DEF Repeat
  <2> QED BY <1>1, <2>1, <2>2
<1>4. ASSUME NEW i \in 1 .. Len(t) PROVE KindsOf(e[i]) = <<kind>>
  <2>1. e[i] = <<t[i]>> /\ t[i] \in Sendable /\ t[i][1] = kind BY <1>2, <1>3
  <2>2. t[i] = <<t[i][1], t[i][2]>> /\ t[i][2] \in Int BY <2>1 DEF Sendable
  <2>3. kind \in Kinds BY DEF Kinds
  <2> DEFINE x == t[i][2]
  <2> HIDE DEF x
  <2>4. KindsOf(<<<<kind, x>>>>) = <<kind>> BY <2>2, <2>3, OneKind DEF x
  <2> QED BY <2>1, <2>2, <2>4 DEF x
<1> QED BY <1>1, <1>4

LEMMA ArrayKinds ==
  ASSUME NEW layout \in Seq(Kinds), NEW e \in ArraysOf(Tuples(layout))
  PROVE  e \in Seq(Seq(Sendable)) /\ \A i \in 1 .. Len(e) : KindsOf(e[i]) = layout
<1>1. /\ e \in Seq(Seq(Sendable))
      /\ \A i \in 1 .. Len(e) : /\ e[i] \in Seq(Sendable) /\ Len(e[i]) = Len(layout)
                                /\ \A j \in 1 .. Len(layout) : e[i][j][1] = layout[j]
  BY ArrayParts
<1>2. ASSUME NEW i \in 1 .. Len(e) PROVE KindsOf(e[i]) = layout
  <2> DEFINE x == e[i]
  <2>1. /\ x \in Seq(Sendable) /\ Len(x) = Len(layout)
        /\ \A j \in 1 .. Len(layout) : x[j][1] = layout[j]
    BY <1>1
  <2> HIDE DEF x
  <2>2. KindsOf(x) = layout BY <2>1, KindsOfAre
  <2> QED BY <2>2 DEF x
<1> QED BY <1>1, <1>2

LEMMA ListElems ==
  ASSUME NEW type \in ListTypes, NEW e \in ElemsOf(type)
  PROVE  e \in Seq(Seq(Sendable)) /\ \A i \in 1 .. Len(e) : KindsOf(e[i]) = LayoutOf(type)
<1>1. CASE type = "strings"
  <2>1. e \in ListsOf("str") BY <1>1 DEF ElemsOf, Arrays
  <2> QED BY <1>1, <2>1, ListLayouts, SinglesKinds
<1>2. CASE type = "ints"
  <2>1. e \in ListsOf("int") BY <1>2 DEF ElemsOf, Arrays
  <2> QED BY <1>2, <2>1, ListLayouts, SinglesKinds
<1>3. CASE type \in StructureLists
  <2>1. type \in Arrays \ {"strings", "ints"}
        /\ type \notin {"void", "RIL_Dial", "RIL_CDMA_SMS_Message", "RIL_CDMA_SMS_WriteArgs",
                        "RIL_Call**", "RIL_CardStatus", "RIL_SignalStrength",
                        "RIL_CDMA_InformationRecords"}
    BY <1>3 DEF StructureLists, Arrays
  <2>2. e \in ArraysOf(Tuples(LayoutOf(type))) BY <2>1 DEF ElemsOf
  <2> QED BY <1>3, <2>2, ListLayouts, ArrayKinds
<1> QED BY <1>1, <1>2, <1>3 DEF ListTypes

LEMMA ListRead ==
  ASSUME NEW type \in ListTypes, NEW e \in ElemsOf(type), NEW w, w = <<Len(e)>> \o AllWords(e)
  PROVE  w \in Seq(Int) /\ ReadBack(type, w) = e
<1>1. type \in Arrays \ {"RIL_NeighboringCell**"}
      /\ type \notin {"void", "RIL_Call**", "RIL_CardStatus", "RIL_CDMA_SMS_Message",
                      "RIL_CDMA_InformationRecords", "RIL_NeighboringCell**"}
  BY DEF ListTypes, StructureLists, Arrays
<1>2. ReadBack(type, w) = ReadList(type, Start(Tail(w)), w[1]) BY <1>1 DEF ReadBack
<1>3. \A q \in Readers : ReadOne(type, q) = Run(q, LayoutOf(type)) BY <1>1 DEF ReadOne
<1>4. w \in Seq(Int) /\ ReadList(type, Start(Tail(w)), w[1]) = e BY <1>3, ListElems, ListedRead
<1> QED BY <1>2, <1>4

LEMMA ListAnswered ==
  ASSUME NEW type \in ListTypes, NEW r \in Responses(type), NEW f,
         r.bad /\ ~r.null => f = INVALID_RESPONSE,
         ~r.bad /\ ~r.null => f = Written(<<Len(r.elems)>> \o AllWords(r.elems))
  PROVE  Answered(type, r, f)
<1> SUFFICES ASSUME ~r.null
             PROVE  /\ WellFormed(type, r) => /\ f.ret = 0 /\ f.w \in Seq(Int)
                                              /\ ReadBack(type, f.w) = Reported(type, r)
                    /\ ~WellFormed(type, r) => f.ret = -1 /\ f.w = <<>>
  BY DEF Answered
<1>1. type \notin {"void", "RIL_CDMA_InformationRecords", "RIL_Call**", "RIL_SignalStrength"}
  BY DEF ListTypes, StructureLists
<1>2. WellFormed(type, r) = ~r.bad /\ Reported(type, r) = r.elems
  BY <1>1 DEF WellFormed, Reported
<1>3. r.elems \in ElemsOf(type) BY <1>1, ResponsesParts
<1>4. CASE ~r.bad
  <2> DEFINE w == <<Len(r.elems)>> \o AllWords(r.elems)
  <2>1. w \in Seq(Int) /\ ReadBack(type, w) = r.elems BY <1>3, ListRead
  <2> HIDE DEF w
  <2>2. f.ret = 0 /\ f.w = w BY <1>4, WrittenParts DEF w
  <2> QED BY <1>2, <1>4, <2>1, <2>2
<1>5. CASE r.bad BY <1>2, <1>5, WrittenParts
<1> QED BY <1>4, <1>5

LEMMA ListedFunction ==
  ASSUME NEW r, NEW words
  PROVE  /\ r.bad => Listed(r, words) = INVALID_RESPONSE
         /\ ~r.bad => Listed(r, words) = Written(<<Len(r.elems)>> \o words)
BY DEF Listed

LEMMA StringsAnswered ==
  ASSUME NEW r \in Responses("strings")
  PROVE  Answered("strings", r, responseStrings(r))
<1>1. responseStrings(r) = Listed(r, AllWords(r.elems)) BY DEF responseStrings
<1> QED BY <1>1, ListedFunction, ListAnswered DEF ListTypes

LEMMA DataCallListAnswered ==
  ASSUME NEW r \in Responses("RIL_Data_Call_Response[]")
  PROVE  Answered("RIL_Data_Call_Response[]", r, responseDataCallList(r))
<1>1. responseDataCallList(r) = Listed(r, AllWords(r.elems)) BY DEF responseDataCallList
<1> QED BY <1>1, ListedFunction, ListAnswered DEF ListTypes, StructureLists

LEMMA CallForwardsAnswered ==
  ASSUME NEW r \in Responses("RIL_CallForwardInfo**")
  PROVE  Answered("RIL_CallForwardInfo**", r, responseCallForwards(r))
<1>1. responseCallForwards(r) = Listed(r, AllWords(r.elems)) BY DEF responseCallForwards
<1> QED BY <1>1, ListedFunction, ListAnswered DEF ListTypes, StructureLists

LEMMA GsmBrSmsCnfAnswered ==
  ASSUME NEW r \in Responses("RIL_GSM_BroadcastSmsConfigInfo**")
  PROVE  Answered("RIL_GSM_BroadcastSmsConfigInfo**", r, responseGsmBrSmsCnf(r))
<1>1. ~r.null => ~r.bad BY ResponsesParts DEF UnsizedTypes
<1> QED BY <1>1, ListAnswered DEF responseGsmBrSmsCnf, ListTypes, StructureLists

LEMMA CdmaBrSmsCnfAnswered ==
  ASSUME NEW r \in Responses("RIL_CDMA_BroadcastSmsConfigInfo**")
  PROVE  Answered("RIL_CDMA_BroadcastSmsConfigInfo**", r, responseCdmaBrSmsCnf(r))
<1>1. ~r.null => ~r.bad BY ResponsesParts DEF UnsizedTypes
<1> QED BY <1>1, ListAnswered DEF responseCdmaBrSmsCnf, ListTypes, StructureLists

\* sizeof(int *) is four in this build: all the ints are written.
LEMMA IntsAnswered ==
  ASSUME NEW r \in Responses("ints"), PtrSize = 4
  PROVE  Answered("ints", r, responseInts(r))
<1> DEFINE e == r.elems
           n == Len(e)
           k == (4 * n) \div PtrSize
<1>1. responseInts(r) = IF r.bad THEN INVALID_RESPONSE
                        ELSE Written(<<k>> \o AllWords(SubSeq(e, 1, k)))
  BY DEF responseInts
<1>2. ASSUME ~r.null, ~r.bad PROVE responseInts(r) = Written(<<n>> \o AllWords(e))
  <2>1. e \in ElemsOf("ints") BY <1>2, ResponsesParts
  <2>2. e \in Seq(Seq(Sendable)) BY <2>1, ListElems DEF ListTypes
  <2>3. n \in Nat /\ SubSeq(e, 1, n) = e BY <2>2, LenProperties, SubSeqWhole
  <2>4. k = n
    <3> HIDE DEF n
    <3> QED BY <2>3
  <2> QED BY <1>1, <1>2, <2>3, <2>4
<1> QED BY <1>1, <1>2, ListAnswered DEF ListTypes

\* A response whose length alone may be wrong.
LEMMA SizedAnswered ==
  ASSUME NEW type, type \notin {"void", "RIL_CDMA_InformationRecords"}, NEW r \in Responses(type),
         NEW f, NEW w, r.bad /\ ~r.null => f = INVALID_RESPONSE,
         ~r.bad /\ ~r.null => /\ f = Written(w) /\ w \in Seq(Int)
                              /\ ReadBack(type, w) = Reported(type, r)
  PROVE  Answered(type, r, f)
<1>1. WellFormed(type, r) = ~r.bad BY DEF WellFormed
<1>2. CASE ~r.bad BY <1>1, <1>2, WrittenParts DEF Answered
<1>3. CASE r.bad BY <1>1, <1>3, WrittenParts DEF Answered
<1> QED BY <1>2, <1>3

CellType == "RIL_NeighboringCell**"

LEMMA CellElems ==
  ASSUME NEW e \in ElemsOf(CellType)
  PROVE  /\ e \in Seq(Seq(Sendable)) /\ Len(e) \in Nat
         /\ \A i \in 1 .. Len(e) : /\ e[i] = <<e[i][1], e[i][2]>>
                                   /\ e[i][1] \in Sendable /\ e[i][1][1] = "str"
                                   /\ e[i][2] \in Sendable /\ e[i][2][1] = "int"
<1>1. LayoutOf(CellType) = <<"str", "int">> BY DEF LayoutOf, CellType, RIL_NeighboringCell
<1> DEFINE kinds == <<"str", "int">>
<1>2. kinds \in Seq(Kinds) /\ Len(kinds) = 2 /\ kinds[1] = "str" /\ kinds[2] = "int"
  BY DEF Kinds
<1> HIDE DEF kinds
<1>3. e \in ArraysOf(Tuples(kinds))
  <2>1. CellType \in Arrays \ {"strings", "ints"}
        /\ CellType \notin {"void", "RIL_Dial", "RIL_CDMA_SMS_Message", "RIL_CDMA_SMS_WriteArgs",
                            "RIL_Call**", "RIL_CardStatus", "RIL_SignalStrength",
                            "RIL_CDMA_InformationRecords", "strings", "ints"}
    BY DEF CellType, Arrays
  <2> QED BY <1>1, <2>1 DEF ElemsOf, kinds
<1>4. /\ e \in Seq(Seq(Sendable)) /\ Len(e) \in Nat
      /\ \A i \in 1 .. Len(e) : /\ e[i] \in Seq(Sendable) /\ Len(e[i]) = Len(kinds)
                                /\ \A j \in 1 .. Len(kinds) : e[i][j][1] = kinds[j]
  BY <1>2, <1>3, ArrayParts
<1>5. ASSUME NEW i \in 1 .. Len(e)
      PROVE  /\ e[i] = <<e[i][1], e[i][2]>>
             /\ e[i][1] \in Sendable /\ e[i][1][1] = "str"
             /\ e[i][2] \in Sendable /\ e[i][2][1] = "int"
  <2> DEFINE x == e[i]
  <2>1. x \in Seq(Sendable) /\ Len(x) = 2 /\ x[1][1] = "str" /\ x[2][1] = "int"
    BY <1>2, <1>4
  <2> HIDE DEF x
  <2>2. x = <<x[1], x[2]>> /\ x[1] \in Sendable /\ x[2] \in Sendable BY <2>1
  <2> QED BY <2>1, <2>2 DEF x
<1> QED BY <1>4, <1>5

LEMMA CellListAnswered ==
  ASSUME NEW r \in Responses(CellType)
  PROVE  Answered(CellType, r, responseCellList(r))
<1> DEFINE e == r.elems
           s == Swapped(e)
           w == <<Len(e)>> \o AllWords(s)
           kinds == <<"int", "str">>
<1>1. r.bad => responseCellList(r) = INVALID_RESPONSE BY DEF responseCellList, Listed
<1>2. ~r.bad => responseCellList(r) = Written(w) BY DEF responseCellList, Listed
<1>3. ASSUME ~r.null PROVE w \in Seq(Int) /\ ReadBack(CellType, w) = Reported(CellType, r)
  <2>1. e \in ElemsOf(CellType) BY <1>3, ResponsesParts DEF CellType
  <2> HIDE DEF e
  <2>2. /\ e \in Seq(Seq(Sendable)) /\ Len(e) \in Nat
        /\ \A i \in 1 .. Len(e) : /\ e[i] = <<e[i][1], e[i][2]>>
                                  /\ e[i][1] \in Sendable /\ e[i][1][1] = "str"
                                  /\ e[i][2] \in Sendable /\ e[i][2][1] = "int"
    BY <2>1, CellElems
  <2>3. DOMAIN e = 1 .. Len(e) BY <2>2
  <2>4. \A i \in 1 .. Len(e) : s[i] = <<e[i][2], e[i][1]>> BY <2>3 DEF Swapped
  <2>5. ASSUME NEW i \in 1 .. Len(e) PROVE s[i] \in Seq(Sendable) /\ KindsOf(s[i]) = kinds
    <3> DEFINE x == s[i]
    <3>1. x = <<e[i][2], e[i][1]>> BY <2>4
    <3>2. e[i][1] \in Sendable /\ e[i][1][1] = "str" /\ e[i][2] \in Sendable /\ e[i][2][1] = "int"
      BY <2>2
    <3> HIDE DEF x
    <3>3. x \in Seq(Sendable) /\ Len(x) = 2 /\ x[1][1] = "int" /\ x[2][1] = "str" BY <3>1, <3>2
    <3>4. kinds \in Seq(Kinds) /\ Len(kinds) = 2 /\ kinds[1] = "int" /\ kinds[2] = "str"
      BY DEF Kinds
    <3> HIDE DEF kinds
    <3>5. \A j \in 1 .. 2 : j = 1 \/ j = 2 OBVIOUS
    <3>6. KindsOf(x) = kinds BY <3>3, <3>4, <3>5, KindsOfAre
    <3> QED BY <3>3, <3>6 DEF x
  <2>6. s \in Seq(Seq(Sendable)) /\ Len(s) = Len(e)
    <3> DEFINE n == Len(e)
               T == Seq(Sendable)
    <3>1. n \in Nat /\ \A i \in 1 .. n : s[i] \in T BY <2>2, <2>5
    <3>2. s = [i \in 1 .. n |-> <<e[i][2], e[i][1]>>] BY <2>3 DEF Swapped
    <3>3. s = [i \in 1 .. n |-> s[i]] BY <3>2
    <3> HIDE DEF n, T, s
    <3>4. s \in Seq(T) /\ Len(s) = n BY <3>1, <3>3, MadeSeq
    <3> QED BY <3>4 DEF n, T
  <2>7. Swapped(s) = e
    <3>1. DOMAIN s = 1 .. Len(e) BY <2>3 DEF Swapped
    <3>2. Swapped(s) = [i \in 1 .. Len(e) |-> <<s[i][2], s[i][1]>>] BY <3>1 DEF Swapped
    <3>3. \A i \in 1 .. Len(e) : <<s[i][2], s[i][1]>> = e[i] BY <2>2, <2>4
    <3>4. e = [i \in 1 .. Len(e) |-> e[i]] BY <2>2
    <3> QED BY <3>2, <3>3, <3>4
  <2> HIDE DEF s
  <2>8. \A q \in Readers : ReadOne(CellType, q) = Run(q, kinds) BY DEF ReadOne, CellType
  <2> HIDE DEF kinds
  <2>9. w \in Seq(Int) /\ ReadList(CellType, Start(Tail(w)), w[1]) = s
    BY <2>5, <2>6, <2>8, ListedRead
  <2>10. ReadBack(CellType, w) = Swapped(ReadList(CellType, Start(Tail(w)), w[1]))
    BY DEF ReadBack, CellType
  <2>11. Reported(CellType, r) = e BY DEF Reported, CellType, e
  <2> QED BY <2>7, <2>9, <2>10, <2>11
<1> HIDE DEF w
<1>4. CellType \notin {"void", "RIL_CDMA_InformationRecords"} BY DEF CellType
<1> QED BY <1>1, <1>2, <1>3, <1>4, SizedAnswered

\* What a client is to read of the call c, written w: the members t, a flag and the UUS
\* information u, if any.
ReportedCall(c) ==
  IF version < 3 \/ c[Len(c)] = <<"raw", -1>> THEN SubSeq(c, 1, 12) ELSE c

CallIs(w, m, t, f, u) ==
  /\ t \in Seq(Sendable) /\ u \in Seq(Sendable) /\ KindsOf(t) = RIL_Call
  /\ w = Words(t) \o (<<f>> \o Words(u))
  /\ \/ f = 0 /\ u = <<>> /\ m = t
     \/ f = 1 /\ KindsOf(u) = RIL_UUS_Info /\ m = t \o u

LEMMA CallLayouts ==
  /\ RIL_Call \in Seq(Kinds) /\ Len(RIL_Call) = 12 /\ RIL_Call[12] = "int"
  /\ RIL_UUS_Info \in Seq(Kinds) /\ Len(RIL_UUS_Info) = 3 /\ RIL_UUS_Info[3] = "raw"
BY DEF RIL_Call, RIL_UUS_Info, Kinds

LEMMA CallData ==
  ASSUME version \in {2, 3}, NEW t \in Tuples(RIL_Call), NEW c \in WithUus(t)
  PROVE  \E f, u : CallIs(CallWords(c), ReportedCall(c), t, f, u)
<1> DEFINE w == CallWords(c)
           m == ReportedCall(c)
           none == Words(t) \o <<0>>
<1>1. t \in Seq(Sendable) /\ Len(t) = 12 /\ KindsOf(t) = RIL_Call /\ t[12][1] = "int"
  <2>1. t \in Seq(Sendable) /\ Len(t) = Len(RIL_Call)
        /\ \A i \in 1 .. Len(RIL_Call) : t[i][1] = RIL_Call[i]
    BY CallLayouts, TuplesParts
  <2>2. KindsOf(t) = RIL_Call BY <2>1, CallLayouts, KindsOfAre
  <2> QED BY <2>1, <2>2, CallLayouts
<1>2. none = Words(t) \o (<<0>> \o Words(<<>>))
  <2>1. <<0>> \in Seq(Int) OBVIOUS
  <2> QED BY <2>1, WordsNothing, ConcatEmptySeq
<1> HIDE DEF none
<1>3. ASSUME w = none, m = t PROVE CallIs(w, m, t, 0, <<>>)
  <2>1. <<>> \in Seq(Sendable) OBVIOUS
  <2> QED BY <1>1, <1>2, <1>3, <2>1, Zenon DEF CallIs
<1>4. ASSUME c = t PROVE w = none /\ m = t
  <2>1. Len(c) = 12 /\ SubSeq(c, 1, 12) = t BY <1>1, <1>4, SubSeqWhole
  <2>2. ~(Len(c) > Len(RIL_Call)) BY <2>1, CallLayouts
  <2>3. c[Len(c)] # <<"raw", -1>>
    <3>1. c[Len(c)][1] = "int" BY <1>1, <1>4, <2>1
    <3> DEFINE last == c[Len(c)]
    <3> HIDE DEF last
    <3>2. last[1] # "raw" BY <3>1 DEF last
    <3>3. last # <<"raw", -1>> BY <3>2
    <3> QED BY <3>3 DEF last
  <2> QED BY <1>4, <2>1, <2>2, <2>3 DEF CallWords, ReportedCall, none
<1>5. ASSUME NEW u \in Tuples(RIL_UUS_Info), c = t \o u
      PROVE  (w = none /\ m = t) \/ CallIs(w, m, t, 1, u)
  <2>1. u \in Seq(Sendable) /\ Len(u) = 3 /\ KindsOf(u) = RIL_UUS_Info
        /\ u[3] = <<"raw", u[3][2]>>
    <3>1. u \in Seq(Sendable) /\ Len(u) = Len(RIL_UUS_Info)
          /\ \A i \in 1 .. Len(RIL_UUS_Info) : u[i][1] = RIL_UUS_Info[i]
      BY CallLayouts, TuplesParts
    <3>2. KindsOf(u) = RIL_UUS_Info BY <3>1, CallLayouts, KindsOfAre
    <3>3. u[3] \in Sendable /\ u[3][1] = "raw"
      <4>1. 3 \in 1 .. 3 /\ Len(u) = 3 BY <3>1, CallLayouts
      <4>2. \A i \in 1 .. Len(u) : u[i] \in Sendable BY <3>1, ElementOfSeq
      <4>3. u[3] \in Sendable BY <4>1, <4>2
      <4> QED BY <3>1, <4>1, <4>3, CallLayouts
    <3>4. u[3] = <<u[3][1], u[3][2]>> BY <3>3 DEF Sendable
    <3> QED BY <3>1, <3>2, <3>3, <3>4, CallLayouts
  <2>2. /\ Len(c) = Len(t) + Len(u)
        /\ \A i \in 1 .. Len(t) + Len(u) : c[i] = IF i <= Len(t) THEN t[i] ELSE u[i - Len(t)]
    BY <1>1, <1>5, <2>1, ConcatProperties
  <2>3. Len(c) = 15 /\ c[Len(c)] = u[3]
    <3>1. 15 \in 1 .. 15 /\ ~(15 <= 12) /\ 15 - 12 = 3 /\ 12 + 3 = 15 OBVIOUS
    <3>2. Len(t) + Len(u) = 15 BY <1>1, <2>1
    <3>3. Len(c) = 15 BY <2>2, <3>2
    <3>4. c[15] = u[15 - 12] BY <1>1, <2>2, <3>1, <3>2
    <3> QED BY <3>1, <3>3, <3>4
  <2>4. SubSeq(c, 1, 12) = t /\ SubSeq(c, 13, 15) = u
    <3>1. SubSeq(t \o u, 1, Len(t)) = t /\ SubSeq(t \o u, Len(t) + 1, Len(t) + Len(u)) = u
      BY <1>1, <2>1, ConcatSplit
    <3>2. Len(t) + 1 = 13 /\ Len(t) + Len(u) = 15 BY <1>1, <2>1
    <3> QED BY <1>1, <1>5, <3>1, <3>2
  <2> DEFINE uus == version >= 3 /\ c[Len(c)][2] # -1
  <2>5. w = Words(t) \o (IF uus THEN <<1>> \o Words(u) ELSE <<0>>)
    <3>1. Len(c) > Len(RIL_Call) BY <2>3, CallLayouts
    <3> QED BY <2>4, <3>1 DEF CallWords
  <2>6. c[Len(c)] = <<"raw", -1>> <=> c[Len(c)][2] = -1 BY <2>1, <2>3
  <2>7. m = IF uus THEN c ELSE t
    <3>1. version < 3 <=> ~(version >= 3) OBVIOUS
    <3> QED BY <2>4, <2>6, <3>1 DEF ReportedCall
  <2> HIDE DEF uus, w, m
  <2>8. CASE uus BY <1>1, <1>5, <2>1, <2>5, <2>7, <2>8, Zenon DEF CallIs
  <2>9. CASE ~uus BY <2>5, <2>7, <2>9 DEF none
  <2> QED BY <2>8, <2>9
<1>6. c = t \/ \E u \in Tuples(RIL_UUS_Info) : c = t \o u BY DEF WithUus
<1> QED BY <1>3, <1>4, <1>5, <1>6

LEMMA CallReads ==
  ASSUME NEW w, NEW m, NEW t, NEW f, NEW u, CallIs(w, m, t, f, u)
  PROVE  ReadsAs("RIL_Call**", w, m) /\ w \in Seq(Int) /\ m \in Seq(Sendable)
<1>1. /\ t \in Seq(Sendable) /\ u \in Seq(Sendable) /\ KindsOf(t) = RIL_Call
      /\ w = Words(t) \o (<<f>> \o Words(u)) /\ f \in {0, 1} /\ f \in Int
      /\ f = 0 => u = <<>> /\ m = t
      /\ f # 0 => KindsOf(u) = RIL_UUS_Info /\ m = t \o u
  BY DEF CallIs
<1> DEFINE v == <<"int", f>>
           tv == t \o <<v>>
           kinds == RIL_Call \o <<"int">>
<1>2. v \in Sendable /\ WordsOf(v) = <<f>> /\ v[1] = "int" /\ v[2] = f
  BY <1>1 DEF Sendable, Kinds, WordsOf
<1> HIDE DEF v
<1>3. /\ <<v>> \in Seq(Sendable) /\ Words(<<v>>) = <<f>> /\ KindsOf(<<v>>) = <<"int">>
  <2>1. <<v>> \in Seq(Sendable) /\ Words(<<v>>) = <<f>> BY <1>2, WordsOne
  <2>2. "int" \in Kinds BY DEF Kinds
  <2>3. KindsOf(<<<<"int", f>>>>) = <<"int">> BY <1>1, <2>2, OneKind
  <2> QED BY <2>1, <2>3 DEF v
<1>4. tv \in Seq(Sendable) /\ KindsOf(tv) = kinds /\ tv = Append(t, v)
      /\ Words(tv) = Words(t) \o <<f>> /\ kinds \in Seq(Kinds)
  <2>1. tv \in Seq(Sendable) BY <1>1, <1>3, ConcatProperties
  <2>2. KindsOf(tv) = kinds BY <1>1, <1>3, KindsOfBoth
  <2>3. tv = Append(t, v) BY <1>1, <1>2, AppendIsConcat
  <2>4. Words(tv) = Words(t) \o <<f>> BY <1>1, <1>3, WordsConcat
  <2> HIDE DEF tv, kinds
  <2>5. kinds \in Seq(Kinds) BY <2>1, <2>2, KindsOfParts
  <2> QED BY <2>1, <2>2, <2>3, <2>4, <2>5
<1> HIDE DEF tv, kinds
<1>5. w = Words(tv) \o Words(u) /\ w \in Seq(Int) /\ Words(tv) \in Seq(Int) /\ Words(u) \in Seq(Int)
  <2>1. Words(t) \in Seq(Int) /\ Words(u) \in Seq(Int) /\ <<f>> \in Seq(Int)
    BY <1>1, WordsIsSeq
  <2>2. Words(tv) \in Seq(Int) BY <1>4, WordsIsSeq
  <2>3. w = (Words(t) \o <<f>>) \o Words(u) BY ZenonT(30), <1>1, <2>1, ConcatInts
  <2> QED BY <1>4, <2>1, <2>2, <2>3, ConcatProperties
<1>6. m \in Seq(Sendable)
  <2>1. CASE f = 0 BY <1>1, <2>1
  <2>2. CASE f # 0 BY <1>1, <2>2, ConcatProperties
  <2> QED BY <2>1, <2>2
<1>7. ASSUME NEW q \in Readers, NEW s \in Seq(Int), FedAt(q, w \o s, <<>>)
      PROVE  FedAt(ReadOne("RIL_Call**", q), s, m)
  <2> DEFINE c == Run(q, kinds)
             more == Words(u) \o s
  <2>1. w \o s = Words(tv) \o more /\ more \in Seq(Int) BY SMTT(30), <1>5, ConcatInts
  <2> HIDE DEF more
  <2>2. FedAt(c, more, <<>> \o tv) BY <1>4, <1>7, <2>1, FedMore
  <2>3. <<>> \o tv = Append(t, v) BY <1>4, ConcatEmptySeq
  <2> HIDE DEF c
  <2>4. FedAt(Drop(c), more, t) /\ Last(c) = f
    <3>1. t \in Seq(Values) /\ v \in Values
      <4> DEFINE A == Sendable
                 B == Values
      <4>1. A \subseteq B /\ t \in Seq(A) /\ v \in A BY <1>1, <1>2, SendableValues
      <4> HIDE DEF A, B
      <4> QED BY <4>1 DEF B
    <3>2. FedAt(c, more, Append(t, v)) BY <2>2, <2>3
    <3> QED BY SMTT(30), <1>2, <3>1, <3>2, FedDrop
  <2>5. ReadOne("RIL_Call**", q) = IF Last(c) = 0 THEN Drop(c) ELSE Run(Drop(c), RIL_UUS_Info)
    BY DEF ReadOne, ReadCall, c, kinds
  <2>6. CASE f = 0
    <3>1. more = s BY <1>1, <2>6, WordsNothing, ConcatEmptySeq DEF more
    <3> QED BY <1>1, <2>4, <2>5, <2>6, <3>1
  <2>7. CASE f # 0
    <3>1. FedAt(Drop(c), Words(u) \o s, t) BY <2>4 DEF more
    <3>2. FedAt(Run(Drop(c), RIL_UUS_Info), s, t \o u)
      BY <1>1, <2>7, <3>1, CallLayouts, FedMore
    <3> QED BY <1>1, <2>4, <2>5, <2>7, <3>2
  <2> QED BY <2>6, <2>7
<1> QED BY <1>5, <1>6, <1>7 DEF ReadsAs

LEMMA CallListAnswered ==
  ASSUME version \in {2, 3}, NEW r \in Responses("RIL_Call**")
  PROVE  Answered("RIL_Call**", r, responseCallList(r))
<1> DEFINE type == "RIL_Call**"
           e == r.elems
           n == Len(e)
           ws == [i \in DOMAIN e |-> CallWords(e[i])]
           es == [i \in DOMAIN e |-> ReportedCall(e[i])]
           w == <<n>> \o Concat(ws)
<1>1. r.bad => responseCallList(r) = INVALID_RESPONSE BY DEF responseCallList, Listed
<1>2. ~r.bad => responseCallList(r) = Written(w) BY DEF responseCallList, Listed
<1>3. ASSUME ~r.null PROVE w \in Seq(Int) /\ ReadBack(type, w) = Reported(type, r)
  <2>1. e \in ElemsOf(type) BY <1>3, ResponsesParts
  <2>2. PICK k \in 0 .. ArrayMax : e \in [1 .. k -> UNION {WithUus(t) : t \in Tuples(RIL_Call)}]
    BY <2>1 DEF ElemsOf, Arrays, ArraysOf
  <2>3. k \in Nat /\ DOMAIN e = 1 .. k BY <2>2, SizesAssumption
  <2>4. ASSUME NEW i \in 1 .. k
        PROVE  /\ ReadsAs(type, CallWords(e[i]), ReportedCall(e[i]))
               /\ CallWords(e[i]) \in Seq(Int) /\ ReportedCall(e[i]) \in Seq(Sendable)
    <3> DEFINE c == e[i]
    <3>1. PICK t \in Tuples(RIL_Call) : c \in WithUus(t) BY <2>2
    <3> HIDE DEF c
    <3>2. PICK f, u : CallIs(CallWords(c), ReportedCall(c), t, f, u) BY <3>1, CallData
    <3>3. /\ ReadsAs(type, CallWords(c), ReportedCall(c))
          /\ CallWords(c) \in Seq(Int) /\ ReportedCall(c) \in Seq(Sendable)
      BY <3>2, CallReads
    <3> QED BY <3>3 DEF c
  <2>5. n = k
    <3> HIDE DEF e
    <3>1. e = [i \in 1 .. k |-> e[i]] BY <2>2, <2>3
    <3>2. \A i \in 1 .. k : e[i] \in {e[j] : j \in 1 .. k} OBVIOUS
    <3>3. Len(e) = k BY <2>3, <3>1, <3>2, MadeSeq
    <3> QED BY <3>3
  <2> HIDE DEF e, n
  <2>6. /\ ws = [i \in 1 .. k |-> ws[i]] /\ \A i \in 1 .. k : ws[i] = CallWords(e[i])
        /\ es = [i \in 1 .. k |-> es[i]] /\ \A i \in 1 .. k : es[i] = ReportedCall(e[i])
    BY <2>3
  <2>7. Reported(type, r) = es
    <3>1. Reported(type, r) = [i \in DOMAIN e |-> ReportedCall(e[i])]
      BY DEF Reported, ReportedCall, e
    <3> QED BY <3>1
  <2> HIDE DEF ws, es
  <2>8. ws \in Seq(Seq(Int)) /\ Len(ws) = k
    <3> DEFINE T == Seq(Int)
    <3>1. \A i \in 1 .. k : ws[i] \in T BY <2>4, <2>6
    <3> HIDE DEF T
    <3>2. ws \in Seq(T) /\ Len(ws) = k BY <2>3, <2>6, <3>1, MadeSeq
    <3> QED BY <3>2 DEF T
  <2>9. es \in Seq(Seq(Sendable)) /\ Len(es) = k
    <3> DEFINE T == Seq(Sendable)
    <3>1. \A i \in 1 .. k : es[i] \in T BY <2>4, <2>6
    <3> HIDE DEF T
    <3>2. es \in Seq(T) /\ Len(es) = k BY <2>3, <2>6, <3>1, MadeSeq
    <3> QED BY <3>2 DEF T
  <2>10. \A i \in 1 .. Len(ws) : ReadsAs(type, ws[i], es[i]) BY <2>4, <2>6, <2>8
  <2>11. w = <<Len(ws)>> \o Concat(ws) BY <2>5, <2>8
  <2> HIDE DEF w
  <2>12. w \in Seq(Int) /\ ReadList(type, Start(Tail(w)), w[1]) = es
    BY <2>8, <2>9, <2>10, <2>11, ReadCounted
  <2>13. ReadBack(type, w) = ReadList(type, Start(Tail(w)), w[1]) BY DEF ReadBack, Arrays
  <2> QED BY <2>7, <2>12, <2>13
<1> HIDE DEF w
<1> QED BY <1>1, <1>2, <1>3, SizedAnswered

LEMMA CardLayouts ==
  /\ RIL_CardStatus \in Seq(Kinds) /\ RIL_AppStatus \in Seq(Kinds)
BY DEF RIL_CardStatus, RIL_AppStatus, Kinds

\* The state of the card, the number of its applications and each of them.
LEMMA CardRead ==
  ASSUME NEW t \in Seq(Sendable), KindsOf(t) = RIL_CardStatus, NEW a \in Seq(Seq(Sendable)),
         \A i \in 1 .. Len(a) : KindsOf(a[i]) = RIL_AppStatus,
         NEW w, w = Words(t) \o <<Len(a)>> \o AllWords(a)
  PROVE  w \in Seq(Int) /\ ReadBack("RIL_CardStatus", w) = <<t>> \o a
<1> DEFINE type == "RIL_CardStatus"
           n == Len(a)
           z == AllWords(a)
           card == Run(Start(w), RIL_CardStatus)
           apps == Step(card, "int")
           v == <<"int", n>>
           ws == [i \in DOMAIN a |-> Words(a[i])]
<1>1. /\ ws \in Seq(Seq(Int)) /\ Len(ws) = n /\ n \in Nat
      /\ \A i \in 1 .. n : ws[i] = Words(a[i])
  BY AllWordsParts, LenProperties
<1>2. z = Concat(ws) BY DEF AllWords
<1> HIDE DEF ws, n, z
<1>3. z \in Seq(Int) /\ Words(t) \in Seq(Int) /\ <<n>> \in Seq(Int)
  BY <1>1, <1>2, ConcatIsSeq, WordsIsSeq
<1>4. w = Words(t) \o (<<n>> \o z) /\ <<n>> \o z \in Seq(Int) /\ w \in Seq(Int)
  <2>1. w = (Words(t) \o <<n>>) \o z BY DEF n, z
  <2>2. w = Words(t) \o (<<n>> \o z) /\ <<n>> \o z \in Seq(Int) BY <1>3, <2>1, ConcatInts
  <2> QED BY <1>3, <2>2, ConcatProperties
<1>5. FedAt(card, <<n>> \o z, t)
  <2> DEFINE more == <<n>> \o z
  <2>1. more \in Seq(Int) /\ w = Words(t) \o more BY <1>4
  <2> HIDE DEF more
  <2>2. FedAt(Start(w), Words(t) \o more, <<>>) BY <1>4, <2>1, StartFed
  <2>3. FedAt(card, more, <<>> \o t) BY <2>1, <2>2, CardLayouts, FedMore
  <2>4. <<>> \o t = t BY ConcatEmptySeq
  <2> QED BY <2>3, <2>4 DEF more
<1>6. v \in Sendable /\ WordsOf(v) = <<n>> /\ v[1] = "int" /\ v[2] = n
  BY <1>1 DEF Sendable, Kinds, WordsOf
<1> HIDE DEF card, v
<1>7. FedAt(apps, z, Append(t, v)) BY <1>3, <1>5, <1>6, FedValue
<1> HIDE DEF apps
<1>8. Last(apps) = n
  <2>1. t \in Seq(Values) /\ v \in Values
    <3> DEFINE A == Sendable
               B == Values
    <3>1. A \subseteq B /\ t \in Seq(A) /\ v \in A BY <1>6, SendableValues
    <3> HIDE DEF A, B
    <3> QED BY <3>1 DEF B
  <2>2. Last(apps) = v[2] BY <1>7, <2>1, FedDrop
  <2> QED BY <1>6, <2>2
<1>9. ReadList(type, apps, n) = a
  <2>1. \A q \in Readers : ReadOne(type, q) = Run(q, RIL_AppStatus) BY DEF ReadOne
  <2> HIDE DEF type
  <2>2. ASSUME NEW i \in 1 .. Len(ws) PROVE ReadsAs(type, ws[i], a[i])
    <3>1. a[i] \in Seq(Sendable) /\ KindsOf(a[i]) = RIL_AppStatus /\ ws[i] = Words(a[i])
      BY <1>1, <2>2, ElementOfSeq DEF n
    <3>2. ReadsAs(type, Words(a[i]), a[i]) BY <2>1, <3>1, StructureReads
    <3> QED BY <3>1, <3>2
  <2>3. FedAt(apps, Concat(ws), Append(t, v)) /\ Len(a) = Len(ws) BY <1>1, <1>2, <1>7 DEF n
  <2>4. ReadList(type, apps, Len(ws)) = a BY <1>1, <2>2, <2>3, FedList
  <2> QED BY <1>1, <2>4
<1>10. card.args = t BY <1>5 DEF FedAt
<1>11. ReadBack(type, w) = <<card.args>> \o ReadList(type, apps, Last(apps))
  BY DEF ReadBack, Arrays, card, apps
<1> QED BY <1>4, <1>8, <1>9, <1>10, <1>11

LEMMA SimStatusAnswered ==
  ASSUME NEW r \in Responses("RIL_CardStatus")
  PROVE  Answered("RIL_CardStatus", r, responseSimStatus(r))
<1> DEFINE type == "RIL_CardStatus"
           e == r.elems
           w == Words(e[1]) \o <<Len(e) - 1>> \o AllWords(Tail(e))
<1>1. r.bad => responseSimStatus(r) = INVALID_RESPONSE BY DEF responseSimStatus
<1>2. ~r.bad => responseSimStatus(r) = Written(w) BY DEF responseSimStatus
<1>3. ASSUME ~r.null PROVE w \in Seq(Int) /\ ReadBack(type, w) = Reported(type, r)
  <2>1. e \in ElemsOf(type) BY <1>3, ResponsesParts
  <2> DEFINE cards == Tuples(RIL_CardStatus)
             lists == ArraysOf(Tuples(RIL_AppStatus))
  <2>2. PICK t \in cards, a \in lists : e = <<t>> \o a
    <3>1. PICK t \in cards, a \in lists : e = CardOf(t, a) BY <2>1 DEF ElemsOf, Arrays
    <3> QED BY <3>1 DEF CardOf
  <2>3. t \in Seq(Sendable) /\ KindsOf(t) = RIL_CardStatus BY CardLayouts, TuplesParts, KindsOfAre
  <2>4. /\ a \in Seq(Seq(Sendable)) /\ \A i \in 1 .. Len(a) : KindsOf(a[i]) = RIL_AppStatus
    BY CardLayouts, ArrayKinds
  <2>5. e[1] = t /\ Tail(e) = a /\ Len(e) = Len(a) + 1
    <3> DEFINE T == Seq(Sendable)
    <3>1. t \in T /\ a \in Seq(T) BY <2>3, <2>4
    <3> HIDE DEF T
    <3> QED BY <2>2, <3>1, HeadTail
  <2>6. Len(a) \in Nat BY <2>4, LenProperties
  <2> HIDE DEF e
  <2>7. Len(e) - 1 = Len(a) BY <2>5, <2>6
  <2>8. w = Words(t) \o <<Len(a)>> \o AllWords(a) BY <2>5, <2>7
  <2> HIDE DEF w
  <2>9. w \in Seq(Int) /\ ReadBack(type, w) = <<t>> \o a BY <2>3, <2>4, <2>8, CardRead
  <2>10. Reported(type, r) = e BY DEF Reported, e
  <2> QED BY <2>2, <2>9, <2>10
<1> HIDE DEF w
<1> QED BY <1>1, <1>2, <1>3, SizedAnswered

\* Ints are written one word each.
LEMMA WordsOfInts ==
  ASSUME NEW vals \in Seq(Sendable), \A i \in 1 .. Len(vals) : vals[i][1] = "int"
  PROVE  Len(Words(vals)) = Len(vals)
<1> DEFINE Here(a) == (\A i \in 1 .. Len(a) : a[i][1] = "int") => Len(Words(a)) = Len(a)
           P == {a \in Seq(Sendable) : Here(a)}
<1>1. <<>> \in P
  <2>1. Len(Words(<<>>)) = Len(<<>>) BY WordsNothing
  <2>2. <<>> \in Seq(Sendable) OBVIOUS
  <2> QED BY <2>1, <2>2
<1>2. ASSUME NEW a \in Seq(Sendable), NEW v \in Sendable, a \in P PROVE Append(a, v) \in P
  <2> DEFINE b == Append(a, v)
  <2>1. /\ b \in Seq(Sendable) /\ Len(b) = Len(a) + 1 /\ Len(a) \in Nat
        /\ \A i \in 1 .. Len(a) : b[i] = a[i]
        /\ b[Len(a) + 1] = v
    BY AppendParts, LenProperties
  <2>2. Words(b) = Words(a) \o WordsOf(v) BY WordsAppend
  <2> HIDE DEF b
  <2>3. ASSUME \A i \in 1 .. Len(b) : b[i][1] = "int" PROVE Len(Words(b)) = Len(b)
    <3>1. \A i \in 1 .. Len(a) : a[i][1] = "int" BY <2>1, <2>3
    <3>2. Len(Words(a)) = Len(a) BY <1>2, <3>1
    <3>3. v[1] = "int"
      <4>1. Len(a) + 1 \in 1 .. Len(b) BY <2>1
      <4> QED BY <2>1, <2>3, <4>1
    <3>4. WordsOf(v) = <<v[2]>> BY <3>3 DEF WordsOf
    <3>5. Len(WordsOf(v)) = 1 /\ WordsOf(v) \in Seq(Int) /\ Words(a) \in Seq(Int)
      BY <3>4, WordsOfIsSeq, WordsIsSeq
    <3>6. Len(Words(b)) = Len(Words(a)) + Len(WordsOf(v)) BY <2>2, <3>5, ConcatProperties
    <3> QED BY <2>1, <3>2, <3>5, <3>6
  <2> QED BY <2>1, <2>3 DEF b
<1>3. vals \in P
  <2> HIDE DEF P
  <2> QED BY <1>1, <1>2, SeqCases
<1> QED BY <1>3

LEMMA WordsOfZeros ==
  ASSUME NEW n \in Nat
  PROVE  Words(Repeat(n, <<"int", 0>>)) = Repeat(n, 0)
<1> DEFINE z == <<"int", 0>>
           P == {m \in Nat : Words(Repeat(m, z)) = Repeat(m, 0)}
<1>1. z \in Sendable /\ WordsOf(z) = <<0>> BY DEF Sendable, Kinds, WordsOf
<1> HIDE DEF z
<1>2. 0 \in P
  <2>1. Repeat(0, z) = <<>> /\ Repeat(0, 0) = <<>> BY DEF Repeat
  <2> QED BY <2>1, WordsNothing
<1>3. ASSUME NEW m \in Nat, m \in P PROVE m + 1 \in P
  <2>1. Repeat(m + 1, z) = Append(Repeat(m, z), z) BY <1>1, RepeatAppend
  <2>2. Repeat(m + 1, 0) = Append(Repeat(m, 0), 0) BY RepeatAppend
  <2>3. Repeat(m, z) \in Seq(Sendable) /\ Repeat(m, 0) \in Seq(Int) BY <1>1, RepeatIsSeq
  <2>4. Words(Repeat(m + 1, z)) = Words(Repeat(m, z)) \o <<0>> BY <1>1, <2>1, <2>3, WordsAppend
  <2>5. Repeat(m + 1, 0) = Repeat(m, 0) \o <<0>>
    <3> DEFINE a == Repeat(m, 0)
    <3> HIDE DEF a
    <3>1. a \in Seq(Int) /\ 0 \in Int BY <2>3 DEF a
    <3>2. Append(a, 0) = a \o <<0>> BY <3>1, AppendIsConcat
    <3> QED BY <2>2, <3>2 DEF a
  <2> QED BY <1>3, <2>4, <2>5
<1>4. n \in P
  <2> HIDE DEF P
  <2> QED BY <1>2, <1>3, EveryNumber
<1> QED BY <1>4 DEF z

SignalType == "RIL_SignalStrength"

LEMMA SignalElems ==
  ASSUME NEW e \in ElemsOf(SignalType)
  PROVE  \E t \in Seq(Sendable) :
           e = <<t>> /\ Len(t) \in 0 .. 7 /\ \A i \in 1 .. Len(t) : t[i][1] = "int"
<1> DEFINE two == <<"int", "int">>
<1>1. /\ RIL_SignalStrength \in Seq(Kinds) /\ Len(RIL_SignalStrength) = 7
      /\ \A i \in 1 .. 7 : RIL_SignalStrength[i] = "int"
  BY DEF RIL_SignalStrength, Kinds
<1>2. two \in Seq(Kinds) /\ Len(two) = 2 /\ \A i \in 1 .. 2 : two[i] = "int" BY DEF Kinds
<1>3. PICK t \in Tuples(RIL_SignalStrength) \cup Tuples(two) : e = <<t>>
  <2>1. e \in OneOf(Tuples(RIL_SignalStrength) \cup Tuples(two))
    BY DEF ElemsOf, Arrays, SignalType
  <2> HIDE DEF two
  <2> QED BY <2>1 DEF OneOf
<1> HIDE DEF two
<1>4. CASE t \in Tuples(RIL_SignalStrength)
  <2>1. t \in Seq(Sendable) /\ Len(t) = 7 /\ \A i \in 1 .. 7 : t[i][1] = "int"
    BY <1>1, <1>4, TuplesParts
  <2> QED BY <1>3, <2>1
<1>5. CASE t \in Tuples(two)
  <2>1. t \in Seq(Sendable) /\ Len(t) = 2 /\ \A i \in 1 .. 2 : t[i][1] = "int"
    BY <1>2, <1>5, TuplesParts
  <2> QED BY <1>3, <2>1
<1> QED BY <1>3, <1>4, <1>5

LEMMA Beyond ==
  ASSUME NEW n \in Nat, n <= 7
  PROVE  /\ \A i \in 1 .. 7 : ~(i <= n) => i - n \in 1 .. 7
         /\ \A i \in 1 .. 7 : i \in 1 .. n + 7
OBVIOUS

\* The ints there are and zeros: seven.
LEMMA Padded ==
  ASSUME NEW t \in Seq(Sendable), Len(t) \in 0 .. 7, \A i \in 1 .. Len(t) : t[i][1] = "int",
         NEW p, p = t \o Repeat(7 - Len(t), <<"int", 0>>)
  PROVE  /\ p \in Seq(Sendable) /\ KindsOf(p) = RIL_SignalStrength
         /\ Words(p) = Words(t) \o Repeat(7 - Len(Words(t)), 0)
         /\ SubSeq(t \o Repeat(7, <<"int", 0>>), 1, 7) = p
<1> DEFINE z == <<"int", 0>>
           n == Len(t)
           k == 7 - n
           short == Repeat(k, z)
           long == Repeat(7, z)
<1>1. z \in Sendable /\ z[1] = "int" BY DEF Sendable, Kinds
<1> HIDE DEF z
<1>0. t \in Seq(Sendable) /\ Len(t) = n /\ n \in 0 .. 7 /\ \A i \in 1 .. n : t[i][1] = "int"
  OBVIOUS
<1> HIDE DEF n
<1>2. n \in Nat /\ n <= 7 /\ k \in Nat /\ n + k = 7 BY <1>0
<1> HIDE DEF k
<1>3. /\ short \in Seq(Sendable) /\ Len(short) = k
      /\ \A i \in 1 .. k : short[i] = z
  <2>1. short \in Seq(Sendable) /\ Len(short) = (IF k <= 0 THEN 0 ELSE k)
        /\ \A i \in 1 .. Len(short) : short[i] = z
    BY <1>1, <1>2, RepeatIsSeq
  <2> QED BY <1>2, <2>1
<1>4. /\ long \in Seq(Sendable) /\ Len(long) = 7
      /\ \A i \in 1 .. 7 : long[i] = z
  <2> DEFINE m == 7
  <2>1. m \in Nat /\ ~(m <= 0) OBVIOUS
  <2> HIDE DEF m
  <2>2. /\ Repeat(m, z) \in Seq(Sendable)
        /\ Len(Repeat(m, z)) = (IF m <= 0 THEN 0 ELSE m)
        /\ \A i \in 1 .. Len(Repeat(m, z)) : Repeat(m, z)[i] = z
    BY <1>1, <2>1, RepeatIsSeq
  <2> QED BY <2>1, <2>2 DEF m
<1> HIDE DEF long
<1>5. p = t \o short BY DEF z, n, k
<1>6. /\ p \in Seq(Sendable) /\ Len(p) = 7
      /\ \A i \in 1 .. 7 : p[i] = IF i <= n THEN t[i] ELSE z
  <2> HIDE DEF short
  <2>1. p \in Seq(Sendable) /\ Len(p) = Len(t) + Len(short) BY <1>0, <1>3, <1>5, ConcatProperties
  <2>2. \A i \in 1 .. Len(t) + Len(short) :
           p[i] = IF i <= Len(t) THEN t[i] ELSE short[i - Len(t)]
    <3>1. short \in Seq(Sendable) BY <1>3
    <3>2. \A i \in 1 .. Len(t) + Len(short) :
            (t \o short)[i] = IF i <= Len(t) THEN t[i] ELSE short[i - Len(t)]
      BY <3>1, ConcatProperties
    <3> QED BY <1>5, <3>2
  <2>3. \A i \in 1 .. 7 : ~(i <= n) => i - n \in 1 .. k BY <1>2
  <2> QED BY <1>0, <1>2, <1>3, <2>1, <2>2, <2>3
<1> HIDE DEF short
<1>7. Words(p) = Words(t) \o Repeat(7 - Len(Words(t)), 0)
  <2>1. Words(p) = Words(t) \o Words(short) BY <1>0, <1>3, <1>5, WordsConcat
  <2>2. Words(short) = Repeat(k, 0) BY <1>2, WordsOfZeros DEF short, z
  <2>3. 7 - Len(Words(t)) = k BY <1>0, <1>2, WordsOfInts DEF k
  <2> QED BY <2>1, <2>2, <2>3
<1>8. KindsOf(p) = RIL_SignalStrength
  <2>1. /\ RIL_SignalStrength \in Seq(Kinds) /\ Len(RIL_SignalStrength) = 7
        /\ \A i \in 1 .. 7 : RIL_SignalStrength[i] = "int"
    BY DEF RIL_SignalStrength, Kinds
  <2>2. ASSUME NEW i \in 1 .. 7 PROVE p[i][1] = "int"
    <3>1. CASE i <= n
      <4>1. p[i] = t[i] /\ i \in 1 .. n BY SMTT(30), <1>2, <1>6, <3>1
      <4> QED BY <1>0, <4>1
    <3>2. CASE ~(i <= n) BY <1>1, <1>6, <3>2
    <3> QED BY <3>1, <3>2
  <2> QED BY <1>6, <2>1, <2>2, KindsOfAre
<1>9. SubSeq(t \o long, 1, 7) = p
  <2> DEFINE b == t \o long
             s == SubSeq(b, 1, 7)
  <2>1. b \in Seq(Sendable) /\ Len(b) = Len(t) + Len(long) BY <1>0, <1>4, ConcatProperties
  <2>2. \A i \in 1 .. Len(t) + Len(long) : b[i] = IF i <= Len(t) THEN t[i] ELSE long[i - Len(t)]
    BY <1>0, <1>4, ConcatProperties
  <2>3. \A i \in 1 .. 7 : ~(i <= n) => i - n \in 1 .. 7 BY <1>2, Beyond
  <2>4. \A i \in 1 .. 7 : i \in 1 .. n + 7 BY <1>2, Beyond
  <2> HIDE DEF b
  <2>5. \A i \in 1 .. 7 : b[i] = IF i <= n THEN t[i] ELSE z BY <1>0, <1>2, <1>4, <2>2, <2>3, <2>4
  <2>6. \A i \in 1 .. 7 : b[i] = p[i] BY <1>6, <2>5
  <2>7. 7 <= Len(b) BY <1>0, <1>2, <1>4, <2>1
  <2>8. s \in Seq(Sendable) BY <2>1, <2>7, BeginningIsSeq
  <2>9. Len(s) = 7 /\ \A i \in 1 .. 7 : s[i] = b[i]
    <3>1. \A i \in 1 .. 7 : b[i] \in Sendable BY <1>6, <2>6, ElementOfSeq
    <3> QED BY <3>1, SubSeqProperties
  <2> HIDE DEF s
  <2>10. \A i \in 1 .. 7 : s[i] = p[i] BY <2>6, <2>9
  <2>11. s = p BY <1>6, <2>8, <2>9, <2>10, SeqEqual
  <2> QED BY <2>11 DEF s, b
<1> QED BY <1>6, <1>7, <1>8, <1>9 DEF long, z

LEMMA RilSignalStrengthAnswered ==
  ASSUME NEW r \in Responses(SignalType)
  PROVE  Answered(SignalType, r, responseRilSignalStrength(r))
<1> DEFINE e == r.elems
           ints == Words(e[1])
           w == ints \o Repeat(7 - Len(ints), 0)
<1>1. r.bad => responseRilSignalStrength(r) = INVALID_RESPONSE BY DEF responseRilSignalStrength
<1>2. ASSUME ~r.null
      PROVE  /\ ~r.bad => responseRilSignalStrength(r) = Written(w)
             /\ w \in Seq(Int) /\ ReadBack(SignalType, w) = Reported(SignalType, r)
  <2>1. e \in ElemsOf(SignalType) BY <1>2, ResponsesParts DEF SignalType
  <2>2. PICK t \in Seq(Sendable) :
          e = <<t>> /\ Len(t) \in 0 .. 7 /\ \A i \in 1 .. Len(t) : t[i][1] = "int"
    BY <2>1, SignalElems
  <2>3. e # <<>> /\ e[1] = t BY <2>2
  <2>4. ~r.bad => responseRilSignalStrength(r) = Written(w) BY <2>3 DEF responseRilSignalStrength
  <2> DEFINE p == t \o Repeat(7 - Len(t), <<"int", 0>>)
             q == Run(Start(w), RIL_SignalStrength)
  <2>5. /\ p \in Seq(Sendable) /\ KindsOf(p) = RIL_SignalStrength
        /\ Words(p) = Words(t) \o Repeat(7 - Len(Words(t)), 0)
        /\ SubSeq(t \o Repeat(7, <<"int", 0>>), 1, 7) = p
    BY <2>2, Padded
  <2>6. Reported(SignalType, r) = <<p>>
    <3>1. Reported(SignalType, r) = <<SubSeq(e[1] \o Repeat(7, <<"int", 0>>), 1, 7)>>
      BY DEF Reported, SignalType
    <3> QED BY <2>3, <2>5, <3>1
  <2> HIDE DEF p
  <2>7. w = Words(p) BY <2>3, <2>5
  <2> HIDE DEF w
  <2>8. RIL_SignalStrength \in Seq(Kinds) BY DEF RIL_SignalStrength, Kinds
  <2>9. w \in Seq(Int) /\ FedAt(q, <<>>, p) BY <2>5, <2>7, <2>8, FedStructure
  <2>10. q.args = p BY <2>9 DEF FedAt
  <2>11. ReadBack(SignalType, w) = <<q.args>> BY DEF ReadBack, Arrays, LayoutOf, SignalType
  <2> QED BY <2>4, <2>6, <2>9, <2>10, <2>11 DEF w
<1> HIDE DEF w
<1>3. SignalType \notin {"void", "RIL_CDMA_InformationRecords"} BY DEF SignalType
<1> QED BY <1>1, <1>2, <1>3, SizedAnswered

LEMMA CdmaSmsAnswered ==
  ASSUME NEW r \in Responses("RIL_CDMA_SMS_Message")
  PROVE  Answered("RIL_CDMA_SMS_Message", r, responseCdmaSms(r))
<1> DEFINE type == "RIL_CDMA_SMS_Message"
           e == r.elems
           w == Words(e[1])
           null == FALSE
           d == Datum(null, e)
           o == dispatchCdmaSms(w)
<1>1. ~r.null /\ r.bad => responseCdmaSms(r) = INVALID_RESPONSE BY DEF responseCdmaSms
<1>2. ~r.null /\ ~r.bad => responseCdmaSms(r) = Written(w) BY DEF responseCdmaSms
<1>3. ASSUME ~r.null PROVE w \in Seq(Int) /\ ReadBack(type, w) = Reported(type, r)
  <2>1. e \in ElemsOf(type) BY <1>3, ResponsesParts
  <2> HIDE DEF e
  <2>2. Data(type) = {Datum(null, x) : x \in ElemsOf(type)} BY DEF Data
  <2>3. d \in Data(type)
    <3> HIDE DEF null
    <3> QED BY <2>1, <2>2
  <2>4. d.elems = e BY DatumExcept
  <2> HIDE DEF d, null
  <2>5. WriteData(type, d) = w BY <2>4 DEF WriteData, Arrays
  <2>6. WriteData(type, d) \in Seq(Int)
        /\ Delivered(type, d, dispatchCdmaSms(WriteData(type, d)))
    BY <2>3, CdmaSmsDelivered
  <2>7. w \in Seq(Int) /\ Delivered(type, d, o) BY <2>5, <2>6
  <2>8. Legal(type, d) /\ Received(type, d) = d BY DEF Legal, Received
  <2> HIDE DEF w, o
  <2>9. o.data = d BY <2>7, <2>8 DEF Delivered
  <2>10. ReadBack(type, w) = o.data.elems BY DEF ReadBack, Arrays, o
  <2>11. Reported(type, r) = e BY DEF Reported, e
  <2> QED BY <2>4, <2>7, <2>9, <2>10, <2>11
<1> HIDE DEF w
<1> QED BY <1>1, <1>2, <1>3, SizedAnswered

InfoType == "RIL_CDMA_InformationRecords"

LEMMA InfoLayouts ==
  ASSUME NEW k \in InfoNames
  PROVE  InfoLayout(k) \in Seq(Kinds)
<1> DEFINE R == RIL_CDMA_InformationRecord
<1>1. /\ R.display \in Seq(Kinds) /\ R.number \in Seq(Kinds) /\ R.signal \in Seq(Kinds)
      /\ R.redirecting \in Seq(Kinds) /\ R.lineControl \in Seq(Kinds) /\ R.clir \in Seq(Kinds)
      /\ R.audioControl \in Seq(Kinds)
  BY DEF RIL_CDMA_InformationRecord, RIL_CDMA_SignalInfoRecord, Kinds
<1>2. <<>> \in Seq(Kinds) OBVIOUS
<1> HIDE DEF R
<1> QED BY <1>1, <1>2 DEF InfoLayout, InfoNames, R

\* x is the record of the name k with the members t.
InfoIs(x, k, t) ==
  /\ k \in 0 .. 10 /\ t \in Seq(Sendable) /\ KindsOf(t) = InfoLayout(k)
  /\ x = <<<<"int", k>>>> \o t

LEMMA InfoData ==
  ASSUME NEW x \in InfoRecords
  PROVE  \E k, t : InfoIs(x, k, t)
<1>1. PICK k \in InfoNames : x \in RecordsOf(k) BY DEF InfoRecords
<1>2. PICK t \in MembersOf(k) : x = RecordOf(k, t) BY <1>1 DEF RecordsOf
<1>3. t \in Seq(Sendable) /\ KindsOf(t) = InfoLayout(k)
  <2>1. CASE t \in Tuples(InfoLayout(k)) BY <2>1, InfoLayouts, TuplesParts, KindsOfAre
  <2>2. CASE k = 0 /\ t = LongText
    <3>1. "str" \in Kinds /\ TooLong \in Int BY DEF Kinds, TooLong
    <3>2. LongText \in Seq(Sendable) /\ KindsOf(LongText) = <<"str">>
      BY <3>1, OneKind DEF LongText
    <3>3. InfoLayout(0) = <<"str">> BY DEF InfoLayout, RIL_CDMA_InformationRecord
    <3> QED BY <2>2, <3>2, <3>3
  <2>3. t \in Tuples(InfoLayout(k)) \/ (k = 0 /\ t = LongText)
    <3>1. CASE k = 0 BY <3>1 DEF MembersOf
    <3>2. CASE k # 0 BY <3>2 DEF MembersOf
    <3> QED BY <3>1, <3>2
  <2> QED BY <2>1, <2>2, <2>3
<1>4. k \in 0 .. 10 BY DEF InfoNames
<1>5. InfoIs(x, k, t) BY <1>2, <1>3, <1>4 DEF InfoIs, RecordOf
<1> QED BY <1>5

LEMMA InfoReads ==
  ASSUME NEW x, NEW k, NEW t, InfoIs(x, k, t)
  PROVE  ReadsAs(InfoType, Words(x), x) /\ x \in Seq(Sendable) /\ x[1][2] = k
<1> DEFINE v == <<"int", k>>
           z == Words(t)
<1>1. /\ k \in 0 .. 10 /\ k \in Int /\ t \in Seq(Sendable) /\ KindsOf(t) = InfoLayout(k)
      /\ x = <<v>> \o t
  BY DEF InfoIs
<1>2. v \in Sendable /\ WordsOf(v) = <<k>> /\ v[1] = "int" /\ v[2] = k
  BY <1>1 DEF Sendable, Kinds, WordsOf
<1> HIDE DEF v
<1>3. <<v>> \in Seq(Sendable) /\ Words(<<v>>) = <<k>> BY <1>2, WordsOne
<1>4. x \in Seq(Sendable) /\ x[1] = v BY <1>1, <1>2, HeadTail
<1>5. Words(x) = <<k>> \o z /\ z \in Seq(Int) BY <1>1, <1>3, WordsConcat, WordsIsSeq
<1>6. InfoLayout(k) \in Seq(Kinds) BY <1>1, KindsOfParts
<1>7. ASSUME NEW q \in Readers, NEW s \in Seq(Int), FedAt(q, Words(x) \o s, <<>>)
      PROVE  FedAt(ReadOne(InfoType, q), s, x)
  <2> DEFINE n == Step(q, "int")
             more == z \o s
  <2> HIDE DEF z
  <2>1. Words(x) \o s = <<k>> \o more /\ more \in Seq(Int)
    <3>1. <<k>> \in Seq(Int) BY <1>1
    <3> QED BY <1>5, <3>1, ConcatInts
  <2> HIDE DEF more
  <2>2. FedAt(n, more, Append(<<>>, v)) BY <1>2, <1>7, <2>1, FedValue
  <2>3. Append(<<>>, v) = <<v>> OBVIOUS
  <2> HIDE DEF n
  <2>4. Last(n) = k
    <3>1. <<>> \in Seq(Values) /\ v \in Values BY <1>2, SendableValues
    <3>2. Last(n) = v[2] BY <2>2, <3>1, FedDrop
    <3> QED BY <1>2, <3>2
  <2>5. FedAt(n, Words(t) \o s, <<v>>) BY <2>2, <2>3 DEF more, z
  <2>6. FedAt(Run(n, InfoLayout(k)), s, <<v>> \o t) BY <1>1, <1>6, <2>5, FedMore
  <2>7. ReadOne(InfoType, q) = Run(n, InfoLayout(Last(n)))
    BY DEF ReadOne, InfoType, ReadInfoRecord, n
  <2> QED BY <1>1, <2>4, <2>6, <2>7
<1> QED BY <1>2, <1>4, <1>7 DEF ReadsAs

LEMMA InfoElems ==
  ASSUME NEW e \in ElemsOf(InfoType)
  PROVE  /\ e \in Seq(InfoRecords) /\ Len(e) \in 1 .. 3 /\ DOMAIN e = 1 .. Len(e)
         /\ \A i \in 1 .. Len(e) : e[i] \in InfoRecords
<1>1. PICK a \in InfoRecords, b \in InfoRecords : e \in {<<a>>, <<a, b>>, <<a, b, a>>}
  BY DEF ElemsOf, Arrays, InfoType
<1>2. CASE e = <<a>>
  <2>1. Len(e) = 1 /\ e[1] = a /\ DOMAIN e = 1 .. 1 /\ e \in Seq(InfoRecords) BY <1>2
  <2> QED BY <2>1
<1>3. CASE e = <<a, b>>
  <2>1. Len(e) = 2 /\ e[1] = a /\ e[2] = b /\ DOMAIN e = 1 .. 2 /\ e \in Seq(InfoRecords)
    BY <1>3
  <2>2. \A i \in 1 .. 2 : i = 1 \/ i = 2 OBVIOUS
  <2> QED BY <2>1, <2>2
<1>4. CASE e = <<a, b, a>>
  <2>1. Len(e) = 3 /\ e[1] = a /\ e[2] = b /\ e[3] = a /\ DOMAIN e = 1 .. 3
        /\ e \in Seq(InfoRecords)
    BY <1>4
  <2>2. \A i \in 1 .. 3 : i = 1 \/ i = 2 \/ i = 3 OBVIOUS
  <2> QED BY <2>1, <2>2
<1> QED BY <1>1, <1>2, <1>3, <1>4

\* The largest of a set of small numbers with 0 in it.
LEMMA LargestOf ==
  ASSUME NEW n \in 1 .. 3, NEW D, D \subseteq 0 .. n, 0 \in D
  PROVE  LET m == CHOOSE k \in D : \A j \in D : j <= k
         IN m \in D /\ \A j \in D : j <= m
<1>1. \E k \in D : \A j \in D : j <= k
  <2>1. CASE 3 \in D BY <2>1
  <2>2. CASE 3 \notin D /\ 2 \in D
    <3>1. \A j \in D : j <= 2 BY <2>2
    <3> QED BY <2>2, <3>1
  <2>3. CASE 3 \notin D /\ 2 \notin D /\ 1 \in D
    <3>1. \A j \in D : j <= 1 BY <2>3
    <3> QED BY <2>3, <3>1
  <2>4. CASE 3 \notin D /\ 2 \notin D /\ 1 \notin D
    <3>1. \A j \in D : j <= 0 BY <2>4
    <3> QED BY <3>1
  <2> QED BY <2>1, <2>2, <2>3, <2>4
<1> QED BY <1>1

\* What responseCdmaInformationRecords marshals of a record.
LEMMA InfoFits ==
  ASSUME NEW x \in InfoRecords
  PROVE  (x[1][2] \in 0 .. 10 \ {9} /\ \A i \in DOMAIN x : x[i] # <<"str", TooLong>>)
           <=> Marshalled(x)
<1>1. PICK k, t : InfoIs(x, k, t) BY InfoData
<1>2. x[1][2] = k BY <1>1, InfoReads
<1>3. k \in 0 .. 10 BY <1>1 DEF InfoIs
<1> QED BY <1>2, <1>3 DEF Marshalled

LEMMA CdmaInformationRecordsAnswered ==
  ASSUME NEW r \in Responses(InfoType)
  PROVE  Answered(InfoType, r, responseCdmaInformationRecords(r))
<1> DEFINE e == r.elems
           f == responseCdmaInformationRecords(r)
           n == Smaller(Len(e), InfoRecMax)
           fits(x) == /\ x[1][2] \in 0 .. 10 \ {9}
                      /\ \A i \in DOMAIN x : x[i] # <<"str", TooLong>>
           done == {k \in 0 .. n : \A i \in 1 .. k : fits(e[i])}
           upTo == CHOOSE k \in done : \A j \in done : j <= k
           w == <<n>> \o AllWords(SubSeq(e, 1, upTo))
                  \o IF upTo = n THEN <<>> ELSE Words(SubSeq(e[upTo + 1], 1, 1))
<1> SUFFICES ASSUME ~r.null
             PROVE  /\ WellFormed(InfoType, r) =>
                         /\ f.ret = 0 /\ f.w \in Seq(Int)
                         /\ ReadBack(InfoType, f.w) = Reported(InfoType, r)
                    /\ ~WellFormed(InfoType, r) => f.ret = -1
  BY DEF Answered, InfoType
<1>1. e \in ElemsOf(InfoType) BY ResponsesParts DEF InfoType
<1>2. CASE r.bad
  <2>1. f = INVALID_RESPONSE BY <1>2 DEF responseCdmaInformationRecords
  <2>2. ~WellFormed(InfoType, r) BY <1>2 DEF WellFormed
  <2> QED BY <2>1, <2>2, WrittenParts
<1>3. CASE ~r.bad
  <2>1. f = [ret |-> IF upTo = n THEN 0 ELSE -1, w |-> w]
    BY <1>3 DEF responseCdmaInformationRecords
  <2>2. f.ret = (IF upTo = n THEN 0 ELSE -1) /\ f.w = w
    <3> HIDE DEF e, f, upTo, w, n
    <3> QED BY <2>1
  <2> HIDE DEF e, f
  <2>3. /\ e \in Seq(InfoRecords) /\ Len(e) \in 1 .. 3 /\ DOMAIN e = 1 .. Len(e)
        /\ \A i \in 1 .. Len(e) : e[i] \in InfoRecords
    BY <1>1, InfoElems
  <2>4. n \in 1 .. 3 /\ n <= Len(e) /\ \A i \in 1 .. Len(e) : i <= InfoRecMax <=> i <= n
    BY <2>3, SizesAssumption DEF Smaller
  <2>5. WellFormed(InfoType, r) <=> \A i \in 1 .. n : Marshalled(e[i])
    <3>1. WellFormed(InfoType, r)
            <=> \A i \in DOMAIN e : i <= InfoRecMax => Marshalled(e[i])
      BY <1>3 DEF WellFormed, InfoType, e
    <3> HIDE DEF n
    <3> QED BY <2>3, <2>4, <3>1
  <2>6. Reported(InfoType, r) = SubSeq(e, 1, n) BY DEF Reported, InfoType, e
  <2> HIDE DEF n
  <2>7. \A i \in 1 .. n : fits(e[i]) <=> Marshalled(e[i])
    <3>1. \A i \in 1 .. n : e[i] \in InfoRecords BY <2>3, <2>4
    <3> QED BY <3>1, InfoFits
  <2> HIDE DEF fits
  <2>8. upTo \in done /\ \A j \in done : j <= upTo
    <3>1. done \subseteq 0 .. n /\ 0 \in done BY <2>4
    <3> HIDE DEF done
    <3> QED BY <2>4, <3>1, LargestOf
  <2>9. upTo = n <=> \A i \in 1 .. n : fits(e[i])
    <3>1. n \in done <=> \A i \in 1 .. n : fits(e[i]) BY <2>4
    <3>2. \A j \in done : j \in 0 .. n OBVIOUS
    <3> HIDE DEF done
    <3>3. n \in done <=> upTo = n
      <4> HIDE DEF upTo
      <4> QED BY <2>4, <2>8, <3>2
    <3> QED BY <3>1, <3>3
  <2> HIDE DEF upTo
  <2>10. upTo = n <=> WellFormed(InfoType, r) BY <2>5, <2>7, <2>9
  <2>11. ASSUME upTo = n
         PROVE  w \in Seq(Int) /\ ReadBack(InfoType, w) = SubSeq(e, 1, n)
    <3> DEFINE es == SubSeq(e, 1, n)
               ws == [i \in DOMAIN es |-> Words(es[i])]
    <3>1. e \in Seq(InfoRecords) BY <2>3
    <3>2. es \in Seq(InfoRecords) /\ Len(es) = n /\ n \in Nat
      <4>1. es \in Seq(InfoRecords) BY <2>4, <3>1, BeginningIsSeq
      <4>2. \A i \in 1 .. n : e[i] \in InfoRecords BY <2>3, <2>4
      <4>3. n \in Nat BY <2>4
      <4> QED BY <4>1, <4>2, <4>3, SubSeqProperties
    <3> HIDE DEF es
    <3>3. ASSUME NEW i \in 1 .. Len(es)
          PROVE  ReadsAs(InfoType, Words(es[i]), es[i]) /\ es[i] \in Seq(Sendable)
      <4>1. es[i] \in InfoRecords BY <3>2, ElementOfSeq
      <4>2. PICK k, t : InfoIs(es[i], k, t) BY <4>1, InfoData
      <4> QED BY <4>2, InfoReads
    <3>4. es \in Seq(Seq(Sendable))
      <4> DEFINE T == Seq(Sendable)
      <4>1. \A i \in 1 .. n : es[i] \in T BY <3>2, <3>3
      <4> HIDE DEF T
      <4>2. es = [i \in 1 .. n |-> es[i]] BY <3>2
      <4>3. es \in Seq(T) BY <3>2, <4>1, <4>2, MadeSeq
      <4> QED BY <4>3 DEF T
    <3>5. /\ ws \in Seq(Seq(Int)) /\ Len(ws) = Len(es)
          /\ \A i \in 1 .. Len(es) : ws[i] = Words(es[i])
      BY <3>4, AllWordsParts
    <3>6. AllWords(es) = Concat(ws) BY DEF AllWords
    <3> HIDE DEF ws
    <3>7. \A i \in 1 .. Len(ws) : ReadsAs(InfoType, ws[i], es[i]) BY <3>3, <3>5
    <3>8. w = <<Len(ws)>> \o Concat(ws)
      <4> DEFINE p == <<n>> \o AllWords(es)
      <4>1. w = p \o <<>> BY <2>11 DEF es
      <4>2. p \in Seq(Int)
        <5>1. AllWords(es) \in Seq(Int) /\ n \in Int BY <2>4, <3>4, AllWordsFlat
        <5> QED BY <5>1, HeadTail
      <4>3. p \o <<>> = p BY <4>2, ConcatEmptySeq
      <4> QED BY <3>2, <3>5, <3>6, <4>1, <4>3
    <3> HIDE DEF w
    <3>9. w \in Seq(Int) /\ ReadList(InfoType, Start(Tail(w)), w[1]) = es
      BY <3>4, <3>5, <3>7, <3>8, ReadCounted
    <3>10. ReadBack(InfoType, w) = ReadList(InfoType, Start(Tail(w)), w[1])
      BY DEF ReadBack, Arrays, InfoType
    <3> QED BY <3>9, <3>10 DEF es
  <2> HIDE DEF w
  <2> QED BY <2>2, <2>6, <2>10, <2>11
<1> QED BY <1>2, <1>3

\* The response functions of ril.cpp against the responses of ril.h.
ResponseRows ==
  {<<"void", "Void">>, <<"string", "String">>, <<"strings", "Strings">>, <<"ints", "Ints">>,
   <<"raw", "Raw">>, <<"RIL_CardStatus", "SimStatus">>, <<"RIL_Call**", "CallList">>,
   <<"RIL_SignalStrength", "RilSignalStrength">>, <<"RIL_SMS_Response", "SMS">>,
   <<"RIL_SIM_IO_Response", "SIM_IO">>, <<"RIL_CallForwardInfo**", "CallForwards">>,
   <<"RIL_Data_Call_Response[]", "DataCallList">>, <<"RIL_NeighboringCell**", "CellList">>,
   <<"RIL_GSM_BroadcastSmsConfigInfo**", "GsmBrSmsCnf">>,
   <<"RIL_CDMA_BroadcastSmsConfigInfo**", "CdmaBrSmsCnf">>}

\* Those that are only sent unsolicited.
UnsolRows ==
  {<<"RIL_SuppSvcNotification", "Ssn">>, <<"RIL_CDMA_SignalInfoRecord", "CallRing">>,
   <<"RIL_CDMA_SMS_Message", "CdmaSms">>, <<"RIL_CDMA_CallWaiting", "CdmaCallWaiting">>,
   <<"RIL_CDMA_InformationRecords", "CdmaInformationRecords">>}

LEMMA UnsolTableAgrees ==
  ASSUME NEW k \in 1 .. 32, k # 22
  PROVE  <<RIL_UNSOL[k], s_unsolResponses[k][1]>> \in ResponseRows \cup UnsolRows
BY DEF s_unsolResponses, ResponseRows, UnsolRows, V, I, S, SS, RIL_UNSOL, StateChangedUnsol,
       StkAndSimUnsol, CdmaUnsol, WAKE_PARTIAL, DONT_WAKE

LEMMA ResponseTableAgrees ==
  ASSUME NEW q \in 1 .. 108
  PROVE  <<RIL_REQUEST[q][2], s_commands[q][2]>> \in ResponseRows
BY SMTT(120)
   DEF s_commands, ResponseRows, V, I, S, SS, RIL_REQUEST, SimPinRequests, CallListRequests,
       SupplementaryCallRequests, RegistrationRequests, OperatorAndSmsRequests,
       DataCallAndUssdRequests, ForwardingRequests, FacilityRequests, NetworkSelectionRequests,
       ConnectionRequests, OemAndScreenRequests, StkProfileRequests,
       StkAndNetworkTypeRequests, CdmaPreferenceRequests, CdmaSmsRequests,
       BroadcastSmsRequests, IdentityAndVendorRequests

\* What follows an unsolicited response: nothing, but after a change of the radio state and a
\* NITZ time.
LEMMA PayloadTypes == RIL_UNSOL[1] = "void" /\ RIL_UNSOL[9] = "string"
BY DEF V, I, S, SS, RIL_UNSOL, StateChangedUnsol, StkAndSimUnsol, CdmaUnsol

UnsolNumbers == 1000 .. 1031
UnsolType(u) == RIL_UNSOL[u - 999]
UnsolName(u) == s_unsolResponses[u - 999][1]

LEMMA UnsolRow ==
  ASSUME NEW u \in UnsolNumbers, u # RIL_UNSOL_RESPONSE_NEW_BROADCAST_SMS
  PROVE  /\ u \in Int
         /\ <<UnsolType(u), UnsolName(u)>> \in ResponseRows \cup UnsolRows
         /\ morePayload(u) \in Seq(Int)
         /\ \/ morePayload(u) = <<>>
            \/ UnsolType(u) = "void"
            \/ UnsolType(u) = "string"
<1> USE DEF UnsolNumbers, UnsolType, UnsolName
<1>1. <<RIL_UNSOL[u - 999], s_unsolResponses[u - 999][1]>> \in ResponseRows \cup UnsolRows
  <2> DEFINE k == u - 999
  <2>1. k \in 1 .. 32 /\ k # 22 BY DEF RIL_UNSOL_RESPONSE_NEW_BROADCAST_SMS
  <2> HIDE DEF k
  <2>2. <<RIL_UNSOL[k], s_unsolResponses[k][1]>> \in ResponseRows \cup UnsolRows
    BY SMTT(30), <2>1, UnsolTableAgrees
  <2> QED BY <2>2 DEF k
<1>2. morePayload(u) \in Seq(Int)
  <2>1. <<10>> \in Seq(Int) /\ <<20, 21>> \in Seq(Int) /\ <<>> \in Seq(Int) OBVIOUS
  <2> QED BY <2>1 DEF morePayload
<1>0. 1000 - 999 = 1 /\ 1008 - 999 = 9 OBVIOUS
<1>3. u = 1000 => RIL_UNSOL[u - 999] = "void" BY <1>0, PayloadTypes
<1>4. u = 1008 => RIL_UNSOL[u - 999] = "string" BY <1>0, PayloadTypes
<1>5. u \notin {1000, 1008} => morePayload(u) = <<>> BY DEF morePayload
<1> QED BY <1>1, <1>2, <1>3, <1>4, <1>5

\* Every response function on the responses of its row.
LEMMA ResponseAnswered ==
  ASSUME PtrSize = 4, version \in {2, 3}, NEW type, NEW name,
         <<type, name>> \in ResponseRows \cup UnsolRows, NEW r \in Responses(type)
  PROVE  Answered(type, r, responseFunction(name, r))
<1>1. CASE type = "void" /\ name = "Void"
  <2>1. responseFunction(name, r) = responseVoid(r) BY <1>1 DEF responseFunction
  <2> QED BY <1>1, <2>1, VoidAnswered
<1>2. CASE type = "string" /\ name = "String"
  <2>1. responseFunction(name, r) = responseString(r) BY <1>2 DEF responseFunction
  <2> QED BY <1>2, <2>1, StringAnswered
<1>3. CASE type = "strings" /\ name = "Strings"
  <2>1. responseFunction(name, r) = responseStrings(r) BY <1>3 DEF responseFunction
  <2> QED BY <1>3, <2>1, StringsAnswered
<1>4. CASE type = "ints" /\ name = "Ints"
  <2>1. responseFunction(name, r) = responseInts(r) BY <1>4 DEF responseFunction
  <2> QED BY <1>4, <2>1, IntsAnswered
<1>5. CASE type = "raw" /\ name = "Raw"
  <2>1. responseFunction(name, r) = responseRaw(r) BY <1>5 DEF responseFunction
  <2> QED BY <1>5, <2>1, RawAnswered
<1>6. CASE type = "RIL_CardStatus" /\ name = "SimStatus"
  <2>1. responseFunction(name, r) = responseSimStatus(r) BY <1>6 DEF responseFunction
  <2> QED BY <1>6, <2>1, SimStatusAnswered
<1>7. CASE type = "RIL_Call**" /\ name = "CallList"
  <2>1. responseFunction(name, r) = responseCallList(r) BY <1>7 DEF responseFunction
  <2> QED BY <1>7, <2>1, CallListAnswered
<1>8. CASE type = "RIL_SignalStrength" /\ name = "RilSignalStrength"
  <2>1. responseFunction(name, r) = responseRilSignalStrength(r) BY <1>8 DEF responseFunction
  <2> QED BY <1>8, <2>1, RilSignalStrengthAnswered DEF SignalType
<1>9. CASE type = "RIL_SMS_Response" /\ name = "SMS"
  <2>1. responseFunction(name, r) = responseSMS(r) BY <1>9 DEF responseFunction
  <2> QED BY <1>9, <2>1, SMSAnswered
<1>10. CASE type = "RIL_SIM_IO_Response" /\ name = "SIM_IO"
  <2>1. responseFunction(name, r) = responseSIM_IO(r) BY <1>10 DEF responseFunction
  <2> QED BY <1>10, <2>1, SIM_IOAnswered
<1>11. CASE type = "RIL_CallForwardInfo**" /\ name = "CallForwards"
  <2>1. responseFunction(name, r) = responseCallForwards(r) BY <1>11 DEF responseFunction
  <2> QED BY <1>11, <2>1, CallForwardsAnswered
<1>12. CASE type = "RIL_Data_Call_Response[]" /\ name = "DataCallList"
  <2>1. responseFunction(name, r) = responseDataCallList(r) BY <1>12 DEF responseFunction
  <2> QED BY <1>12, <2>1, DataCallListAnswered
<1>13. CASE type = "RIL_NeighboringCell**" /\ name = "CellList"
  <2>1. responseFunction(name, r) = responseCellList(r) BY <1>13 DEF responseFunction
  <2> QED BY <1>13, <2>1, CellListAnswered DEF CellType
<1>14. CASE type = "RIL_GSM_BroadcastSmsConfigInfo**" /\ name = "GsmBrSmsCnf"
  <2>1. responseFunction(name, r) = responseGsmBrSmsCnf(r) BY <1>14 DEF responseFunction
  <2> QED BY <1>14, <2>1, GsmBrSmsCnfAnswered
<1>15. CASE type = "RIL_CDMA_BroadcastSmsConfigInfo**" /\ name = "CdmaBrSmsCnf"
  <2>1. responseFunction(name, r) = responseCdmaBrSmsCnf(r) BY <1>15 DEF responseFunction
  <2> QED BY <1>15, <2>1, CdmaBrSmsCnfAnswered
<1>16. CASE type = "RIL_SuppSvcNotification" /\ name = "Ssn"
  <2>1. responseFunction(name, r) = responseSsn(r) BY <1>16 DEF responseFunction
  <2> QED BY <1>16, <2>1, SsnAnswered
<1>17. CASE type = "RIL_CDMA_SignalInfoRecord" /\ name = "CallRing"
  <2>1. responseFunction(name, r) = responseCallRing(r) BY <1>17 DEF responseFunction
  <2> QED BY <1>17, <2>1, CallRingAnswered
<1>18. CASE type = "RIL_CDMA_SMS_Message" /\ name = "CdmaSms"
  <2>1. responseFunction(name, r) = responseCdmaSms(r) BY <1>18 DEF responseFunction
  <2> QED BY <1>18, <2>1, CdmaSmsAnswered
<1>19. CASE type = "RIL_CDMA_CallWaiting" /\ name = "CdmaCallWaiting"
  <2>1. responseFunction(name, r) = responseCdmaCallWaiting(r) BY <1>19 DEF responseFunction
  <2> QED BY <1>19, <2>1, CdmaCallWaitingAnswered
<1>20. CASE type = "RIL_CDMA_InformationRecords" /\ name = "CdmaInformationRecords"
  <2>1. responseFunction(name, r) = responseCdmaInformationRecords(r) BY <1>20 DEF responseFunction
  <2> QED BY <1>20, <2>1, CdmaInformationRecordsAnswered DEF InfoType
<1> QED BY <1>1, <1>2, <1>3, <1>4, <1>5, <1>6, <1>7, <1>8, <1>9, <1>10,
          <1>11, <1>12, <1>13, <1>14, <1>15, <1>16, <1>17, <1>18, <1>19, <1>20
       DEF ResponseRows, UnsolRows

\* The answer: what is before f.w, and f.w.
LEMMA AnswerParts ==
  ASSUME NEW token \in Int, NEW q \in Int, NEW e \in Int, NEW w \in Seq(Int)
  PROVE  LET a == <<0, q, token>> \o <<e>> \o w
         IN SubSeq(a, 1, 3) = <<0, q, token>> /\ a[4] = e /\ SubSeq(a, 5, Len(a)) = w
<1> DEFINE h == <<0, q, token>>
           b == h \o <<e>>
           a == b \o w
           n == Len(w)
<1>1. /\ b \in Seq(Int) /\ Len(b) = 4 /\ b[4] = e /\ \A i \in 1 .. 3 : b[i] = h[i]
      /\ h \in Seq(Int) /\ Len(h) = 3 /\ <<e>> \in Seq(Int)
  <2> DEFINE one == <<e>>
  <2>1. h \in Seq(Int) /\ Len(h) = 3 /\ one \in Seq(Int) /\ Len(one) = 1 /\ one[1] = e
    OBVIOUS
  <2> HIDE DEF h, one
  <2>2. h \o one \in Seq(Int) /\ Len(h \o one) = Len(h) + Len(one) BY <2>1, ConcatProperties
  <2>3. \A i \in 1 .. Len(h) + Len(one) :
           (h \o one)[i] = IF i <= Len(h) THEN h[i] ELSE one[i - Len(h)]
    BY <2>1, ConcatProperties
  <2>4. b = h \o one BY DEF one
  <2> HIDE DEF b
  <2>5. 4 \in 1 .. 3 + 1 /\ ~(4 <= 3) /\ 4 - 3 = 1 OBVIOUS
  <2>6. \A i \in 1 .. 3 : i \in 1 .. 3 + 1 /\ i <= 3 OBVIOUS
  <2>7. b[4] = e BY <2>1, <2>3, <2>4, <2>5
  <2>8. \A i \in 1 .. 3 : b[i] = h[i] BY <2>1, <2>3, <2>4, <2>6
  <2> QED BY <2>1, <2>2, <2>4, <2>7, <2>8 DEF one
<1>2. n \in Nat BY LenProperties
<1>3. SubSeq(b, 1, 3) = h
  <2>1. SubSeq(h \o <<e>>, 1, Len(h)) = h BY <1>1, ConcatSplit
  <2> QED BY <1>1, <2>1
<1>0. \A i \in 1 .. 3 : b[i] = h[i] BY <1>1
<1> HIDE DEF b, n
<1>4. a \in Seq(Int) /\ Len(a) = 4 + n
  <2>1. a \in Seq(Int) /\ Len(a) = Len(b) + Len(w) BY <1>1, ConcatProperties
  <2> HIDE DEF a
  <2> QED BY <1>1, <2>1 DEF n
<1>5. \A i \in 1 .. 4 : a[i] = b[i]
  <2>1. \A i \in 1 .. Len(b) + Len(w) : a[i] = IF i <= Len(b) THEN b[i] ELSE w[i - Len(b)]
    BY <1>1, ConcatProperties
  <2>2. \A i \in 1 .. 4 : i \in 1 .. 4 + n /\ i <= 4 BY <1>2
  <2> HIDE DEF a
  <2> QED BY <1>1, <2>1, <2>2 DEF n
<1>6. a[4] = e
  <2>1. 4 \in 1 .. 4 OBVIOUS
  <2> HIDE DEF a
  <2> QED BY <1>1, <1>5, <2>1
<1>7. SubSeq(a, 5, Len(a)) = w
  <2>1. SubSeq(a, Len(b) + 1, Len(b) + Len(w)) = w BY <1>1, ConcatSplit
  <2> QED BY SMTT(30), <1>1, <1>4, <2>1 DEF n
<1> HIDE DEF a
<1>8. SubSeq(a, 1, 3) = h
  <2> HIDE DEF h
  <2>1. \A i \in 1 .. 3 : a[i] = h[i] BY <1>0, <1>5
  <2>2. \A i \in 1 .. 3 : h[i] \in Int BY <1>1, ElementOfSeq
  <2>3. SubSeq(a, 1, 3) \in Seq(Int) /\ Len(SubSeq(a, 1, 3)) = 3
        /\ \A i \in 1 .. 3 : SubSeq(a, 1, 3)[i] = a[i]
    <3>1. 3 <= Len(a) BY <1>2, <1>4
    <3>2. \A i \in 1 .. 3 : a[i] \in Int BY <2>1, <2>2
    <3>3. SubSeq(a, 1, 3) \in Seq(Int) BY <1>4, <3>1, BeginningIsSeq
    <3> QED BY <3>2, <3>3, SubSeqProperties
  <2>4. \A i \in 1 .. 3 : SubSeq(a, 1, 3)[i] = h[i] BY <2>1, <2>3
  <2> QED BY <1>1, <2>3, <2>4, SeqEqual
<1> QED BY <1>6, <1>7, <1>8 DEF a, b, h

LEMMA UnsolParts ==
  ASSUME NEW u \in Int, NEW w \in Seq(Int), NEW m \in Seq(Int), NEW a, a = <<1, u>> \o w \o m
  PROVE  SubSeq(a, 3, Len(a)) = w \o m
<1> DEFINE h == <<1, u>>
           b == w \o m
<1>0. a = (h \o w) \o m OBVIOUS
<1>1. h \in Seq(Int) /\ Len(h) = 2 OBVIOUS
<1> HIDE DEF h
<1>2. a = h \o b /\ b \in Seq(Int) BY <1>0, <1>1, ConcatInts
<1> HIDE DEF b
<1>3. Len(a) = Len(h) + Len(b) BY <1>1, <1>2, ConcatProperties
<1>4. SubSeq(h \o b, Len(h) + 1, Len(h) + Len(b)) = b BY <1>1, <1>2, ConcatSplit
<1>5. Len(h) + 1 = 3 BY <1>1
<1>6. SubSeq(a, Len(h) + 1, Len(a)) = b BY <1>2, <1>3, <1>4
<1>7. SubSeq(a, 3, Len(a)) = b BY <1>5, <1>6
<1> QED BY <1>7 DEF b

\* A string is read the same with the words that follow it.
LEMMA StringReadMore ==
  ASSUME NEW r \in Responses("string"), ~r.null, NEW m \in Seq(Int)
  PROVE  ReadBack("string", responseString(r).w \o m) = Reported("string", r)
<1>1. r.elems \in ElemsOf("string") BY ResponsesParts
<1>2. PICK t \in Seq(Sendable) : r.elems = <<t>> /\ KindsOf(t) = LayoutOf("string")
  BY <1>1, SingleElems DEF SingleTypes
<1>3. responseString(r).w = Words(t)
  <2>1. r.elems[1] = t BY <1>2
  <2>2. responseString(r) = Written(Words(r.elems[1])) BY <1>1, StringWritten DEF responseString
  <2> QED BY <2>1, <2>2, WrittenParts
<1>4. ReadBack("string", Words(t) \o m) = <<t>> BY <1>2, SingleReadMore DEF SingleTypes
<1>5. Reported("string", r) = r.elems BY DEF Reported
<1> QED BY <1>2, <1>3, <1>4, <1>5

LEMMA UnsolRead ==
  ASSUME PtrSize = 4, version \in {2, 3}, NEW type, NEW name,
         <<type, name>> \in ResponseRows \cup UnsolRows, NEW m \in Seq(Int),
         m = <<>> \/ type = "void" \/ type = "string",
         NEW r \in Responses(type), ~r.null, NEW f, f = responseFunction(name, r)
  PROVE  /\ WellFormed(type, r) => /\ f.ret = 0 /\ f.w \in Seq(Int)
                                   /\ ReadBack(type, f.w \o m) = Reported(type, r)
         /\ ~WellFormed(type, r) => f.ret = -1
<1>4. Answered(type, r, f) BY ResponseAnswered
<1>5. ASSUME WellFormed(type, r)
      PROVE  f.ret = 0 /\ f.w \in Seq(Int) /\ ReadBack(type, f.w) = Reported(type, r)
  BY <1>4, <1>5 DEF Answered
<1>6. ASSUME ~WellFormed(type, r) PROVE f.ret = -1 BY <1>4, <1>6 DEF Answered
<1>7. ASSUME WellFormed(type, r) PROVE ReadBack(type, f.w \o m) = Reported(type, r)
  <2>1. CASE m = <<>>
    <3>1. f.w \o m = f.w BY <1>5, <1>7, <2>1, ConcatEmptySeq
    <3> QED BY <1>5, <1>7, <3>1
  <2>2. CASE type = "void" BY <2>2, VoidAnswered
  <2>3. CASE type = "string"
    <3>1. name = "String" BY <2>3 DEF ResponseRows, UnsolRows
    <3>2. responseFunction("String", r) = responseString(r) BY DEF responseFunction
    <3>3. f = responseString(r) BY <3>1, <3>2
    <3>4. r \in Responses("string") BY <2>3
    <3>5. ReadBack("string", responseString(r).w \o m) = Reported("string", r)
      BY <3>4, StringReadMore
    <3> QED BY <2>3, <3>3, <3>5
  <2> QED BY <2>1, <2>2, <2>3
<1> QED BY <1>5, <1>6, <1>7

\* The invariant behind AnsweredAsCompleted: a pending request is one of the table.
AnswerInv == /\ version \in {2, 3}
             /\ phase = "pending" => req \in 1 .. 108
             /\ AnsweredAsCompleted

\* What the client is told depends on nothing of the state but the version.
LEMMA ReportedKept ==
  ASSUME NEW type, NEW r, version' = version
  PROVE  Reported(type, r)' = Reported(type, r)
BY DEF Reported

LEMMA Completed ==
  ASSUME NEW type, NEW r, NEW e, NEW q, NEW a, version' = version,
         phase' = "answered", req' = q, answer' = a,
         sent'.type = type, sent'.resp = r, sent'.err = e,
         SubSeq(a, 1, 3) = <<0, q, Token>>,
         r.null \/ WellFormed(type, r) => a[4] = e,
         ~r.null /\ WellFormed(type, r) =>
           ReadBack(type, SubSeq(a, 5, Len(a))) = Reported(type, r),
         ~(r.null \/ WellFormed(type, r)) => a[4] = -1
  PROVE  AnsweredAsCompleted'
<1>1. Reported(type, r)' = Reported(type, r) BY ReportedKept
<1>2. phase' # "unsol" /\ phase' # "withheld" OBVIOUS
<1>3. SubSeq(answer', 1, 3) = <<0, req', Token>> OBVIOUS
<1>4. CASE r.null \/ WellFormed(type, r)
  <2>1. ~r.null => ReadBack(type, SubSeq(a, 5, Len(a))) = Reported(type, r)' BY <1>1, <1>4
  <2> QED BY <1>2, <1>3, <1>4, <2>1 DEF AnsweredAsCompleted
<1>5. CASE ~(r.null \/ WellFormed(type, r))
  BY <1>2, <1>3, <1>5 DEF AnsweredAsCompleted
<1> QED BY <1>4, <1>5

LEMMA CompletedAnswered ==
  ASSUME PtrSize = 4, version \in {2, 3}, phase = "pending", req \in 1 .. 108,
         NEW e \in {0, 2}, NEW r \in Responses(ResponseType), RIL_onRequestComplete(e, r)
  PROVE  AnsweredAsCompleted'
<1>1. PICK q, type, name, a :
        /\ q = req /\ q \in 1 .. 108 /\ a = answer'
        /\ type = RIL_REQUEST[q][2] /\ name = s_commands[q][2]
  OBVIOUS
<1> DEFINE f == responseFunction(name, r)
           head == <<0, q, Token>>
           none == <<>>
           failure == -1
<1>2. phase' = "answered" /\ version' = version /\ req' = q
  BY <1>1 DEF RIL_onRequestComplete
<1>3. sent' = [type |-> type, resp |-> r, err |-> e] BY <1>1 DEF RIL_onRequestComplete
<1>4. sent'.type = type /\ sent'.resp = r /\ sent'.err = e BY <1>3
<1>5. a = CASE r.null               -> head \o <<e, 0, 0>>
            [] ~r.null /\ f.ret = 0 -> head \o <<e>> \o f.w
            [] OTHER                -> head \o <<f.ret>> \o f.w
  BY <1>1 DEF RIL_onRequestComplete
<1>6. <<type, name>> \in ResponseRows BY <1>1, ResponseTableAgrees
<1>7. r \in Responses(type) BY <1>1 DEF ResponseType
<1>8. type # "RIL_CDMA_InformationRecords" BY <1>6 DEF ResponseRows
<1>9. Token \in Int /\ q \in Int /\ e \in Int BY <1>1 DEF Token
<1>10. none \in Seq(Int) /\ failure \in Int OBVIOUS
<1>11. Answered(type, r, f) BY <1>6, <1>7, ResponseAnswered
<1> HIDE DEF f, none, failure
<1>12. CASE r.null
  <2> DEFINE three == <<e, 0, 0>>
  <2>1. head \in Seq(Int) /\ Len(head) = 3 BY <1>9
  <2>2. three \in Seq(Int) /\ Len(three) = 3 /\ three[1] = e BY <1>9
  <2>3. a = head \o three BY <1>5, <1>12
  <2> HIDE DEF head, three
  <2>4. SubSeq(a, 1, 3) = head BY <2>1, <2>2, <2>3, ConcatSplit
  <2>5. \A i \in 1 .. Len(head) + Len(three) :
          a[i] = IF i <= Len(head) THEN head[i] ELSE three[i - Len(head)]
    BY <2>1, <2>2, <2>3, ConcatProperties
  <2>6. 4 \in 1 .. 3 + 3 /\ ~(4 <= 3) /\ 4 - 3 = 1 OBVIOUS
  <2>7. a[4] = e BY <2>1, <2>2, <2>5, <2>6
  <2>8. SubSeq(a, 1, 3) = <<0, q, Token>> BY <2>4 DEF head
  <2> QED BY <1>1, <1>2, <1>4, <1>12, <2>7, <2>8, Completed
<1>13. CASE ~r.null /\ WellFormed(type, r)
  <2>1. f.ret = 0 /\ f.w \in Seq(Int) /\ ReadBack(type, f.w) = Reported(type, r)
    BY <1>11, <1>13 DEF Answered
  <2>2. a = <<0, q, Token>> \o <<e>> \o f.w BY <1>5, <1>13, <2>1
  <2>3. SubSeq(a, 1, 3) = <<0, q, Token>> /\ a[4] = e /\ SubSeq(a, 5, Len(a)) = f.w
    BY SMTT(30), <1>9, <2>1, <2>2, AnswerParts
  <2>4. ReadBack(type, SubSeq(a, 5, Len(a))) = Reported(type, r) BY <2>1, <2>3
  <2> QED BY <1>1, <1>2, <1>4, <1>13, <2>3, <2>4, Completed
<1>14. CASE ~r.null /\ ~WellFormed(type, r)
  <2>1. f.ret = failure /\ f.w = none BY <1>8, <1>11, <1>14 DEF Answered, none, failure
  <2>2. f.ret # 0 BY <2>1 DEF failure
  <2>3. a = <<0, q, Token>> \o <<failure>> \o none BY <1>5, <1>14, <2>1, <2>2
  <2>4. SubSeq(a, 1, 3) = <<0, q, Token>> /\ a[4] = failure
    BY <1>9, <1>10, <2>3, AnswerParts
  <2>5. a[4] = -1 BY <2>4 DEF failure
  <2> QED BY <1>1, <1>2, <1>4, <1>14, <2>4, <2>5, Completed
<1> QED BY <1>12, <1>13, <1>14

LEMMA Unsolicited ==
  ASSUME NEW type, NEW r, NEW a, version' = version, sent'.type = type, sent'.resp = r,
         answer' = a,
         \/ /\ phase' = "unsol"
            /\ ~r.null => ReadBack(type, SubSeq(a, 3, Len(a))) = Reported(type, r)
         \/ phase' = "withheld" /\ (r.null \/ ~WellFormed(type, r))
  PROVE  AnsweredAsCompleted'
<1>1. Reported(type, r)' = Reported(type, r) BY ReportedKept
<1>2. phase' # "answered" OBVIOUS
<1>3. CASE phase' = "unsol"
  <2>1. ~r.null => ReadBack(type, SubSeq(a, 3, Len(a))) = Reported(type, r)' BY <1>1, <1>3
  <2> QED BY <1>2, <1>3, <2>1 DEF AnsweredAsCompleted
<1>4. CASE phase' = "withheld" BY <1>2, <1>4 DEF AnsweredAsCompleted
<1> QED BY <1>3, <1>4

LEMMA UnsolSent ==
  ASSUME PtrSize = 4, version \in {2, 3}, NEW u \in Int, NEW type, NEW name,
         <<type, name>> \in ResponseRows \cup UnsolRows, NEW m \in Seq(Int),
         m = <<>> \/ type = "void" \/ type = "string", NEW r \in Responses(type),
         NEW f, f = responseFunction(name, r), NEW a, answer' = a,
         version' = version, sent'.type = type, sent'.resp = r,
         f.ret = 0 => phase' = "unsol" /\ a = <<1, u>> \o f.w \o m,
         f.ret # 0 => phase' = "withheld"
  PROVE  AnsweredAsCompleted'
<1>1. ASSUME ~r.null
      PROVE  /\ WellFormed(type, r) => /\ f.ret = 0 /\ f.w \in Seq(Int)
                                       /\ ReadBack(type, f.w \o m) = Reported(type, r)
             /\ ~WellFormed(type, r) => f.ret = -1
  BY <1>1, UnsolRead
<1>2. CASE f.ret = 0
  <2>1. phase' = "unsol" /\ a = <<1, u>> \o f.w \o m BY <1>2
  <2>2. ASSUME ~r.null PROVE ReadBack(type, SubSeq(a, 3, Len(a))) = Reported(type, r)
    <3> DEFINE w == f.w
    <3>1. WellFormed(type, r) BY <1>1, <1>2, <2>2
    <3>2. w \in Seq(Int) /\ ReadBack(type, w \o m) = Reported(type, r)
      BY <1>1, <2>2, <3>1
    <3>3. a = <<1, u>> \o w \o m BY <2>1
    <3> HIDE DEF w
    <3>4. SubSeq(a, 3, Len(a)) = w \o m BY <3>2, <3>3, UnsolParts
    <3> QED BY <3>2, <3>4
  <2> QED BY <2>1, <2>2, Unsolicited
<1>3. CASE f.ret # 0
  <2>1. phase' = "withheld" BY <1>3
  <2>2. r.null \/ ~WellFormed(type, r) BY <1>1, <1>3
  <2> QED BY <2>1, <2>2, Unsolicited
<1> QED BY <1>2, <1>3

\* A page of a broadcast message is sent, as far as its first zero byte.
LEMMA PageSent ==
  ASSUME NEW u, u = RIL_UNSOL_RESPONSE_NEW_BROADCAST_SMS, NEW r, RIL_onUnsolicitedResponse(u, r)
  PROVE  AnsweredAsCompleted'
<1>1. u - 999 = 22 BY DEF RIL_UNSOL_RESPONSE_NEW_BROADCAST_SMS
<1>2. s_unsolResponses[22][1] = "String" BY DEF s_unsolResponses
<1>3. responseFunction("String", r) = responseString(r) BY DEF responseFunction
<1>4. responseString(r).ret = 0 BY DEF responseString, Written
<1>5. phase' = "unsol" /\ req' = u
  BY <1>1, <1>2, <1>3, <1>4 DEF RIL_onUnsolicitedResponse
<1> QED BY <1>5 DEF AnsweredAsCompleted, RIL_UNSOL_RESPONSE_NEW_BROADCAST_SMS

LEMMA UnsolAnswered ==
  ASSUME PtrSize = 4, version \in {2, 3}, NEW u \in UnsolNumbers,
         u # RIL_UNSOL_RESPONSE_NEW_BROADCAST_SMS, NEW r \in Responses(UnsolType(u)), RIL_onUnsolicitedResponse(u, r)
  PROVE  AnsweredAsCompleted'
<1> DEFINE type == UnsolType(u)
           name == UnsolName(u)
           m == morePayload(u)
           f == responseFunction(name, r)
<1>1. version' = version BY DEF RIL_onUnsolicitedResponse
<1>2. sent'.type = type /\ sent'.resp = r
  <2>1. sent' = [type |-> type, resp |-> r, err |-> 0]
    BY DEF RIL_onUnsolicitedResponse, UnsolType
  <2> QED BY <2>1
<1>3. f.ret = 0 => phase' = "unsol" /\ answer' = <<1, u>> \o f.w \o m
  BY DEF RIL_onUnsolicitedResponse, UnsolName
<1>4. f.ret # 0 => phase' = "withheld" BY DEF RIL_onUnsolicitedResponse, UnsolName
<1>5. PICK a : answer' = a OBVIOUS
<1>6. f.ret = 0 => phase' = "unsol" /\ a = <<1, u>> \o f.w \o m BY <1>3, <1>5
<1>7. <<type, name>> \in ResponseRows \cup UnsolRows BY UnsolRow
<1>8. m \in Seq(Int) /\ u \in Int BY UnsolRow
<1>9. m = <<>> \/ type = "void" \/ type = "string" BY UnsolRow
<1>10. r \in Responses(type) OBVIOUS
<1> HIDE DEF type, name, m
<1> QED BY <1>1, <1>2, <1>4, <1>5, <1>6, <1>7, <1>8, <1>9, <1>10, UnsolSent

LEMMA AnswerInit == Init => AnswerInv
BY DEF Init, AnswerInv, AnsweredAsCompleted

\* A block that is not an answer leaves nothing to be said of one.
LEMMA NoAnswer ==
  ASSUME phase' \notin {"answered", "unsol", "withheld"}
  PROVE  AnsweredAsCompleted'
BY DEF AnsweredAsCompleted

LEMMA AnswerStep ==
  PtrSize = 4 /\ MarshalInv /\ AnswerInv /\ [Next]_vars => AnswerInv'
<1> SUFFICES ASSUME PtrSize = 4, MarshalInv, AnswerInv, [Next]_vars PROVE AnswerInv' OBVIOUS
<1>1. version \in {2, 3} BY DEF AnswerInv
<1>2. phase = "pending" => req \in 1 .. 108 BY DEF AnswerInv
<1>3. CASE \E q \in 0 .. 109 : \E d \in Data(DataType(q)) :
             \E n \in 0 .. Len(BlockOf(q, d)) : SendBlock(q, d, n)
  <2>1. version' = version /\ phase' = "sent" BY <1>3 DEF SendBlock
  <2> QED BY <1>1, <2>1, NoAnswer DEF AnswerInv
<1>4. CASE processCommandBuffer
  <2>1. phase = "sent" /\ version' = version /\ req' = req BY <1>4 DEF processCommandBuffer
  <2>2. phase' \in {"pending", "rejected", "ignored"} BY <1>4 DEF processCommandBuffer
  <2>3. phase' = "pending" => headerRead(block) /\ supported(block[1])
    BY <1>4 DEF processCommandBuffer
  <2>4. Sending BY DEF MarshalInv
  <2>5. headerRead(block) /\ supported(block[1]) => req \in 1 .. 108
    BY <2>1, <2>4, BlockSound
  <2>6. AnsweredAsCompleted' BY <2>2, NoAnswer
  <2> QED BY <1>1, <2>1, <2>3, <2>5, <2>6 DEF AnswerInv
<1>5. CASE \E e \in {0, 2}, r \in Responses(ResponseType) : RIL_onRequestComplete(e, r)
  <2>1. PICK e \in {0, 2}, r \in Responses(ResponseType) : RIL_onRequestComplete(e, r)
    BY <1>5
  <2>2. phase = "pending" /\ phase' = "answered" /\ version' = version
    BY <2>1 DEF RIL_onRequestComplete
  <2>3. AnsweredAsCompleted' BY <1>1, <1>2, <2>1, <2>2, CompletedAnswered
  <2> QED BY <1>1, <2>2, <2>3 DEF AnswerInv
<1>6. CASE \E u \in 1000 .. 1031 : \E r \in Responses(RIL_UNSOL[u - 999]) :
             RIL_onUnsolicitedResponse(u, r)
  <2>1. \E u \in UnsolNumbers : \E r \in Responses(UnsolType(u)) :
          RIL_onUnsolicitedResponse(u, r)
    BY <1>6 DEF UnsolNumbers, UnsolType
  <2>2. PICK u \in UnsolNumbers : \E r \in Responses(UnsolType(u)) :
          RIL_onUnsolicitedResponse(u, r)
    BY <2>1
  <2>3. PICK r \in Responses(UnsolType(u)) : RIL_onUnsolicitedResponse(u, r) BY <2>2
  <2>4. version' = version BY <2>3 DEF RIL_onUnsolicitedResponse
  <2>5. phase' \in {"unsol", "withheld"} BY <2>3 DEF RIL_onUnsolicitedResponse
  <2>6. AnsweredAsCompleted' BY <1>1, <2>3, UnsolAnswered, PageSent
  <2> QED BY <1>1, <2>4, <2>5, <2>6 DEF AnswerInv
<1>7. CASE Finish
  <2>1. version' = version /\ phase' = "idle" BY <1>7 DEF Finish, Idle
  <2> QED BY <1>1, <2>1, NoAnswer DEF AnswerInv
<1>8. CASE UNCHANGED vars
  <2>1. version' = version BY <1>8 DEF vars
  <2>2. phase' = phase BY <1>8 DEF vars
  <2>3. req' = req BY <1>8 DEF vars
  <2>4. sent' = sent BY <1>8 DEF vars
  <2>5. answer' = answer BY <1>8 DEF vars
  <2>6. AnsweredAsCompleted BY DEF AnswerInv
  <2>7. AnsweredAsCompleted'
    BY <2>1, <2>2, <2>3, <2>4, <2>5, <2>6 DEF AnsweredAsCompleted, Reported
  <2> QED BY <1>1, <1>2, <2>1, <2>2, <2>3, <2>7 DEF AnswerInv
<1> QED BY <1>3, <1>4, <1>5, <1>6, <1>7, <1>8 DEF Next

(* AnsweredAsCompleted: on a build of 32 bits the client that reads an answer *)
(* by the type ril.h gives the request finds its token, the error and the     *)
(* members the vendor RIL passed to RIL_onRequestComplete, and a failure when *)
(* the response function refused them; an unsolicited response is sent with   *)
(* its members, and kept back only when they are refused. Left out are the    *)
(* data of a NULL response, for which two zero words stand, and the page of   *)
(* NEW_BROADCAST_SMS, which responseString cuts short. A pointer of 8 bytes   *)
(* would leave out ints: responseInts divides the length by the size of a     *)
(* pointer to an int.                                                         *)
THEOREM AnsweredAsCompletedAlways ==
  ASSUME PtrSize = 4
  PROVE  Spec => []AnsweredAsCompleted
<1>1. Init => AnswerInv BY AnswerInit
<1>2. MarshalInv /\ AnswerInv /\ [Next]_vars => AnswerInv' BY AnswerStep
<1>3. AnswerInv => AnsweredAsCompleted BY DEF AnswerInv
<1> QED BY <1>1, <1>2, <1>3, MarshalSound, PTL DEF Spec
=============================================================================
