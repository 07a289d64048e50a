-------------------------------- MODULE Lemmas --------------------------------
(***************************************************************************)
(* What the proofs of several components need: the total of a budget when  *)
(* one owner takes or gives back units; induction over numbers and         *)
(* sequences; and what a sliding window does to a queue of ages.           *)
(*                                                                         *)
(* Induction is stated for sets and not for predicates: no prover at hand  *)
(* instantiates a theorem that has an operator for a parameter.  It comes  *)
(* from WFMin, a theorem of the library about sets.                        *)
(***************************************************************************)
EXTENDS Budgets, Windows, FiniteSetTheorems, WellFoundedInduction, TLAPS

-----------------------------------------------------------------------------
(* Budgets *)

\* n units of one owner are n units.
LEMMA UnitsOfOne ==
  ASSUME NEW o, NEW n \in Nat
  PROVE  IsFiniteSet({o} \X (1 .. n)) /\ Cardinality({o} \X (1 .. n)) = n
<1>1. IsFiniteSet({o}) /\ Cardinality({o}) = 1
  BY FS_Singleton
<1>2. IsFiniteSet(1 .. n) /\ Cardinality(1 .. n) = n
  BY FS_Interval
<1>3. /\ IsFiniteSet({o} \X (1 .. n))
      /\ Cardinality({o} \X (1 .. n)) = Cardinality({o}) * Cardinality(1 .. n)
  BY <1>1, <1>2, FS_Product
<1> QED BY <1>1, <1>2, <1>3

\* Finitely many owners hold finitely many units.
LEMMA TotalType ==
  ASSUME NEW S, IsFiniteSet(S), NEW held \in [S -> Nat]
  PROVE  IsFiniteSet(Units(held)) /\ Total(held) \in Nat
<1> DEFINE parts == {{o} \X (1 .. held[o]) : o \in S}
           f == [o \in S |-> {o} \X (1 .. held[o])]
<1>1. f \in Surjection(S, parts)
  BY DEF Surjection
<1>2. IsFiniteSet(parts)
  BY <1>1, FS_Surjection
<1>3. ASSUME NEW T \in parts PROVE IsFiniteSet(T)
  <2> PICK o \in S : T = {o} \X (1 .. held[o])
    OBVIOUS
  <2> held[o] \in Nat
    OBVIOUS
  <2> QED BY UnitsOfOne
<1>4. IsFiniteSet(UNION parts)
  BY <1>2, <1>3, FS_UNION
<1>5. UNION parts = Units(held)
  BY DEF Units
<1> QED BY <1>4, <1>5, FS_CardinalityType DEF Total

\* Nobody holds anything.
LEMMA TotalZero ==
  ASSUME NEW S, NEW held \in [S -> Nat], \A o \in S : held[o] = 0
  PROVE  Total(held) = 0
<1>1. Units(held) = {}
  BY DEF Units
<1> QED BY <1>1, FS_EmptySet DEF Total

\* The units of all are those of one owner and those of the others.
LEMMA TotalSplit ==
  ASSUME NEW S, IsFiniteSet(S), NEW held \in [S -> Nat], NEW o \in S
  PROVE  LET rest == UNION {{x} \X (1 .. held[x]) : x \in S \ {o}}
         IN  /\ IsFiniteSet(rest) /\ Cardinality(rest) \in Nat
             /\ Total(held) = Cardinality(rest) + held[o]
<1> DEFINE one == {o} \X (1 .. held[o])
           rest == UNION {{x} \X (1 .. held[x]) : x \in S \ {o}}
<1>1. Units(held) = rest \cup one
  BY DEF Units
<1>2. rest \cap one = {}
  OBVIOUS
<1>3. IsFiniteSet(Units(held))
  BY TotalType
<1>4. IsFiniteSet(rest) /\ IsFiniteSet(one)
  BY <1>1, <1>3, FS_Subset
<1>5. Cardinality(one) = held[o] /\ held[o] \in Nat
  BY UnitsOfOne
<1>6. Cardinality(rest \cup one) = Cardinality(rest) + Cardinality(one) - Cardinality(rest \cap one)
  BY <1>4, FS_Union
<1>7. Cardinality(rest \cap one) = 0 /\ Cardinality(rest) \in Nat
  BY <1>2, <1>4, FS_EmptySet, FS_CardinalityType
<1> HIDE DEF one, rest
<1>8. Total(held) = Cardinality(rest) + held[o]
  BY <1>1, <1>5, <1>6, <1>7 DEF Total
<1> QED BY <1>4, <1>7, <1>8 DEF rest

\* One owner takes or gives back; the total moves by as much.
THEOREM TotalChange ==
  ASSUME NEW S, IsFiniteSet(S), NEW held \in [S -> Nat], NEW now \in [S -> Nat],
         NEW o \in S, \A x \in S \ {o} : now[x] = held[x]
  PROVE  Total(now) = Total(held) + now[o] - held[o]
<1> DEFINE before == UNION {{x} \X (1 .. held[x]) : x \in S \ {o}}
           after == UNION {{x} \X (1 .. now[x]) : x \in S \ {o}}
<1>1. before = after
  OBVIOUS
<1>2. Total(held) = Cardinality(before) + held[o] /\ Cardinality(before) \in Nat
  BY TotalSplit
<1>3. Total(now) = Cardinality(after) + now[o]
  BY TotalSplit
<1>4. held[o] \in Nat /\ now[o] \in Nat
  OBVIOUS
<1> HIDE DEF before, after
<1> QED BY <1>1, <1>2, <1>3, <1>4

\* Nobody holds more than all together.
LEMMA PartOfTotal ==
  ASSUME NEW S, IsFiniteSet(S), NEW held \in [S -> Nat], NEW o \in S
  PROVE  held[o] <= Total(held)
<1>1. PICK n \in Nat : Total(held) = n + held[o]
  BY TotalSplit
<1> QED BY <1>1

-----------------------------------------------------------------------------
(* Induction *)

\* A set of numbers that is not empty has a least one.
LEMMA LeastNumber ==
  ASSUME NEW S \in SUBSET Nat, S # {}
  PROVE  \E x \in S : \A y \in S : x <= y
<1> DEFINE less == OpToRel(<, Nat)
<1>1. ASSUME NEW a \in Nat, NEW b \in Nat, a < b
      PROVE  <<a, b>> \in less
  BY <1>1 DEF OpToRel
<1>2. IsWellFoundedOn(less, Nat)
  BY NatLessThanWellFounded
<1> HIDE DEF less
<1>3. PICK x \in S : \A y \in S : ~(<<y, x>> \in less)
  BY <1>2, WFMin
<1>4. ASSUME NEW y \in S
      PROVE  x <= y
  <2>1. ~(y < x)
    BY <1>1, <1>3
  <2> QED
    BY <2>1
<1> QED
  BY <1>4

\* A set that has 0 and the successor of each of its numbers has every number.
LEMMA NumberInduction ==
  ASSUME NEW S \in SUBSET Nat, 0 \in S, \A n \in S : n + 1 \in S
  PROVE  S = Nat
<1> SUFFICES ASSUME S # Nat PROVE FALSE
  OBVIOUS
<1> DEFINE missing == Nat \ S
<1>1. PICK x \in missing : \A y \in missing : x <= y
  BY LeastNumber
<1>2. x - 1 \in Nat /\ (x - 1) + 1 = x
  OBVIOUS
<1>3. x - 1 \in S
  BY <1>1, <1>2
<1> QED
  BY <1>2, <1>3

\* What is left of a sequence without its last element.
LEMMA Shortened ==
  ASSUME NEW T, NEW s \in Seq(T), s # <<>>
  PROVE  LET front == [i \in 1..(Len(s) - 1) |-> s[i]]
         IN  /\ front \in Seq(T) /\ Len(front) = Len(s) - 1 /\ s[Len(s)] \in T
             /\ s = Append(front, s[Len(s)])
<1> DEFINE front == [i \in 1..(Len(s) - 1) |-> s[i]]
<1>1. Len(s) \in Nat \ {0} /\ s[Len(s)] \in T
  OBVIOUS
<1>2. front \in Seq(T) /\ Len(front) = Len(s) - 1
  BY <1>1
<1>3. s = Append(front, s[Len(s)])
  BY <1>1, <1>2
<1> QED
  BY <1>1, <1>2, <1>3

\* A set that has the empty sequence and stays closed when one is made longer has
\* every sequence.
LEMMA SequenceInduction ==
  ASSUME NEW T, NEW P \in SUBSET Seq(T), <<>> \in P,
         \A s \in P, x \in T : Append(s, x) \in P
  PROVE  P = Seq(T)
<1> DEFINE S == {n \in Nat : \A s \in Seq(T) : Len(s) = n => s \in P}
<1>1. 0 \in S
  <2>1. \A s \in Seq(T) : Len(s) = 0 => s = <<>>
    OBVIOUS
  <2> QED
    BY <2>1
<1>2. ASSUME NEW n \in S
      PROVE  n + 1 \in S
  <2> SUFFICES ASSUME NEW s \in Seq(T), Len(s) = n + 1 PROVE s \in P
    OBVIOUS
  <2>1. s # <<>> /\ n \in Nat
    OBVIOUS
  <2>2. PICK front \in Seq(T) : Len(front) = Len(s) - 1 /\ s[Len(s)] \in T
                                /\ s = Append(front, s[Len(s)])
    BY <2>1, Shortened
  <2>3. Len(front) = n
    BY <2>1, <2>2
  <2>4. front \in P
    BY <2>3
  <2> QED
    BY <2>2, <2>4
<1>3. S = Nat
  <2> HIDE DEF S
  <2>1. S \in SUBSET Nat
    BY DEF S
  <2> QED
    BY <1>1, <1>2, <2>1, NumberInduction
<1>4. ASSUME NEW s \in Seq(T)
      PROVE  s \in P
  <2>1. Len(s) \in S
    BY <1>3
  <2> QED
    BY <2>1
<1> QED
  BY <1>4
-----------------------------------------------------------------------------
(* Windows *)

\* The recursion of Retain, as an equation.
Retention(f, q, w) ==
  f = [i \in 0..Len(q) |-> IF i = 0 THEN <<>>
                           ELSE IF q[i] < w THEN Append(f[i - 1], q[i]) ELSE f[i - 1]]

\* Its solution step by step.
LEMMA RetentionSteps ==
  ASSUME NEW q \in Seq(Nat), NEW w, NEW f, Retention(f, q, w)
  PROVE  /\ f[0] = <<>>
         /\ \A i \in 1..Len(q) : f[i] = IF q[i] < w THEN Append(f[i - 1], q[i]) ELSE f[i - 1]
<1> DEFINE g == [i \in 0..Len(q) |-> IF i = 0 THEN <<>>
                                     ELSE IF q[i] < w THEN Append(f[i - 1], q[i]) ELSE f[i - 1]]
<1>1. f = g
  BY DEF Retention
<1>2. Len(q) \in Nat
  OBVIOUS
<1>3. g[0] = <<>>
  BY <1>2
<1>4. \A i \in 1..Len(q) : g[i] = IF q[i] < w THEN Append(f[i - 1], q[i]) ELSE f[i - 1]
  BY <1>2
<1> HIDE DEF g
<1> QED
  BY <1>1, <1>3, <1>4

\* A longer queue has a solution when the shorter one has.
LEMMA RetentionExtends ==
  ASSUME NEW q \in Seq(Nat), NEW a \in Nat, NEW w, NEW f, Retention(f, q, w)
  PROVE  \E g : Retention(g, Append(q, a), w)
<1> DEFINE n == Len(q)
           last == IF a < w THEN Append(f[n], a) ELSE f[n]
           long == Append(q, a)
           g == [i \in 0..(n + 1) |-> IF i = n + 1 THEN last ELSE f[i]]
           h == [i \in 0..Len(long) |->
                   IF i = 0 THEN <<>>
                   ELSE IF long[i] < w THEN Append(g[i - 1], long[i]) ELSE g[i - 1]]
<1>1. n \in Nat /\ Len(long) = n + 1 /\ long[n + 1] = a /\ \A i \in 1..n : long[i] = q[i]
  OBVIOUS
<1>2. /\ f[0] = <<>>
      /\ \A i \in 1..n : f[i] = IF q[i] < w THEN Append(f[i - 1], q[i]) ELSE f[i - 1]
  BY RetentionSteps
<1>3. ASSUME NEW i \in 0..(n + 1)
      PROVE  g[i] = h[i]
  <2>1. CASE i = 0
    BY <1>1, <1>2, <2>1
  <2>2. CASE i \in 1..n
    <3>1. i - 1 \in 0..(n + 1) /\ i - 1 # n + 1 /\ i # n + 1 /\ i # 0 /\ i \in 0..Len(long)
      BY <1>1, <2>2
    <3>2. g[i - 1] = f[i - 1] /\ g[i] = f[i]
      BY <3>1
    <3> QED
      BY <1>1, <1>2, <2>2, <3>1, <3>2
  <2>3. CASE i = n + 1
    <3>1. i - 1 = n /\ i - 1 \in 0..(n + 1) /\ i - 1 # n + 1 /\ i # 0 /\ i \in 0..Len(long)
      BY <1>1, <2>3
    <3>2. g[i - 1] = f[n] /\ g[i] = last
      BY <2>3, <3>1
    <3> QED
      BY <1>1, <2>3, <3>1, <3>2
  <2> QED
    BY <1>1, <2>1, <2>2, <2>3
<1>4. g = h
  BY <1>1, <1>3
<1>5. Retention(g, long, w)
  BY <1>4 DEF Retention
<1> QED
  BY <1>5

\* Every queue has one.
LEMMA RetentionExists ==
  ASSUME NEW q \in Seq(Nat), NEW w
  PROVE  \E f : Retention(f, q, w)
<1> DEFINE P == {s \in Seq(Nat) : \E f : Retention(f, s, w)}
<1>1. <<>> \in P
  <2> DEFINE none == [i \in 0..0 |-> <<>>]
             all == [i \in 0..Len(<<>>) |->
                       IF i = 0 THEN <<>>
                       ELSE IF <<>>[i] < w THEN Append(none[i - 1], <<>>[i]) ELSE none[i - 1]]
  <2>1. none = all
    OBVIOUS
  <2>2. Retention(none, <<>>, w)
    BY <2>1 DEF Retention
  <2> QED
    BY <2>2
<1>2. ASSUME NEW s \in P, NEW x \in Nat
      PROVE  Append(s, x) \in P
  BY RetentionExtends
<1>3. P \in SUBSET Seq(Nat)
  OBVIOUS
<1> HIDE DEF P
<1>4. P = Seq(Nat)
  BY <1>1, <1>2, <1>3, SequenceInduction
<1> QED
  BY <1>4 DEF P

\* Solutions agree on what two queues share.
LEMMA RetentionAgrees ==
  ASSUME NEW q \in Seq(Nat), NEW a \in Nat, NEW w,
         NEW f, Retention(f, q, w), NEW g, Retention(g, Append(q, a), w)
  PROVE  f[Len(q)] = g[Len(q)]
<1> DEFINE n == Len(q)
           S == {i \in Nat : i <= n => f[i] = g[i]}
           long == Append(q, a)
<1>1. /\ n \in Nat /\ Len(long) = n + 1 /\ \A i \in 1..n : long[i] = q[i]
      /\ long \in Seq(Nat)
  OBVIOUS
<1> HIDE DEF long
<1>2. /\ f[0] = <<>>
      /\ \A i \in 1..n : f[i] = IF q[i] < w THEN Append(f[i - 1], q[i]) ELSE f[i - 1]
  BY RetentionSteps
<1>3. /\ g[0] = <<>>
      /\ \A i \in 1..(n + 1) : g[i] = IF long[i] < w THEN Append(g[i - 1], long[i])
                                      ELSE g[i - 1]
  <2>1. Retention(g, long, w)
    BY DEF long
  <2>2. /\ g[0] = <<>>
        /\ \A i \in 1..Len(long) : g[i] = IF long[i] < w THEN Append(g[i - 1], long[i])
                                          ELSE g[i - 1]
    BY <1>1, <2>1, RetentionSteps
  <2> QED
    BY <1>1, <2>2
<1>4. 0 \in S
  BY <1>2, <1>3
<1>5. ASSUME NEW i \in S
      PROVE  i + 1 \in S
  <2> SUFFICES ASSUME i + 1 <= n PROVE f[i + 1] = g[i + 1]
    OBVIOUS
  <2>1. i \in Nat /\ (i <= n => f[i] = g[i]) /\ n \in Nat
    BY <1>1
  <2> HIDE DEF n, S
  <2>2. i + 1 \in 1..n /\ i + 1 \in 1..(n + 1) /\ (i + 1) - 1 = i /\ i <= n
    BY <2>1
  <2> QED
    BY <1>1, <1>2, <1>3, <2>1, <2>2
<1>6. S \in SUBSET Nat
  OBVIOUS
<1>7. n \in S
  <2> HIDE DEF S, n
  <2> QED
    BY <1>1, <1>4, <1>5, <1>6, NumberInduction
<1> QED
  BY <1>7

\* Retain of a queue that got one more.
LEMMA RetainAppend ==
  ASSUME NEW q \in Seq(Nat), NEW a \in Nat, NEW w
  PROVE  /\ Retain(<<>>, w) = <<>>
         /\ Retain(Append(q, a), w) = IF a < w THEN Append(Retain(q, w), a) ELSE Retain(q, w)
<1> DEFINE f == CHOOSE x : Retention(x, q, w)
           g == CHOOSE x : Retention(x, Append(q, a), w)
           z == CHOOSE x : Retention(x, <<>>, w)
<1>1. Retain(q, w) = f[Len(q)] /\ Retain(Append(q, a), w) = g[Len(Append(q, a))]
      /\ Retain(<<>>, w) = z[Len(<<>>)]
  BY DEF Retain, Retention
<1>2. Append(q, a) \in Seq(Nat) /\ <<>> \in Seq(Nat) /\ Len(<<>>) = 0
  OBVIOUS
<1>3. Retention(f, q, w) /\ Retention(g, Append(q, a), w) /\ Retention(z, <<>>, w)
  BY <1>2, RetentionExists
<1> HIDE DEF f, g, z
<1>4. f[Len(q)] = g[Len(q)]
  BY <1>3, RetentionAgrees
<1>5. Len(Append(q, a)) = Len(q) + 1 /\ Append(q, a)[Len(q) + 1] = a /\ Len(q) \in Nat
  OBVIOUS
<1>6. /\ z[0] = <<>>
      /\ g[Len(q) + 1] = IF a < w THEN Append(g[Len(q)], a) ELSE g[Len(q)]
  <2> DEFINE long == Append(q, a)
  <2>1. Len(q) + 1 \in 1..Len(long) /\ (Len(q) + 1) - 1 = Len(q) /\ long[Len(q) + 1] = a
    BY <1>5
  <2>2. Retention(g, long, w) /\ long \in Seq(Nat)
    BY <1>2, <1>3
  <2> HIDE DEF long
  <2>3. \A i \in 1..Len(long) : g[i] = IF long[i] < w THEN Append(g[i - 1], long[i])
                                      ELSE g[i - 1]
    BY <2>2, RetentionSteps
  <2>4. g[Len(q) + 1] = IF a < w THEN Append(g[Len(q)], a) ELSE g[Len(q)]
    BY <2>1, <2>3
  <2>5. z[0] = <<>>
    <3>1. Retention(z, <<>>, w) /\ <<>> \in Seq(Nat)
      BY <1>2, <1>3
    <3> QED
      BY <3>1, RetentionSteps
  <2> QED
    BY <2>4, <2>5
<1> QED
  BY <1>1, <1>2, <1>4, <1>5, <1>6

\* Nothing is kept of nothing.
LEMMA RetainEmpty == ASSUME NEW w PROVE Retain(<<>>, w) = <<>>
<1>1. <<>> \in Seq(Nat) /\ 0 \in Nat
  OBVIOUS
<1> QED
  BY <1>1, RetainAppend

\* What Retain keeps: ages within the window, all of them when there are no others.
LEMMA RetainFacts ==
  ASSUME NEW q \in Seq(Nat), NEW w
  PROVE  /\ Retain(q, w) \in Seq(Nat) /\ Len(Retain(q, w)) <= Len(q)
         /\ \A i \in 1..Len(Retain(q, w)) : Retain(q, w)[i] < w
         /\ (\A i \in 1..Len(q) : q[i] < w) => Retain(q, w) = q
<1> DEFINE Holds(s) ==
             /\ Retain(s, w) \in Seq(Nat) /\ Len(Retain(s, w)) <= Len(s)
             /\ \A i \in 1..Len(Retain(s, w)) : Retain(s, w)[i] < w
             /\ (\A i \in 1..Len(s) : s[i] < w) => Retain(s, w) = s
           P == {s \in Seq(Nat) : Holds(s)}
<1>1. <<>> \in P
  <2>1. Retain(<<>>, w) = <<>>
    BY RetainEmpty
  <2> DEFINE r == Retain(<<>>, w)
  <2>2. <<>> \in Seq(Nat) /\ Len(<<>>) = 0 /\ \A i \in 1..0 : FALSE
    OBVIOUS
  <2> HIDE DEF r
  <2>3. /\ r \in Seq(Nat) /\ Len(r) <= Len(<<>>) /\ r = <<>>
        /\ \A i \in 1..Len(r) : r[i] < w
    <3>1. r = <<>>
      BY <2>1 DEF r
    <3>2. Len(r) = 0 /\ Len(r) <= Len(<<>>)
      BY <2>2, <3>1
    <3> QED
      BY <2>2, <3>1, <3>2
  <2>4. Holds(<<>>)
    BY <2>3, Zenon DEF r
  <2> QED
    BY <2>2, <2>4, Zenon
<1>2. ASSUME NEW s \in P, NEW a \in Nat
      PROVE  Append(s, a) \in P
  <2> DEFINE r == Retain(s, w)
             t == Append(s, a)
  <2>1. Retain(t, w) = IF a < w THEN Append(r, a) ELSE r
    BY RetainAppend
  <2>2. /\ r \in Seq(Nat) /\ Len(r) <= Len(s) /\ \A i \in 1..Len(r) : r[i] < w
        /\ (\A i \in 1..Len(s) : s[i] < w) => r = s
    OBVIOUS
  <2>3. /\ t \in Seq(Nat) /\ Len(t) = Len(s) + 1 /\ t[Len(s) + 1] = a
        /\ \A i \in 1..Len(s) : t[i] = s[i] /\ i \in 1..Len(t)
        /\ Len(s) + 1 \in 1..Len(t) /\ Len(s) \in Nat
    OBVIOUS
  <2> HIDE DEF t, r
  <2>4. Retain(t, w) \in Seq(Nat) /\ Len(Retain(t, w)) <= Len(t)
    BY <2>1, <2>2, <2>3
  <2>5. \A i \in 1..Len(Retain(t, w)) : Retain(t, w)[i] < w
    BY <2>1, <2>2
  <2>6. ASSUME \A i \in 1..Len(t) : t[i] < w
        PROVE  Retain(t, w) = t
    <3>1. a < w /\ r = s
      BY <2>2, <2>3, <2>6
    <3> QED
      BY <2>1, <3>1 DEF t
  <2> QED
    BY <2>3, <2>4, <2>5, <2>6 DEF t
<1>3. P \in SUBSET Seq(Nat)
  OBVIOUS
<1> HIDE DEF P
<1>4. P = Seq(Nat)
  BY <1>1, <1>2, <1>3, SequenceInduction
<1> QED
  BY <1>4 DEF P

\* Trimming twice is trimming once.
LEMMA RetainTwice ==
  ASSUME NEW q \in Seq(Nat), NEW w
  PROVE  Retain(Retain(q, w), w) = Retain(q, w)
<1> DEFINE r == Retain(q, w)
<1>1. r \in Seq(Nat) /\ \A i \in 1..Len(r) : r[i] < w
  BY RetainFacts
<1> HIDE DEF r
<1>2. Retain(r, w) = r
  BY <1>1, RetainFacts
<1> QED
  BY <1>2 DEF r

\* A sequence is what its elements make it.
LEMMA SequenceIsFunction ==
  ASSUME NEW T, NEW s \in Seq(T)
  PROVE  s = [i \in 1..Len(s) |-> s[i]]
  OBVIOUS

\* A tick for a queue that got one more.
LEMMA AgedAppend ==
  ASSUME NEW q \in Seq(Nat), NEW a \in Nat, NEW most \in Nat
  PROVE  /\ Aged(<<>>, most) = <<>> /\ Aged(q, most) \in Seq(Nat)
         /\ Len(Aged(q, most)) = Len(q)
         /\ Aged(Append(q, a), most) = Append(Aged(q, most), IF a < most THEN a + 1 ELSE a)
<1> DEFINE b == IF a < most THEN a + 1 ELSE a
           t == Append(q, a)
           u == Aged(q, most)
<1>1. Aged(<<>>, most) = <<>>
  BY DEF Aged
<1>2. DOMAIN q = 1..Len(q) /\ Len(q) \in Nat /\ b \in Nat /\ \A i \in 1..Len(q) : q[i] \in Nat
  OBVIOUS
<1>3. /\ u \in Seq(Nat) /\ Len(u) = Len(q)
      /\ \A i \in 1..Len(q) : u[i] = IF q[i] < most THEN q[i] + 1 ELSE q[i]
  BY <1>2 DEF Aged
<1>4. /\ t \in Seq(Nat) /\ DOMAIN t = 1..(Len(q) + 1) /\ t[Len(q) + 1] = a
      /\ \A i \in 1..Len(q) : t[i] = q[i]
  BY <1>2
<1>5. /\ Aged(t, most) = [i \in 1..(Len(q) + 1) |-> IF t[i] < most THEN t[i] + 1 ELSE t[i]]
  BY <1>4 DEF Aged
<1> HIDE DEF t, u, b
<1>6. Append(u, b) = [i \in 1..(Len(q) + 1) |-> IF i = Len(q) + 1 THEN b ELSE u[i]]
  <2>1. /\ Append(u, b) \in Seq(Nat) /\ Len(Append(u, b)) = Len(q) + 1
        /\ Append(u, b)[Len(q) + 1] = b
        /\ \A i \in 1..Len(q) : Append(u, b)[i] = u[i]
    BY <1>2, <1>3
  <2>2. Append(u, b) = [i \in 1..(Len(q) + 1) |-> Append(u, b)[i]]
    BY <2>1, SequenceIsFunction
  <2>3. ASSUME NEW i \in 1..(Len(q) + 1)
        PROVE  Append(u, b)[i] = IF i = Len(q) + 1 THEN b ELSE u[i]
    BY <1>2, <2>1
  <2> QED
    BY <2>2, <2>3
<1>7. ASSUME NEW i \in 1..(Len(q) + 1)
      PROVE  (IF t[i] < most THEN t[i] + 1 ELSE t[i]) = (IF i = Len(q) + 1 THEN b ELSE u[i])
  <2>1. CASE i = Len(q) + 1
    BY <1>4, <2>1 DEF b
  <2>2. CASE i \in 1..Len(q)
    <3>1. t[i] = q[i] /\ i # Len(q) + 1
      BY <1>2, <1>4, <2>2
    <3>2. u[i] = IF q[i] < most THEN q[i] + 1 ELSE q[i]
      BY <1>3, <2>2
    <3> QED
      BY <3>1, <3>2
  <2> QED
    BY <1>2, <2>1, <2>2
<1>8. Aged(t, most) = Append(u, b)
  BY <1>5, <1>6, <1>7
<1> QED
  BY <1>1, <1>3, <1>8 DEF t, u, b

\* A tick leaves a queue of ages.
LEMMA AgedType ==
  ASSUME NEW q \in Seq(Nat), NEW most \in Nat
  PROVE  Aged(q, most) \in Seq(Nat) /\ Len(Aged(q, most)) = Len(q)
<1>1. 0 \in Nat
  OBVIOUS
<1> QED
  BY <1>1, AgedAppend

\* What was out of the window before a tick is out of it afterwards, trimmed or not.
LEMMA RetainAged ==
  ASSUME NEW q \in Seq(Nat), NEW w \in Nat, NEW most \in Nat, w <= most
  PROVE  Retain(Aged(q, most), w) = Retain(Aged(Retain(q, w), most), w)
<1> DEFINE P == {s \in Seq(Nat) : Retain(Aged(s, most), w) = Retain(Aged(Retain(s, w), most), w)}
<1>1. <<>> \in P
  <2>1. Retain(<<>>, w) = <<>> /\ Aged(<<>>, most) = <<>>
    BY RetainAppend, AgedAppend
  <2> QED
    BY <2>1
<1>2. ASSUME NEW s \in P, NEW a \in Nat
      PROVE  Append(s, a) \in P
  <2> DEFINE b == IF a < most THEN a + 1 ELSE a
             r == Retain(s, w)
             t == Append(s, a)
  <2>1. s \in Seq(Nat) /\ r \in Seq(Nat) /\ b \in Nat /\ t \in Seq(Nat)
    BY RetainFacts
  <2>2. Aged(s, most) \in Seq(Nat) /\ Aged(r, most) \in Seq(Nat)
    BY <2>1, AgedAppend
  <2>3. /\ Aged(t, most) = Append(Aged(s, most), b)
        /\ Aged(Append(r, a), most) = Append(Aged(r, most), b)
    BY <2>1, AgedAppend
  <2>4. Retain(t, w) = IF a < w THEN Append(r, a) ELSE r
    BY <2>1, RetainAppend
  <2>5. Retain(Aged(t, most), w) = IF b < w THEN Append(Retain(Aged(s, most), w), b)
                                   ELSE Retain(Aged(s, most), w)
    <3> HIDE DEF b, t
    <3> QED
      BY <2>1, <2>2, <2>3, RetainAppend
  <2>6. Retain(Append(Aged(r, most), b), w)
          = IF b < w THEN Append(Retain(Aged(r, most), w), b) ELSE Retain(Aged(r, most), w)
    <3> HIDE DEF b, r
    <3> QED
      BY <2>1, <2>2, RetainAppend
  <2>7. Retain(Aged(s, most), w) = Retain(Aged(r, most), w)
    OBVIOUS
  <2>8. ~(a < w) => ~(b < w)
    OBVIOUS
  <2> HIDE DEF b, r, t
  <2>9. Retain(Aged(t, most), w) = Retain(Aged(Retain(t, w), most), w)
    <3>1. CASE a < w
      BY <2>3, <2>4, <2>5, <2>6, <2>7, <3>1
    <3>2. CASE ~(a < w)
      BY <2>4, <2>5, <2>7, <2>8, <3>2
    <3> QED
      BY <3>1, <3>2
  <2> QED
    BY <2>1, <2>9 DEF t
<1>3. P \in SUBSET Seq(Nat)
  OBVIOUS
<1> HIDE DEF P
<1>4. P = Seq(Nat)
  BY <1>1, <1>2, <1>3, SequenceInduction
<1> QED
  BY <1>4 DEF P

\* A shorter window after a longer one is the shorter one alone.
LEMMA RetainLess ==
  ASSUME NEW q \in Seq(Nat), NEW w \in Nat, NEW v \in Nat, v <= w
  PROVE  Retain(Retain(q, w), v) = Retain(q, v)
<1> DEFINE P == {s \in Seq(Nat) : Retain(Retain(s, w), v) = Retain(s, v)}
<1>1. <<>> \in P
  BY RetainEmpty
<1>2. ASSUME NEW s \in P, NEW a \in Nat
      PROVE  Append(s, a) \in P
  <2> DEFINE r == Retain(s, w)
             t == Append(s, a)
  <2>1. s \in Seq(Nat) /\ r \in Seq(Nat) /\ t \in Seq(Nat) /\ Retain(r, v) = Retain(s, v)
    BY RetainFacts
  <2>2. /\ Retain(t, w) = IF a < w THEN Append(r, a) ELSE r
        /\ Retain(t, v) = IF a < v THEN Append(Retain(s, v), a) ELSE Retain(s, v)
        /\ Retain(Append(r, a), v) = IF a < v THEN Append(Retain(r, v), a) ELSE Retain(r, v)
    <3> HIDE DEF P
    <3>1. Retain(t, w) = IF a < w THEN Append(r, a) ELSE r
      BY <2>1, RetainAppend
    <3>2. Retain(t, v) = IF a < v THEN Append(Retain(s, v), a) ELSE Retain(s, v)
      BY <2>1, RetainAppend
    <3>3. Retain(Append(r, a), v) = IF a < v THEN Append(Retain(r, v), a) ELSE Retain(r, v)
      <4> HIDE DEF r
      <4> QED
        BY <2>1, RetainAppend
    <3> QED
      BY <3>1, <3>2, <3>3
  <2>3. a < v => a < w
    OBVIOUS
  <2> HIDE DEF r, t
  <2>4. Retain(Retain(t, w), v) = Retain(t, v)
    BY <2>1, <2>2, <2>3
  <2> QED
    BY <2>1, <2>4 DEF t
<1>3. P \in SUBSET Seq(Nat)
  OBVIOUS
<1> HIDE DEF P
<1>4. P = Seq(Nat)
  BY <1>1, <1>2, <1>3, SequenceInduction
<1> QED
  BY <1>4 DEF P

\* After a tick the window has what was one tick from leaving it, or younger, before.
LEMMA AgedCount ==
  ASSUME NEW q \in Seq(Nat), NEW most \in Nat, NEW w \in 1..most
  PROVE  Len(Retain(Aged(q, most), w)) = Len(Retain(q, w - 1))
<1> DEFINE P == {s \in Seq(Nat) : Len(Retain(Aged(s, most), w)) = Len(Retain(s, w - 1))}
<1>1. <<>> \in P
  <2>1. Aged(<<>>, most) = <<>>
    BY DEF Aged
  <2>2. Retain(<<>>, w) = <<>> /\ Retain(<<>>, w - 1) = <<>>
    BY RetainEmpty
  <2> QED
    BY <2>1, <2>2
<1>2. ASSUME NEW s \in P, NEW a \in Nat
      PROVE  Append(s, a) \in P
  <2> DEFINE b == IF a < most THEN a + 1 ELSE a
             t == Append(s, a)
             u == Aged(s, most)
  <2>1. s \in Seq(Nat) /\ t \in Seq(Nat) /\ b \in Nat
    OBVIOUS
  <2>2. u \in Seq(Nat) /\ Aged(t, most) = Append(u, b)
    BY <2>1, AgedAppend
  <2>3. b < w <=> a < w - 1
    OBVIOUS
  <2>4. Len(Retain(u, w)) = Len(Retain(s, w - 1))
    OBVIOUS
  <2> HIDE DEF b, u
  <2>5. /\ Retain(Append(u, b), w) = IF b < w THEN Append(Retain(u, w), b) ELSE Retain(u, w)
        /\ Retain(t, w - 1) = IF a < w - 1 THEN Append(Retain(s, w - 1), a) ELSE Retain(s, w - 1)
    <3> HIDE DEF P, t
    <3>1. Retain(Append(u, b), w) = IF b < w THEN Append(Retain(u, w), b) ELSE Retain(u, w)
      BY <2>1, <2>2, RetainAppend
    <3> DEFINE v == w - 1
    <3>2. v \in Nat
      OBVIOUS
    <3> HIDE DEF v
    <3>3. Retain(Append(s, a), v) = IF a < v THEN Append(Retain(s, v), a) ELSE Retain(s, v)
      BY <2>1, <3>2, RetainAppend
    <3> QED
      BY <3>1, <3>3 DEF t, v
  <2>6. Retain(u, w) \in Seq(Nat) /\ Retain(s, w - 1) \in Seq(Nat)
    BY <2>1, <2>2, RetainFacts
  <2> HIDE DEF t
  <2>7. Len(Retain(Aged(t, most), w)) = Len(Retain(t, w - 1))
    <3>1. CASE b < w
      <4>1. /\ Len(Append(Retain(u, w), b)) = Len(Retain(u, w)) + 1
            /\ Len(Append(Retain(s, w - 1), a)) = Len(Retain(s, w - 1)) + 1
        BY <2>1, <2>6
      <4> QED
        BY <2>2, <2>3, <2>4, <2>5, <3>1, <4>1
    <3>2. CASE ~(b < w)
      BY <2>2, <2>3, <2>4, <2>5, <3>2
    <3> QED
      BY <3>1, <3>2
  <2> QED
    BY <2>1, <2>7 DEF t
<1>3. P \in SUBSET Seq(Nat)
  OBVIOUS
<1> HIDE DEF P
<1>4. P = Seq(Nat)
  BY <1>1, <1>2, <1>3, SequenceInduction
<1> QED
  BY <1>4 DEF P
=============================================================================
