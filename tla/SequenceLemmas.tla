--------------------------- MODULE SequenceLemmas ---------------------------
(* Lemmas about sequences that the proofs about the pure parts need: the     *)
(* last position with a property, and what flattening a sequence of          *)
(* sequences keeps.                                                          *)
EXTENDS Integers, SequencesExt, WellFoundedInduction, TLAPS

\* A sequence, of whatever it holds.
IsSequence(s) == s \in Seq(ToSet(s))

-----------------------------------------------------------------------------
(* Positions.                                                                *)

\* A set of natural numbers has a least member.
LEMMA LeastNumber ==
    ASSUME NEW S, S \subseteq Nat, S # {}
    PROVE  \E m \in S : \A k \in S : m <= k
<1>1. \E x \in S : \A y \in S : ~(<<y, x>> \in OpToRel(<, Nat))
  BY NatLessThanWellFounded, WFMin, Zenon
<1>2. PICK x \in S : \A y \in S : ~(y < x)
  BY <1>1 DEF OpToRel
<1> QED
  BY <1>2

\* A set of positions has a last one.
LEMMA LastPosition ==
    ASSUME NEW n \in Nat, NEW S, S \subseteq 1..n, S # {}
    PROVE  \E m \in S : \A k \in S : k <= m
<1> DEFINE T == {n - k : k \in S}
<1>1. T \subseteq Nat /\ T # {}
  <2>1. \A k \in S : n - k \in Nat
    OBVIOUS
  <2> QED
    BY <2>1
<1> HIDE DEF T
<1>2. PICK x \in T : \A y \in T : x <= y
  BY <1>1, LeastNumber
<1>3. PICK m \in S : x = n - m
  BY DEF T
<1>4. ASSUME NEW k \in S PROVE k <= m
  <2>1. n - m <= n - k
    BY <1>2, <1>3 DEF T
  <2> QED
    BY <2>1
<1> QED
  BY <1>4

\* A set of numbers that holds 0 and the successor of each of its members below n
\* holds all of them up to n: induction, for a set.
LEMMA CountUp ==
    ASSUME NEW n \in Nat, NEW S, 0 \in S, \A m \in 1..n : m - 1 \in S => m \in S
    PROVE  0..n \subseteq S
<1> DEFINE Bad == (0..n) \ S
<1>1. SUFFICES ASSUME Bad # {} PROVE FALSE
  OBVIOUS
<1>2. Bad \subseteq Nat
  OBVIOUS
<1>3. PICK m \in Bad : \A k \in Bad : m <= k
  <2> HIDE DEF Bad
  <2> QED
    BY <1>1, <1>2, LeastNumber
<1>4. m \in 1..n /\ m \notin S
  BY <1>3
<1>5. m - 1 \in 0..n /\ m - 1 \notin Bad
  BY <1>3, <1>4
<1> QED
  BY <1>4, <1>5

-----------------------------------------------------------------------------
(* Sequences.                                                                *)

LEMMA ElementAt ==
    ASSUME NEW S, NEW s \in Seq(S), NEW i \in 1..Len(s)
    PROVE  s[i] \in S
OBVIOUS

LEMMA SequenceOf ==
    ASSUME NEW S, NEW s \in Seq(S)
    PROVE  /\ IsSequence(s) /\ ToSet(s) \subseteq S
           /\ Len(s) \in Nat /\ DOMAIN s = 1..Len(s)
           /\ \A i \in 1..Len(s) : s[i] \in ToSet(s)
BY DEF IsSequence, ToSet

LEMMA SequenceProperties ==
    ASSUME NEW s, IsSequence(s)
    PROVE  /\ Len(s) \in Nat /\ DOMAIN s = 1..Len(s)
           /\ ToSet(s) = {s[i] : i \in 1..Len(s)}
           /\ \A i \in 1..Len(s) : s[i] \in ToSet(s)
BY DEF IsSequence, ToSet

LEMMA ConcatenationRange ==
    ASSUME NEW s, NEW t, IsSequence(s), IsSequence(t)
    PROVE  IsSequence(s \o t) /\ ToSet(s \o t) = ToSet(s) \cup ToSet(t)
<1> DEFINE S == ToSet(s) \cup ToSet(t)
           u == s \o t
<1>1. s \in Seq(S) /\ t \in Seq(S)
  BY DEF IsSequence, ToSet
<1>2. /\ u \in Seq(S) /\ Len(u) = Len(s) + Len(t)
      /\ \A i \in 1..Len(s) : u[i] = s[i]
      /\ \A i \in 1..Len(t) : u[i + Len(s)] = t[i]
  BY <1>1
<1>3. /\ Len(s) \in Nat /\ ToSet(s) = {s[i] : i \in 1..Len(s)}
      /\ Len(t) \in Nat /\ ToSet(t) = {t[i] : i \in 1..Len(t)}
  BY SequenceProperties
<1> HIDE DEF u
<1>4. ToSet(u) = {u[i] : i \in 1..Len(u)}
  <2>1. DOMAIN u = 1..Len(u)
    BY <1>2
  <2> QED
    BY <2>1, Zenon DEF ToSet
<1>5. ToSet(u) \subseteq S
  BY <1>2, <1>4
<1>6. ASSUME NEW x \in ToSet(s) PROVE x \in ToSet(u)
  BY <1>2, <1>3, <1>4
<1>7. ASSUME NEW x \in ToSet(t) PROVE x \in ToSet(u)
  <2>1. PICK i \in 1..Len(t) : x = t[i]
    BY <1>3
  <2>2. i + Len(s) \in 1..Len(u) /\ u[i + Len(s)] = x
    BY <1>2, <1>3, <2>1
  <2> QED
    BY <1>4, <2>2
<1>8. ToSet(u) = S
  BY <1>5, <1>6, <1>7
<1> QED
  BY <1>2, <1>8 DEF IsSequence, u

\* The recursive function by which FlattenSeq is defined exists.
LEMMA FlattenExists ==
    ASSUME NEW s, NEW n \in Nat
    PROVE  \E f : f = [i \in 1..n |-> IF i = 1 THEN s[i] ELSE f[i - 1] \o s[i]]
<1> DEFINE Good(m) == \E f : f = [i \in 1..m |-> IF i = 1 THEN s[i] ELSE f[i - 1] \o s[i]]
           Bad == {m \in 0..n : ~Good(m)}
<1>1. SUFFICES Good(n)
  OBVIOUS
<1> HIDE DEF Good
<1>2. SUFFICES ASSUME Bad # {} PROVE FALSE
  <2>1. n \in 0..n
    OBVIOUS
  <2> QED
    BY <2>1
<1>3. PICK m \in Bad : \A k \in Bad : m <= k
  <2>1. Bad \subseteq Nat
    OBVIOUS
  <2> HIDE DEF Bad
  <2> QED
    BY <1>2, <2>1, LeastNumber
<1>4. m = 0 \/ Good(m - 1)
  <2>1. m - 1 \notin Bad
    BY <1>3
  <2> QED
    BY <2>1
<1>5. Good(0)
  <2>1. <<>> = [i \in 1..0 |-> IF i = 1 THEN s[i] ELSE <<>>[i - 1] \o s[i]]
    OBVIOUS
  <2> QED
    BY <2>1 DEF Good
<1>6. ASSUME m # 0 PROVE Good(m)
  <2>1. PICK f : f = [i \in 1..(m - 1) |-> IF i = 1 THEN s[i] ELSE f[i - 1] \o s[i]]
    BY <1>4, <1>6 DEF Good
  <2> DEFINE g == [i \in 1..m |-> IF i = m THEN IF i = 1 THEN s[i] ELSE f[i - 1] \o s[i]
                                  ELSE f[i]]
  <2>2. \A i \in 1..m : i # 1 => g[i - 1] = f[i - 1]
    OBVIOUS
  <2>3. \A i \in 1..m : g[i] = IF i = 1 THEN s[i] ELSE f[i - 1] \o s[i]
    <3>1. TAKE i \in 1..m
    <3>2. CASE i = m
      BY <3>2
    <3>3. CASE i # m
      <4>1. i \in 1..(m - 1)
        BY <3>3
      <4>2. f[i] = IF i = 1 THEN s[i] ELSE f[i - 1] \o s[i]
        BY <4>1, <2>1
      <4> QED
        BY <4>2, <3>3
    <3> QED
      BY <3>2, <3>3
  <2>4. g = [i \in 1..m |-> IF i = 1 THEN s[i] ELSE g[i - 1] \o s[i]]
    <3> HIDE DEF g
    <3>1. g = [i \in 1..m |-> g[i]]
      BY DEF g
    <3> QED
      BY <3>1, <2>2, <2>3
  <2> QED
    BY <2>4 DEF Good
<1> QED
  BY <1>3, <1>5, <1>6

\* What that function has collected at each step.
LEMMA FlattenSteps ==
    ASSUME NEW s, NEW n \in Nat, NEW f,
           f[1] = s[1], \A i \in 1..n : i # 1 => f[i] = f[i - 1] \o s[i],
           \A i \in 1..n : IsSequence(s[i]),
           NEW m \in 1..n
    PROVE  IsSequence(f[m]) /\ \A x : x \in ToSet(f[m]) <=> \E j \in 1..m : x \in ToSet(s[j])
<1> DEFINE Good(i) == /\ IsSequence(f[i])
                      /\ \A x : x \in ToSet(f[i]) <=> \E j \in 1..i : x \in ToSet(s[j])
           Bad == {i \in 1..n : ~Good(i)}
<1>2. Good(1)
  BY 1 \in 1..n, 1..1 = {1}
<1> HIDE DEF Good
<1>3. SUFFICES ASSUME Bad # {} PROVE FALSE
  BY DEF Good
<1>4. PICK i \in Bad : \A k \in Bad : i <= k
  <2>1. Bad \subseteq Nat
    OBVIOUS
  <2> HIDE DEF Bad
  <2> QED
    BY <1>3, <2>1, LeastNumber
<1>5. i \in 1..n /\ i # 1 /\ i - 1 \in 1..n /\ Good(i - 1)
  <2>1. i \in 1..n /\ i # 1
    BY <1>2
  <2>2. i - 1 \notin Bad
    BY <1>4, <2>1
  <2> QED
    BY <2>1, <2>2
<1>6. IsSequence(f[i]) /\ ToSet(f[i]) = ToSet(f[i - 1]) \cup ToSet(s[i])
  <2>1. f[i] = f[i - 1] \o s[i] /\ IsSequence(s[i]) /\ IsSequence(f[i - 1])
    BY <1>5 DEF Good
  <2> QED
    BY <2>1, ConcatenationRange, Zenon
<1>7. \A j : j \in 1..i <=> j \in 1..(i - 1) \/ j = i
  BY <1>5
<1>8. Good(i)
  BY <1>5, <1>6, <1>7 DEF Good
<1> QED
  BY <1>8

\* Flattening keeps what the sequences hold, and nothing else.
LEMMA FlattenRange ==
    ASSUME NEW s, IsSequence(s), \A i \in 1..Len(s) : IsSequence(s[i])
    PROVE  /\ IsSequence(FlattenSeq(s))
           /\ ToSet(FlattenSeq(s)) = UNION {ToSet(s[i]) : i \in 1..Len(s)}
<1> DEFINE n == Len(s)
           f == CHOOSE h : h = [i \in 1..n |-> IF i = 1 THEN s[i] ELSE h[i - 1] \o s[i]]
<1>1. n \in Nat
  BY SequenceProperties
<1>2. CASE n = 0
  <2>1. s = <<>>
    BY <1>2 DEF IsSequence
  <2>2. FlattenSeq(s) = <<>>
    BY <1>2, <2>1 DEF FlattenSeq
  <2>3. IsSequence(<<>>) /\ ToSet(<<>>) = {}
    BY DEF IsSequence, ToSet
  <2>4. UNION {ToSet(s[i]) : i \in 1..n} = {}
    BY <1>2
  <2> HIDE DEF n
  <2> QED
    BY <2>2, <2>3, <2>4 DEF n
<1>3. CASE n # 0
  <2>1. f = [i \in 1..n |-> IF i = 1 THEN s[i] ELSE f[i - 1] \o s[i]]
    <3>1. \E h : h = [i \in 1..n |-> IF i = 1 THEN s[i] ELSE h[i - 1] \o s[i]]
      BY <1>1, FlattenExists
    <3> QED
      BY <3>1
  <2>2. FlattenSeq(s) = f[n]
    BY <1>3 DEF FlattenSeq
  <2>3. f[1] = s[1] /\ \A i \in 1..n : i # 1 => f[i] = f[i - 1] \o s[i]
    <3> HIDE DEF f
    <3>1. \A i \in 1..n : f[i] = IF i = 1 THEN s[i] ELSE f[i - 1] \o s[i]
      BY <2>1
    <3>2. 1 \in 1..n
      BY <1>1, <1>3
    <3> QED
      BY <3>1, <3>2
  <2>4. n \in 1..n /\ \A i \in 1..n : IsSequence(s[i])
    BY <1>1, <1>3
  <2> HIDE DEF f, n
  <2>5. IsSequence(f[n]) /\ \A x : x \in ToSet(f[n]) <=> \E j \in 1..n : x \in ToSet(s[j])
    <3> DEFINE g == f
    <3>1. g[1] = s[1] /\ \A i \in 1..n : i # 1 => g[i] = g[i - 1] \o s[i]
      BY <2>3
    <3> HIDE DEF g
    <3>2. \A m \in 1..n : IsSequence(g[m]) /\ \A x : x \in ToSet(g[m]) <=> \E j \in 1..m : x \in ToSet(s[j])
      BY <1>1, <3>1, <2>4, FlattenSteps, ZenonT(30)
    <3> QED
      BY <3>2, <2>4 DEF g
  <2> QED
    BY <2>2, <2>5 DEF n
<1> QED
  BY <1>2, <1>3

-----------------------------------------------------------------------------
(* Sums.                                                                     *)

\* Of a set of positions, Max is the last one.
LEMMA MaxIsLast ==
    ASSUME NEW n \in Nat, NEW S, S \subseteq 1..n, S # {}
    PROVE  Max(S) \in S /\ \A k \in S : k <= Max(S)
<1>1. PICK m \in S : \A k \in S : k <= m
  BY LastPosition
<1>2. m \in S /\ \A k \in S : m >= k
  BY <1>1
<1>3. Max(S) \in S /\ \A k \in S : Max(S) >= k
  <2>1. \E x \in S : \A y \in S : x >= y
    BY <1>2
  <2> QED
    BY <2>1, Zenon DEF Max
<1> QED
  BY <1>3

\* iter adds up the elements of seq at any of the positions to n.
AddsUp(iter, seq, n) ==
    iter = [s \in SUBSET (1..n) |->
               IF s = {} THEN 0 ELSE iter[s \ {Max(s)}] + seq[Max(s)]]

LEMMA FoldIsSum ==
    ASSUME NEW n \in Nat, NEW seq, DOMAIN seq = 1..n
    PROVE  FoldLeft(+, 0, seq) = (CHOOSE iter : AddsUp(iter, seq, n))[1..n]
BY Zenon DEF FoldLeft, MapThenFoldSet, AddsUp

LEMMA SumExists ==
    ASSUME NEW seq, NEW n \in Nat
    PROVE  \E iter : AddsUp(iter, seq, n)
<1> DEFINE Good(m) == \E iter : AddsUp(iter, seq, m)
           All == {m \in 0..n : Good(m)}
<1> HIDE DEF Good
<1>5. Good(0)
  <2>1. AddsUp([s \in SUBSET (1..0) |-> 0], seq, 0)
    <3>1. 1..0 = {}
      OBVIOUS
    <3>2. \A s \in SUBSET (1..0) : s = {}
      BY <3>1
    <3> QED
      BY <3>2 DEF AddsUp
  <2> QED
    BY <2>1 DEF Good
<1>6. ASSUME NEW m \in 1..n, Good(m - 1) PROVE Good(m)
  <2>1. PICK it : AddsUp(it, seq, m - 1)
    BY <1>6 DEF Good
  <2> DEFINE g == [s \in SUBSET (1..m) |-> IF m \in s THEN it[s \ {m}] + seq[m] ELSE it[s]]
  <2>2. m \in Nat \ {0}
    OBVIOUS
  <2>3. \A s \in SUBSET (1..m) : m \notin s => s \in SUBSET (1..(m - 1))
    BY <2>2
  <2>4. \A s \in SUBSET (1..(m - 1)) : it[s] = IF s = {} THEN 0 ELSE it[s \ {Max(s)}] + seq[Max(s)]
    BY <2>1 DEF AddsUp
  <2>5. ASSUME NEW s \in SUBSET (1..m), s # {}
        PROVE  g[s] = g[s \ {Max(s)}] + seq[Max(s)]
    <3>1. Max(s) \in s /\ \A k \in s : k <= Max(s)
      BY <2>2, <2>5, MaxIsLast
    <3>2. s \ {Max(s)} \in SUBSET (1..m)
      OBVIOUS
    <3>3. CASE m \in s
      <4>1. Max(s) \in 1..m /\ m <= Max(s)
        BY <3>1, <3>3
      <4>2. Max(s) = m
        BY <4>1, <2>2
      <4>3. s \ {m} \in SUBSET (1..m) /\ m \notin s \ {m}
        OBVIOUS
      <4>4. g[s] = it[s \ {m}] + seq[m] /\ g[s \ {m}] = it[s \ {m}]
        BY <3>3, <4>3
      <4> HIDE DEF g
      <4> QED
        BY <4>2, <4>4
    <3>4. CASE m \notin s
      <4>1. s \in SUBSET (1..(m - 1)) /\ m \notin s \ {Max(s)}
        BY <2>3, <3>4
      <4>2. g[s] = it[s] /\ g[s \ {Max(s)}] = it[s \ {Max(s)}]
        BY <3>2, <3>4, <4>1
      <4> HIDE DEF g
      <4> QED
        BY <2>4, <2>5, <4>1, <4>2
    <3> QED
      BY <3>3, <3>4
  <2>6. g[{}] = 0
    <3>1. it[{}] = 0
      BY <2>4
    <3>2. g[{}] = it[{}]
      OBVIOUS
    <3> QED
      BY <3>1, <3>2
  <2>7. g = [s \in SUBSET (1..m) |-> g[s]]
    OBVIOUS
  <2> HIDE DEF g
  <2>8. g = [s \in SUBSET (1..m) |-> IF s = {} THEN 0 ELSE g[s \ {Max(s)}] + seq[Max(s)]]
    BY <2>5, <2>6, <2>7
  <2> QED
    BY <2>8 DEF Good, AddsUp
<1>7. 0..n \subseteq All
  <2>1. 0 \in All /\ \A m \in 1..n : m - 1 \in All => m \in All
    BY <1>5, <1>6
  <2> HIDE DEF All
  <2> QED
    BY <2>1, CountUp
<1>8. n \in 0..n
  OBVIOUS
<1> QED
  BY <1>7, <1>8 DEF Good

\* The sum of the first n elements, whatever is behind them.
SumTo(seq, n) == FoldLeft(+, 0, [i \in 1..n |-> seq[i]])

LEMMA SumSteps ==
    ASSUME NEW seq, NEW n \in Nat, NEW iter, AddsUp(iter, seq, n), NEW m \in 1..n
    PROVE  iter[1..0] = 0 /\ iter[1..m] = iter[1..(m - 1)] + seq[m]
<1>1. \A s \in SUBSET (1..n) : iter[s] = IF s = {} THEN 0 ELSE iter[s \ {Max(s)}] + seq[Max(s)]
  BY DEF AddsUp
<1>2. 1..0 = {} /\ 1..0 \in SUBSET (1..n)
  OBVIOUS
<1>3. 1..m \in SUBSET (1..n) /\ 1..m # {} /\ m \in 1..m
  OBVIOUS
<1>4. Max(1..m) = m
  <2>1. Max(1..m) \in 1..m /\ \A k \in 1..m : k <= Max(1..m)
    BY <1>3, MaxIsLast
  <2> QED
    BY <2>1, <1>3
<1>5. (1..m) \ {m} = 1..(m - 1)
  OBVIOUS
<1> QED
  BY <1>1, <1>2, <1>3, <1>4, <1>5

LEMMA SumIs ==
    ASSUME NEW seq, NEW n \in Nat
    PROVE  \E iter : AddsUp(iter, seq, n) /\ SumTo(seq, n) = iter[1..n]
<1> DEFINE cut == [i \in 1..n |-> seq[i]]
<1>1. DOMAIN cut = 1..n /\ \A i \in 1..n : cut[i] = seq[i]
  OBVIOUS
<1>2. SumTo(seq, n) = FoldLeft(+, 0, cut)
  BY DEF SumTo
<1> HIDE DEF cut
<1> DEFINE iter == CHOOSE it : AddsUp(it, cut, n)
<1>3. AddsUp(iter, cut, n) /\ SumTo(seq, n) = iter[1..n]
  <2>1. \E it : AddsUp(it, cut, n)
    BY SumExists
  <2> QED
    BY <1>1, <1>2, <2>1, FoldIsSum
<1> HIDE DEF iter
<1>4. AddsUp(iter, seq, n)
  <2>1. \A s \in SUBSET (1..n) : s # {} => cut[Max(s)] = seq[Max(s)]
    BY <1>1, MaxIsLast
  <2> QED
    BY <1>3, <2>1 DEF AddsUp
<1> QED
  BY <1>3, <1>4

LEMMA SumEmpty == \A seq : SumTo(seq, 0) = 0
<1> TAKE seq
<1>1. PICK iter : AddsUp(iter, seq, 0) /\ SumTo(seq, 0) = iter[1..0]
  BY SumIs
<1>2. 1..0 = {} /\ 1..0 \in SUBSET (1..0)
  OBVIOUS
<1> QED
  BY <1>1, <1>2 DEF AddsUp

\* The sum to n + 1 is the sum to n and one more element.
LEMMA SumNext ==
    ASSUME NEW seq, NEW n \in Nat
    PROVE  SumTo(seq, n + 1) = SumTo(seq, n) + seq[n + 1]
<1>1. PICK f : AddsUp(f, seq, n + 1) /\ SumTo(seq, n + 1) = f[1..(n + 1)]
  BY SumIs
<1>2. PICK g : AddsUp(g, seq, n) /\ SumTo(seq, n) = g[1..n]
  BY SumIs
<1>3. /\ f[1..0] = 0 /\ \A m \in 1..(n + 1) : f[1..m] = f[1..(m - 1)] + seq[m]
  <2> DEFINE k == n + 1
  <2>1. 1 \in 1..k /\ k \in Nat /\ AddsUp(f, seq, k)
    BY <1>1
  <2> HIDE DEF k
  <2>2. \A m \in 1..k : f[1..0] = 0 /\ f[1..m] = f[1..(m - 1)] + seq[m]
    BY <2>1, SumSteps
  <2> QED
    BY <2>1, <2>2 DEF k
<1>4. \A m \in 1..n : g[1..0] = 0 /\ g[1..m] = g[1..(m - 1)] + seq[m]
  BY <1>2, SumSteps
<1> DEFINE Same == {m \in 0..n : f[1..m] = g[1..m]}
<1>5. 0 \in Same
  <2>1. 1..0 = {} /\ 1..0 \in SUBSET (1..n)
    OBVIOUS
  <2>2. g[1..0] = 0
    BY <1>2, <2>1 DEF AddsUp
  <2> QED
    BY <1>3, <2>2
<1>6. f[1..n] = g[1..n]
  <2>1. ASSUME NEW m \in 1..n, m - 1 \in Same PROVE m \in Same
    <3>1. m \in 1..(n + 1) /\ m \in 0..n
      OBVIOUS
    <3> QED
      BY <1>3, <1>4, <2>1, <3>1
  <2> HIDE DEF Same
  <2>2. 0..n \subseteq Same
    BY <1>5, <2>1, CountUp
  <2>3. n \in 0..n
    OBVIOUS
  <2> QED
    BY <2>2, <2>3 DEF Same
<1>7. f[1..(n + 1)] = f[1..n] + seq[n + 1]
  <2>1. n + 1 \in 1..(n + 1) /\ (n + 1) - 1 = n
    OBVIOUS
  <2> QED
    BY <1>3, <2>1
<1> QED
  BY <1>1, <1>2, <1>6, <1>7

\* Sums depend on the elements they add up only.
LEMMA SumSame ==
    ASSUME NEW s, NEW t, NEW n \in Nat, \A i \in 1..n : s[i] = t[i]
    PROVE  SumTo(s, n) = SumTo(t, n)
<1>1. [i \in 1..n |-> s[i]] = [i \in 1..n |-> t[i]]
  OBVIOUS
<1> QED
  BY <1>1 DEF SumTo

LEMMA SumType ==
    ASSUME NEW seq, NEW n \in Nat, \A i \in 1..n : seq[i] \in Nat
    PROVE  SumTo(seq, n) \in Nat
<1> DEFINE Good == {m \in 0..n : SumTo(seq, m) \in Nat}
<1>1. 0 \in Good
  BY SumEmpty
<1>2. ASSUME NEW m \in 1..n, m - 1 \in Good PROVE m \in Good
  <2>1. m - 1 \in Nat /\ (m - 1) + 1 = m /\ m \in 0..n
    OBVIOUS
  <2>2. SumTo(seq, m) = SumTo(seq, m - 1) + seq[m]
    BY <2>1, SumNext
  <2> QED
    BY <1>2, <2>1, <2>2
<1> HIDE DEF Good
<1>3. 0..n \subseteq Good
  BY <1>1, <1>2, CountUp
<1>4. n \in 0..n
  OBVIOUS
<1> QED
  BY <1>3, <1>4 DEF Good

\* Numbers of at most top add up to at most n times top.
LEMMA SumBound ==
    ASSUME NEW seq, NEW n \in Nat, NEW top \in Nat, \A i \in 1..n : seq[i] \in 0..top
    PROVE  SumTo(seq, n) \in 0..(n * top)
<1> DEFINE Good == {m \in 0..n : SumTo(seq, m) \in 0..(m * top)}
<1>1. 0 \in Good
  <2>1. 0 * top = 0 /\ 0 \in 0..n
    OBVIOUS
  <2>2. SumTo(seq, 0) = 0
    BY SumEmpty
  <2> QED
    BY <2>1, <2>2
<1>2. ASSUME NEW m \in 1..n, m - 1 \in Good PROVE m \in Good
  <2>1. m - 1 \in Nat /\ (m - 1) + 1 = m /\ m \in 0..n
    OBVIOUS
  <2>2. SumTo(seq, m) = SumTo(seq, m - 1) + seq[m] /\ seq[m] \in 0..top
    BY <2>1, SumNext
  <2>3. (m - 1) * top + top = m * top /\ m * top \in Nat /\ (m - 1) * top \in Nat
    BY <2>1
  <2>4. SumTo(seq, m - 1) \in 0..((m - 1) * top)
    BY <1>2
  <2>5. SumTo(seq, m) \in 0..(m * top)
    <3> DEFINE low == (m - 1) * top
               high == m * top
    <3>1. low + top = high /\ low \in Nat /\ high \in Nat
      BY <2>3
    <3> HIDE DEF low, high
    <3>2. SumTo(seq, m - 1) \in 0..low
      BY <2>4 DEF low
    <3>3. SumTo(seq, m) \in 0..high
      BY <2>2, <3>1, <3>2
    <3> QED
      BY <3>3 DEF high
  <2> QED
    BY <2>1, <2>5
<1> HIDE DEF Good
<1>3. 0..n \subseteq Good
  BY <1>1, <1>2, CountUp
<1>4. n \in 0..n
  OBVIOUS
<1> QED
  BY <1>3, <1>4 DEF Good

\* The sum of a concatenation, whose second part is t.
LEMMA SumBehind ==
    ASSUME NEW s, NEW t, NEW n \in Nat, NEW k \in Nat,
           \A i \in 1..n : s[i] \in Nat,
           \A i \in 1..k : t[i] \in Nat /\ s[n + i] = t[i]
    PROVE  SumTo(s, n + k) = SumTo(s, n) + SumTo(t, k)
<1> DEFINE Good == {m \in 0..k : SumTo(s, n + m) = SumTo(s, n) + SumTo(t, m)}
<1>0. SumTo(s, n) \in Nat
  BY SumType
<1>1. 0 \in Good
  <2>1. n + 0 = n /\ 0 \in 0..k /\ SumTo(t, 0) = 0
    BY SumEmpty
  <2> QED
    BY <1>0, <2>1
<1>2. ASSUME NEW m \in 1..k, m - 1 \in Good PROVE m \in Good
  <2>1. m - 1 \in Nat /\ (m - 1) + 1 = m /\ m \in 0..k
    OBVIOUS
  <2>2. n + (m - 1) \in Nat /\ (n + (m - 1)) + 1 = n + m
    OBVIOUS
  <2>3. SumTo(t, m) = SumTo(t, m - 1) + t[m]
    BY <2>1, SumNext
  <2>4. SumTo(s, n + m) = SumTo(s, n + (m - 1)) + s[n + m]
    BY <2>2, SumNext
  <2>5. \A i \in 1..(m - 1) : t[i] \in Nat
    BY <2>1
  <2>6. SumTo(t, m - 1) \in Nat
    BY <2>1, <2>5, SumType
  <2>7. t[m] \in Nat /\ s[n + m] = t[m]
    OBVIOUS
  <2>8. SumTo(s, n + (m - 1)) = SumTo(s, n) + SumTo(t, m - 1)
    BY <1>2
  <2> QED
    BY <1>0, <2>1, <2>3, <2>4, <2>6, <2>7, <2>8
<1> HIDE DEF Good
<1>3. 0..k \subseteq Good
  BY <1>1, <1>2, CountUp
<1>4. k \in 0..k
  OBVIOUS
<1> QED
  BY <1>3, <1>4 DEF Good
=============================================================================
