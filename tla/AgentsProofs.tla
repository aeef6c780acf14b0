---------------------------- MODULE AgentsProofs ----------------------------
(* Proofs about the agents.  First what the pure parts compute: a ranking    *)
(* lists the chunks it is given with the best first, a context holds the best *)
(* of each collection within its budget, a form and a resume come back as     *)
(* they should for any reply.  Then the requests, which hold what these parts  *)
(* made of what was found and replied.                                        *)
EXTENDS Agents, FiniteSetTheorems, SequenceLemmas

-----------------------------------------------------------------------------
(* Ranking.                                                                  *)

\* A set that can be ranked: the chunks of finitely many points over a threshold.
Rankable(S) == IsFiniteSet(S) /\ \A k \in S : k.score \in Nat

Sorted(seq) == \A i, j \in DOMAIN seq : i < j => seq[i].score >= seq[j].score

\* The last of a ranking has the lowest score.
LEMMA LowestScore ==
    ASSUME NEW S, Rankable(S), S # {}
    PROVE  \E x \in S : \A k \in S : x.score <= k.score
<1> DEFINE T == {k.score : k \in S}
<1>1. T \subseteq Nat /\ T # {}
  BY DEF Rankable
<1> HIDE DEF T
<1>2. PICK m \in T : \A k \in T : m <= k
  BY <1>1, LeastNumber
<1> QED
  BY <1>2 DEF T

LEMMA RankingExists ==
    ASSUME NEW S, Rankable(S)
    PROVE  \E seq \in SetToSeqs(S) : Sorted(seq)
<1> DEFINE n == Cardinality(S)
           Ranks(T) == \E seq \in SetToSeqs(T) : Sorted(seq)
           Good == {m \in 0..n : \A T \in SUBSET S : Cardinality(T) = m => Ranks(T)}
<1>1. n \in Nat /\ \A T \in SUBSET S : Rankable(T) /\ IsFiniteSet(T) /\ Cardinality(T) \in Nat
  BY FS_CardinalityType, FS_Subset DEF Rankable
<1>2. 0 \in Good
  <2>1. ASSUME NEW T \in SUBSET S, Cardinality(T) = 0 PROVE Ranks(T)
    <3>1. T = {}
      BY <1>1, <2>1, FS_EmptySet
    <3>2. <<>> \in SetToSeqs({}) /\ Sorted(<<>>)
      BY FS_EmptySet DEF SetToSeqs, Sorted
    <3> QED
      BY <3>1, <3>2
  <2> QED
    BY <1>1, <2>1
<1>3. ASSUME NEW m \in 1..n, m - 1 \in Good PROVE m \in Good
  <2>1. ASSUME NEW T \in SUBSET S, Cardinality(T) = m PROVE Ranks(T)
    <3>1. T # {}
      BY <2>1, FS_EmptySet
    <3>2. PICK x \in T : \A k \in T : x.score <= k.score
      BY <1>1, <3>1, LowestScore
    <3> DEFINE U == T \ {x}
    <3>3. Cardinality(U) = m - 1 /\ U \in SUBSET S
      BY <1>1, <2>1, FS_RemoveElement
    <3>4. PICK seq \in SetToSeqs(U) : Sorted(seq)
      BY <1>3, <3>3
    <3>5. /\ seq \in [1..(m - 1) -> U]
          /\ \A i, j \in 1..(m - 1) : i # j => seq[i] # seq[j]
      BY <3>3, <3>4 DEF SetToSeqs
    <3>6. \A i, j \in 1..(m - 1) : i < j => seq[i].score >= seq[j].score
      BY <3>4, <3>5 DEF Sorted
    <3> DEFINE longer == [i \in 1..m |-> IF i = m THEN x ELSE seq[i]]
    <3>7. \A i \in 1..m : i # m => i \in 1..(m - 1)
      OBVIOUS
    <3>8. longer \in [1..m -> T]
      BY <3>5, <3>7
    <3>9. \A i \in 1..m : longer[i] = IF i = m THEN x ELSE seq[i]
      OBVIOUS
    <3> HIDE DEF longer
    <3>10. \A i, j \in 1..m : i # j => longer[i] # longer[j]
      BY <3>5, <3>7, <3>9
    <3>11. ASSUME NEW i \in 1..m, NEW j \in 1..m, i < j
           PROVE  longer[i].score >= longer[j].score
      <4>1. i \in 1..(m - 1) /\ longer[i] = seq[i]
        BY <3>7, <3>9, <3>11
      <4>2. CASE j = m
        <5>1. seq[i] \in T /\ x.score \in Nat /\ seq[i].score \in Nat
          BY <3>5, <4>1 DEF Rankable
        <5>2. x.score <= seq[i].score
          BY <3>2, <5>1
        <5> QED
          BY <3>9, <4>1, <4>2, <5>1, <5>2
      <4>3. CASE j # m
        BY <3>6, <3>7, <3>9, <4>1, <4>3, <3>11
      <4> QED
        BY <4>2, <4>3
    <3>12. longer \in SetToSeqs(T)
      BY <2>1, <3>8, <3>10 DEF SetToSeqs
    <3>13. Sorted(longer)
      BY <3>8, <3>11 DEF Sorted
    <3> QED
      BY <3>12, <3>13
  <2> QED
    BY <2>1
<1> HIDE DEF Good
<1>4. 0..n \subseteq Good
  <2> HIDE DEF n
  <2> QED
    BY <1>1, <1>2, <1>3, CountUp
<1>5. n \in Good
  BY <1>1, <1>4
<1> QED
  BY <1>5 DEF Good

\* A ranking lists the chunks, each once, with the best first.
LEMMA RankedIs ==
    ASSUME NEW S, Rankable(S)
    PROVE  /\ Ranked(S) \in Seq(S) /\ IsSequence(Ranked(S)) /\ ToSet(Ranked(S)) = S
           /\ Len(Ranked(S)) = Cardinality(S) /\ Len(Ranked(S)) \in Nat
           /\ \A i, j \in 1..Len(Ranked(S)) :
                  /\ i # j => Ranked(S)[i] # Ranked(S)[j]
                  /\ i < j => Ranked(S)[i].score >= Ranked(S)[j].score
<1> DEFINE r == Ranked(S)
           n == Cardinality(S)
<1>1. r \in SetToSeqs(S) /\ Sorted(r)
  BY RankingExists DEF Ranked, Sorted
<1> HIDE DEF r
<1>2. n \in Nat /\ IsFiniteSet(S)
  BY FS_CardinalityType DEF Rankable
<1>3. r \in [1..n -> S] /\ \A i, j \in 1..n : i # j => r[i] # r[j]
  BY <1>1 DEF SetToSeqs
<1>4. r \in Seq(S) /\ Len(r) = n /\ DOMAIN r = 1..n
  BY <1>2, <1>3
<1>5. {r[i] : i \in 1..n} = S
  <2>1. r \in Injection(1..n, S)
    BY <1>3 DEF Injection, IsInjective
  <2>2. Cardinality(1..n) = n
    BY <1>2, FS_Interval
  <2>3. r \in Surjection(1..n, S)
    BY <1>2, <2>1, <2>2, FS_Injection
  <2> QED
    BY <1>3, <2>3 DEF Surjection
<1>6. ToSet(r) = S
  BY <1>4, <1>5 DEF ToSet
<1> QED
  BY <1>1, <1>2, <1>3, <1>4, <1>6 DEF r, Sorted, IsSequence

\* The first n of a sequence, or all there are.
LEMMA FirstOfIs ==
    ASSUME NEW S, NEW seq \in Seq(S), NEW n \in Nat
    PROVE  LET first == FirstOf(n, seq) IN
           /\ IsSequence(first) /\ Len(first) <= n /\ ToSet(first) \subseteq ToSet(seq)
           /\ n > 0 /\ seq # <<>> => first # <<>>
<1> DEFINE m == Min({n, Len(seq)})
           first == SubSeq(seq, 1, m)
<1>1. m \in Nat /\ m <= n /\ m <= Len(seq) /\ (n > 0 /\ Len(seq) > 0 => m > 0)
  <2>1. Len(seq) \in Nat
    OBVIOUS
  <2>2. CASE n <= Len(seq)
    <3>1. m = n
      BY <2>1, <2>2 DEF Min
    <3> QED
      BY <2>1, <2>2, <3>1
  <2>3. CASE n > Len(seq)
    <3>1. m = Len(seq)
      BY <2>1, <2>3 DEF Min
    <3> QED
      BY <2>1, <2>3, <3>1
  <2> QED
    BY <2>1, <2>2, <2>3
<1> HIDE DEF m
<1>2. first \in Seq(S) /\ Len(first) = m /\ \A i \in 1..m : first[i] = seq[i]
  BY <1>1
<1>3. FirstOf(n, seq) = first
  BY DEF FirstOf, m
<1> HIDE DEF first
<1>4. IsSequence(first) /\ ToSet(first) = {first[i] : i \in 1..m}
  BY <1>2, SequenceOf, SequenceProperties
<1>5. ToSet(first) \subseteq ToSet(seq)
  <2>1. \A i \in 1..m : i \in 1..Len(seq)
    BY <1>1
  <2>2. \A i \in 1..Len(seq) : seq[i] \in ToSet(seq)
    BY SequenceOf
  <2> QED
    BY <1>2, <1>4, <2>1, <2>2
<1>6. n > 0 /\ seq # <<>> => first # <<>>
  <2>1. ASSUME n > 0, seq # <<>> PROVE first # <<>>
    <3>1. Len(seq) > 0
      BY <2>1
    <3> QED
      BY <1>1, <1>2, <2>1, <3>1
  <2> QED
    BY <2>1
<1> QED
  BY <1>1, <1>2, <1>3, <1>4, <1>5, <1>6

\* What the first n of a ranking leave out is no better than any of them, and is
\* left out only if they are n.
LEMMA FirstAreBest ==
    ASSUME NEW S, Rankable(S), NEW n \in Nat
    PROVE  LET first == FirstOf(n, Ranked(S)) IN
           \A x \in S \ ToSet(first) :
               Len(first) = n /\ \A k \in ToSet(first) : k.score >= x.score
<1> DEFINE r == Ranked(S)
           m == Min({n, Len(r)})
           first == SubSeq(r, 1, m)
<1>1. /\ r \in Seq(S) /\ IsSequence(r) /\ ToSet(r) = S /\ Len(r) \in Nat
      /\ \A i, j \in 1..Len(r) : i < j => r[i].score >= r[j].score
  BY RankedIs
<1> HIDE DEF r
<1>2. m \in Nat /\ m <= Len(r) /\ (m < Len(r) => m = n)
  <2>1. CASE n <= Len(r)
    <3>1. m = n
      BY <1>1, <2>1 DEF Min
    <3> QED
      BY <2>1, <3>1
  <2>2. CASE n > Len(r)
    <3>1. m = Len(r)
      BY <1>1, <2>2 DEF Min
    <3> QED
      BY <1>1, <3>1
  <2> QED
    BY <1>1, <2>1, <2>2
<1>3. FirstOf(n, r) = first
  BY DEF FirstOf
<1> HIDE DEF m
<1>4. first \in Seq(S) /\ Len(first) = m /\ \A i \in 1..m : first[i] = r[i]
  BY <1>1, <1>2
<1> HIDE DEF first
<1>5. ToSet(first) = {first[i] : i \in 1..m}
  BY <1>4, SequenceOf, SequenceProperties
<1>6. ASSUME NEW x \in S \ ToSet(first)
      PROVE  Len(first) = n /\ \A k \in ToSet(first) : k.score >= x.score
  <2>1. PICK j \in 1..Len(r) : x = r[j]
    BY <1>1, SequenceProperties
  <2>2. ~(j \in 1..m)
    BY <1>4, <1>5, <1>6, <2>1
  <2>3. m < j /\ m < Len(r)
    BY <1>1, <1>2, <2>2
  <2>4. ASSUME NEW k \in ToSet(first) PROVE k.score >= x.score
    <3>1. PICK i \in 1..m : k = r[i]
      BY <1>4, <1>5
    <3>2. i \in 1..Len(r) /\ i < j
      BY <1>1, <1>2, <2>3
    <3> QED
      BY <1>1, <2>1, <3>1, <3>2
  <2> QED
    BY <1>2, <1>4, <2>3, <2>4
<1> QED
  BY <1>3, <1>6 DEF r

LEMMA RangeFinite ==
    ASSUME NEW s, IsSequence(s)
    PROVE  IsFiniteSet(ToSet(s))
<1>1. Len(s) \in Nat /\ s \in [1..Len(s) -> ToSet(s)] /\ ToSet(s) = {s[i] : i \in 1..Len(s)}
  BY SequenceProperties DEF IsSequence
<1>2. s \in Surjection(1..Len(s), ToSet(s))
  BY <1>1 DEF Surjection
<1>3. IsFiniteSet(1..Len(s))
  BY <1>1, FS_Interval
<1> QED
  BY <1>2, <1>3, FS_Surjection

-----------------------------------------------------------------------------
(* Budgets.                                                                  *)

Weights(seq) == [n \in DOMAIN seq |-> EstimateTokens(seq[n])]

\* The length of each chunk's text is known.
Measured(S) == \A k \in S : k.point.length \in Nat

LEMMA EstimateType ==
    ASSUME NEW k, k.point.length \in Nat
    PROVE  EstimateTokens(k) \in Nat /\ EstimateTokens(k) >= 1
<1> DEFINE q == k.point.length \div 4
<1>1. q \in Nat
  OBVIOUS
<1> HIDE DEF q
<1>2. Max({1, q}) \in Nat /\ Max({1, q}) >= 1
  <2>1. CASE q <= 1
    <3>1. Max({1, q}) = 1
      BY <1>1, <2>1 DEF Max
    <3> QED
      BY <3>1
  <2>2. CASE q > 1
    <3>1. Max({1, q}) = q
      BY <1>1, <2>2 DEF Max
    <3> QED
      BY <1>1, <2>2, <3>1
  <2> QED
    BY <1>1, <2>1, <2>2
<1> QED
  BY <1>2 DEF EstimateTokens, q

\* Tokens are the sum of the weights, of a run of the first chunks too.
LEMMA TokensAre ==
    ASSUME NEW seq, IsSequence(seq), Measured(ToSet(seq))
    PROVE  /\ Tokens(seq) = SumTo(Weights(seq), Len(seq)) /\ Tokens(seq) \in Nat
           /\ \A i \in 1..Len(seq) : Weights(seq)[i] \in Nat
<1>1. DOMAIN seq = 1..Len(seq) /\ Len(seq) \in Nat /\ \A i \in 1..Len(seq) : seq[i] \in ToSet(seq)
  BY SequenceProperties
<1>2. \A i \in 1..Len(seq) : Weights(seq)[i] = EstimateTokens(seq[i])
  BY <1>1 DEF Weights
<1>3. \A i \in 1..Len(seq) : Weights(seq)[i] \in Nat
  BY <1>1, <1>2, EstimateType DEF Measured
<1>4. [i \in 1..Len(seq) |-> Weights(seq)[i]] = Weights(seq)
  BY <1>1 DEF Weights
<1>5. Tokens(seq) = SumTo(Weights(seq), Len(seq))
  BY <1>4, Zenon DEF Tokens, SumTo, Weights
<1> QED
  BY <1>1, <1>3, <1>5, SumType

LEMMA TokensOfFirst ==
    ASSUME NEW seq, IsSequence(seq), Measured(ToSet(seq)), NEW n \in 0..Len(seq)
    PROVE  /\ IsSequence(SubSeq(seq, 1, n)) /\ Measured(ToSet(SubSeq(seq, 1, n)))
           /\ ToSet(SubSeq(seq, 1, n)) = {seq[i] : i \in 1..n}
           /\ Tokens(SubSeq(seq, 1, n)) = SumTo(Weights(seq), n)
<1> DEFINE first == SubSeq(seq, 1, n)
<1>1. seq \in Seq(ToSet(seq)) /\ Len(seq) \in Nat
  BY SequenceProperties DEF IsSequence
<1>2. first \in Seq(ToSet(seq)) /\ Len(first) = n /\ \A i \in 1..n : first[i] = seq[i]
  BY <1>1
<1> HIDE DEF first
<1>3. IsSequence(first) /\ ToSet(first) = {first[i] : i \in 1..n} /\ ToSet(first) \subseteq ToSet(seq)
  BY <1>2, SequenceOf, SequenceProperties
<1>4. Measured(ToSet(first)) /\ ToSet(first) = {seq[i] : i \in 1..n}
  BY <1>2, <1>3 DEF Measured
<1>5. Tokens(first) = SumTo(Weights(first), n)
  BY <1>2, <1>3, <1>4, TokensAre
<1>6. \A i \in 1..n : Weights(first)[i] = Weights(seq)[i]
  <2>1. DOMAIN first = 1..n /\ DOMAIN seq = 1..Len(seq)
    BY <1>1, <1>2
  <2> QED
    BY <1>1, <1>2, <2>1 DEF Weights
<1>7. SumTo(Weights(first), n) = SumTo(Weights(seq), n)
  BY <1>6, SumSame, n \in Nat
<1> QED
  BY <1>3, <1>4, <1>5, <1>7 DEF first

\* What is kept of a ranking fits in the budget; nothing better is left out, and
\* something only when a best one of the rest does not fit.
LEMMA BudgetIsKept ==
    ASSUME NEW S, Rankable(S), Measured(S), NEW budget \in Nat
    PROVE  LET kept == ApplyTokenBudget(S, budget)
               left == S \ ToSet(kept)
           IN /\ IsSequence(kept) /\ ToSet(kept) \subseteq S
              /\ Tokens(kept) \in Nat /\ Tokens(kept) <= budget
              /\ \A k \in ToSet(kept), l \in left : k.score >= l.score
              /\ left # {} => \E l \in left : /\ \A m \in left : l.score >= m.score
                                             /\ Tokens(kept) + EstimateTokens(l) > budget
<1> DEFINE r == Ranked(S)
           n == Len(r)
           fits == {m \in 0..n : Tokens(SubSeq(r, 1, m)) <= budget}
           last == Max(fits)
           kept == SubSeq(r, 1, last)
           left == S \ ToSet(kept)
<1>1. /\ IsSequence(r) /\ ToSet(r) = S /\ n \in Nat
      /\ \A i, j \in 1..n : (i # j => r[i] # r[j]) /\ (i < j => r[i].score >= r[j].score)
  BY RankedIs
<1>2. ApplyTokenBudget(S, budget) = kept
  BY Zenon DEF ApplyTokenBudget
<1> HIDE DEF r
<1>3. ToSet(r) = {r[i] : i \in 1..n} /\ Measured(ToSet(r))
  BY <1>1, SequenceProperties
<1>4. \A m \in 0..n : /\ IsSequence(SubSeq(r, 1, m)) /\ Measured(ToSet(SubSeq(r, 1, m)))
                      /\ ToSet(SubSeq(r, 1, m)) = {r[i] : i \in 1..m}
                      /\ Tokens(SubSeq(r, 1, m)) = SumTo(Weights(r), m)
  BY <1>1, <1>3, TokensOfFirst
<1>5. last \in fits /\ \A m \in fits : m <= last
  <2>1. 0 \in fits
    <3>1. 0 \in 0..n
      BY <1>1
    <3> QED
      BY <1>4, <3>1, SumEmpty
  <2>2. \E x \in fits : \A y \in fits : x >= y
    <3>1. CASE fits = {0}
      BY <3>1
    <3>2. CASE fits # {0}
      <4>1. fits \ {0} \subseteq 1..n /\ fits \ {0} # {}
        BY <1>1, <2>1, <3>2
      <4> HIDE DEF fits
      <4>2. PICK x \in fits \ {0} : \A y \in fits \ {0} : y <= x
        BY <1>1, <4>1, LastPosition
      <4>3. \A y \in fits : x >= y
        BY <4>1, <4>2
      <4> QED
        BY <4>2, <4>3
    <3> QED
      BY <3>1, <3>2
  <2> HIDE DEF fits
  <2>3. last \in fits /\ \A y \in fits : last >= y
    BY <2>2, Zenon DEF Max
  <2>4. fits \subseteq Nat
    BY DEF fits
  <2> QED
    BY <2>3, <2>4
<1>6. last \in 0..n /\ Tokens(kept) <= budget /\ Tokens(kept) = SumTo(Weights(r), last)
  BY <1>4, <1>5
<1> HIDE DEF last
<1>7. IsSequence(kept) /\ ToSet(kept) = {r[i] : i \in 1..last} /\ Measured(ToSet(kept))
  BY <1>4, <1>6
<1>8. Tokens(kept) \in Nat
  BY <1>7, TokensAre
<1>9. ToSet(kept) \subseteq S
  <2>1. \A i \in 1..last : i \in 1..n
    BY <1>1, <1>6
  <2> QED
    BY <1>1, <1>3, <1>7, <2>1
<1>10. ASSUME NEW l \in left PROVE \E j \in 1..n : j > last /\ l = r[j]
  <2>1. PICK j \in 1..n : l = r[j]
    BY <1>1, <1>3
  <2>2. ~(j \in 1..last)
    BY <1>7, <2>1
  <2> QED
    BY <1>6, <2>1, <2>2
<1>11. ASSUME NEW k \in ToSet(kept), NEW l \in left PROVE k.score >= l.score
  <2>1. PICK i \in 1..last : k = r[i]
    BY <1>7
  <2>2. PICK j \in 1..n : j > last /\ l = r[j]
    BY <1>10
  <2>3. i \in 1..n /\ i < j
    BY <1>1, <1>6, <2>2
  <2> QED
    BY <1>1, <2>1, <2>2, <2>3
<1>12. ASSUME left # {}
       PROVE  \E l \in left : /\ \A m \in left : l.score >= m.score
                              /\ Tokens(kept) + EstimateTokens(l) > budget
  <2>1. last + 1 \in 1..n
    <3>1. PICK l \in left : TRUE
      BY <1>12
    <3>2. PICK j \in 1..n : j > last
      BY <1>10, <3>1
    <3> QED
      BY <1>1, <1>6, <3>2
  <2> DEFINE l == r[last + 1]
  <2>2. l \in left
    <3>1. l \in S
      BY <1>1, <1>3, <2>1
    <3>2. \A i \in 1..last : i \in 1..n /\ i # last + 1
      BY <1>1, <1>6
    <3>3. l \notin ToSet(kept)
      BY <1>1, <1>7, <2>1, <3>2
    <3> QED
      BY <3>1, <3>3
  <2>3. last + 1 \in 0..n /\ last + 1 \notin fits /\ last \in Nat
    BY <1>5, <1>6, <2>1
  <2>4. ~(SumTo(Weights(r), last + 1) <= budget)
    BY <1>4, <2>3
  <2>5. SumTo(Weights(r), last + 1) = SumTo(Weights(r), last) + Weights(r)[last + 1]
    BY <2>3, SumNext
  <2>6. Weights(r)[last + 1] = EstimateTokens(l) /\ Weights(r)[last + 1] \in Nat
    <3>1. DOMAIN r = 1..n
      BY <1>1, SequenceProperties
    <3> QED
      BY <1>1, <1>3, <2>1, <3>1, TokensAre DEF Weights
  <2>7. Tokens(kept) + EstimateTokens(l) > budget
    BY <1>6, <1>8, <2>4, <2>5, <2>6
  <2>8. ASSUME NEW x \in left PROVE l.score >= x.score
    <3>1. PICK j \in 1..n : j > last /\ x = r[j]
      BY <1>10
    <3>2. CASE j = last + 1
      <4>1. l.score \in Nat
        BY <2>2 DEF Rankable
      <4> QED
        BY <3>1, <3>2, <4>1
    <3>3. CASE j # last + 1
      <4>1. last + 1 < j
        BY <1>1, <1>6, <3>1, <3>3
      <4> QED
        BY <1>1, <2>1, <3>1, <4>1
    <3> QED
      BY <3>2, <3>3
  <2> HIDE DEF l
  <2> QED
    BY <2>2, <2>7, <2>8
<1> HIDE DEF kept
<1> QED
  BY <1>2, <1>6, <1>7, <1>8, <1>9, <1>11, <1>12

LEMMA TokensTogether ==
    ASSUME NEW a, NEW b, IsSequence(a), IsSequence(b), Measured(ToSet(a)), Measured(ToSet(b))
    PROVE  /\ IsSequence(a \o b) /\ Measured(ToSet(a \o b))
           /\ Tokens(a \o b) = Tokens(a) + Tokens(b)
<1> DEFINE ab == a \o b
           n == Len(a)
           k == Len(b)
<1>1. a \in Seq(ToSet(a)) /\ b \in Seq(ToSet(b)) /\ n \in Nat /\ k \in Nat
  BY SequenceProperties DEF IsSequence
<1>2. /\ Len(ab) = n + k /\ DOMAIN ab = 1..(n + k)
      /\ \A i \in 1..n : ab[i] = a[i]
      /\ \A i \in 1..k : ab[n + i] = b[i]
  BY <1>1
<1>3. IsSequence(ab) /\ Measured(ToSet(ab))
  BY ConcatenationRange DEF Measured
<1> HIDE DEF ab
<1>4. \A i \in 1..n : Weights(ab)[i] = Weights(a)[i] /\ Weights(a)[i] \in Nat
  <2>1. \A i \in 1..n : i \in 1..(n + k)
    BY <1>1
  <2>2. DOMAIN a = 1..n
    BY <1>1
  <2>3. \A i \in 1..n : Weights(ab)[i] = Weights(a)[i]
    BY <1>2, <2>1, <2>2 DEF Weights
  <2> QED
    BY <2>3, TokensAre
<1>5. \A i \in 1..k : Weights(b)[i] \in Nat /\ Weights(ab)[n + i] = Weights(b)[i]
  <2>1. \A i \in 1..k : n + i \in 1..(n + k)
    BY <1>1
  <2>2. DOMAIN b = 1..k
    BY <1>1
  <2>3. \A i \in 1..k : Weights(ab)[n + i] = Weights(b)[i]
    BY <1>2, <2>1, <2>2 DEF Weights
  <2> QED
    BY <2>3, TokensAre
<1>6. SumTo(Weights(ab), n + k) = SumTo(Weights(ab), n) + SumTo(Weights(b), k)
  <2> DEFINE s == Weights(ab)
             t == Weights(b)
  <2>1. \A i \in 1..n : s[i] \in Nat
    BY <1>4
  <2>2. \A i \in 1..k : t[i] \in Nat /\ s[n + i] = t[i]
    BY <1>5
  <2>3. n \in Nat /\ k \in Nat
    BY <1>1
  <2> HIDE DEF s, t, n, k
  <2>4. SumTo(s, n + k) = SumTo(s, n) + SumTo(t, k)
    BY <2>1, <2>2, <2>3, SumBehind
  <2> QED
    BY <2>4 DEF s, t
<1>7. SumTo(Weights(ab), n) = SumTo(Weights(a), n)
  BY <1>1, <1>4, SumSame
<1>8. /\ Tokens(ab) = SumTo(Weights(ab), n + k)
      /\ Tokens(a) = SumTo(Weights(a), n) /\ Tokens(b) = SumTo(Weights(b), k)
  BY <1>2, <1>3, TokensAre
<1> QED
  BY <1>3, <1>6, <1>7, <1>8 DEF ab

-----------------------------------------------------------------------------
(* Searches and the context they make.                                       *)

Chunks(i) == {p \in Points : p.user = i.user}

\* A chunk a search of collection c may find for request i.
Hit(k, c, i, s) ==
    /\ k.point \in Chunks(i) /\ k.point.collection = c
    /\ DocumentOf(i, c) \in {None, k.point.document}
    /\ k.score = s[k.point.id] /\ k.score \in 0..100 /\ k.score >= ThresholdOf(i)

Hits(list, c, i, s) == IsSequence(list) /\ \A k \in ToSet(list) : Hit(k, c, i, s)

\* What a search of c has to choose from, if the user's points in c are these.
Among(points, c, i, s) ==
    {p \in points : DocumentOf(i, c) \in {None, p.document} /\ s[p.id] >= ThresholdOf(i)}

\* A list with the best of them.
BestOf(list, points, c, i, s) ==
    /\ \A k \in ToSet(list) : k.point \in Among(points, c, i, s)
    /\ \A p \in Among(points, c, i, s) \ {k.point : k \in ToSet(list)} :
           Len(list) = TopKOf(i) /\ \A k \in ToSet(list) : k.score >= s[p.id]

Searching(i) == i \in Inputs /\ i.kind \in {"answers", "memory"}

LEMMA SearchType ==
    ASSUME NEW i, Searching(i)
    PROVE  TopKOf(i) \in Nat /\ ThresholdOf(i) \in 0..100
<1>1. CASE i.kind = "memory"
  BY <1>1, InputsAssumption DEF Searching, TopKOf, ThresholdOf
<1>2. CASE i.kind = "answers"
  <2>1. i.batch \in BOOLEAN /\ RagTopK \in Nat /\ Threshold \in 0..100
    BY <1>2, InputsAssumption, RetrievalAssumption DEF Searching
  <2>2. Min({RagTopK * 2, 20}) \in Nat
    <3>1. RagTopK * 2 <= 20 \/ 20 <= RagTopK * 2
      BY <2>1
    <3>2. \E x \in {RagTopK * 2, 20} : \A y \in {RagTopK * 2, 20} : x <= y
      BY <2>1, <3>1
    <3>3. Min({RagTopK * 2, 20}) \in {RagTopK * 2, 20}
      BY <3>2, Zenon DEF Min
    <3> QED
      BY <2>1, <3>3
  <2>3. TopKOf(i) \in {RagTopK, Min({RagTopK * 2, 20})}
    <3> HIDE DEF Min
    <3> QED
      BY <1>2, <2>1 DEF TopKOf
  <2> QED
    BY <1>2, <2>1, <2>2, <2>3 DEF ThresholdOf
<1> QED
  BY <1>1, <1>2 DEF Searching

LEMMA SearchFinds ==
    ASSUME NEW points \in SUBSET Points, NEW i, Searching(i), NEW s \in Similarities,
           NEW c \in Collections
    PROVE  LET list == Search(points, s, c, i.user, DocumentOf(i, c), TopKOf(i), ThresholdOf(i))
               own == {p \in points : p.collection = c /\ p.user = i.user}
           IN  Hits(list, c, i, s) /\ BestOf(list, own, c, i, s)
<1> DEFINE d == DocumentOf(i, c)
           hits == {p \in Matching(points, c, i.user, d) : s[p.id] >= ThresholdOf(i)}
           S == {Chunk(p, s) : p \in hits}
<1>1. TopKOf(i) \in Nat /\ ThresholdOf(i) \in 0..100
  BY SearchType
<1>2. hits \subseteq Points /\ IsFiniteSet(hits)
  BY PointsAssumption, FS_Subset DEF Matching
<1>3. IsFiniteSet(S)
  <2> HIDE DEF hits
  <2> DEFINE image == [p \in hits |-> Chunk(p, s)]
  <2>1. image \in Surjection(hits, S)
    BY DEF Surjection
  <2> HIDE DEF S, image
  <2> QED
    BY <1>2, <2>1, FS_Surjection
<1>4. \A k \in S : Hit(k, c, i, s)
  <2>1. ASSUME NEW p \in hits PROVE Hit(Chunk(p, s), c, i, s)
    <3>1. p \in Points /\ p.collection = c /\ p.user = i.user /\ s[p.id] >= ThresholdOf(i)
      BY <1>2 DEF Matching
    <3>2. d \in {None, p.document}
      BY DEF Matching
    <3>3. s[p.id] \in (-100)..100
      BY <3>1, PointsAssumption
    <3>4. s[p.id] \in 0..100
      <4>1. \A x \in (-100)..100, y \in 0..100 : x >= y => x \in 0..100
        OBVIOUS
      <4> HIDE DEF hits
      <4> QED
        BY <1>1, <3>1, <3>3, <4>1
    <3>5. Chunk(p, s).point = p /\ Chunk(p, s).score = s[p.id]
      BY DEF Chunk
    <3> QED
      BY <3>1, <3>2, <3>4, <3>5 DEF Hit, Chunks
  <2> QED
    BY <2>1
<1> DEFINE own == {p \in points : p.collection = c /\ p.user = i.user}
<1>9. hits = Among(own, c, i, s)
  BY DEF Matching, Among
<1> HIDE DEF own, hits
<1>10. /\ \A k \in S : k.point \in hits
       /\ \A p \in hits : Chunk(p, s) \in S /\ Chunk(p, s).point = p /\ Chunk(p, s).score = s[p.id]
  BY DEF Chunk
<1> HIDE DEF S
<1>5. Rankable(S)
  BY <1>3, <1>4 DEF Rankable, Hit
<1>6. Ranked(S) \in Seq(S) /\ ToSet(Ranked(S)) = S
  BY <1>5, RankedIs
<1>7. LET first == FirstOf(TopKOf(i), Ranked(S)) IN IsSequence(first) /\ ToSet(first) \subseteq S
  BY <1>1, <1>6, FirstOfIs
<1>8. Search(points, s, c, i.user, d, TopKOf(i), ThresholdOf(i)) = FirstOf(TopKOf(i), Ranked(S))
  BY Zenon DEF Search, S, hits
<1> DEFINE first == FirstOf(TopKOf(i), Ranked(S))
<1>11. \A x \in S \ ToSet(first) :
          Len(first) = TopKOf(i) /\ \A k \in ToSet(first) : k.score >= x.score
  BY <1>1, <1>5, FirstAreBest
<1>12. IsSequence(first) /\ ToSet(first) \subseteq S
  BY <1>7
<1> HIDE DEF first
<1>13. ASSUME NEW p \in hits \ {k.point : k \in ToSet(first)}
       PROVE  Len(first) = TopKOf(i) /\ \A k \in ToSet(first) : k.score >= s[p.id]
  <2>1. Chunk(p, s) \in S \ ToSet(first) /\ Chunk(p, s).score = s[p.id]
    BY <1>10, <1>13
  <2> QED
    BY <1>11, <2>1
<1>14. Hits(first, c, i, s)
  BY <1>4, <1>12 DEF Hits
<1>15. BestOf(first, own, c, i, s)
  BY <1>9, <1>10, <1>12, <1>13 DEF BestOf
<1> QED
  BY <1>8, <1>14, <1>15 DEF first, own

LEMMA HitsMeasured ==
    ASSUME NEW list, NEW c, NEW i, NEW s, Hits(list, c, i, s)
    PROVE  Rankable(ToSet(list)) /\ Measured(ToSet(list)) /\ Deduplicate(ToSet(list)) = ToSet(list)
<1>1. IsFiniteSet(ToSet(list))
  BY RangeFinite DEF Hits
<1>2. \A k \in ToSet(list) : k.score \in Nat /\ k.score = s[k.point.id] /\ k.point \in Points
  BY DEF Hits, Hit, Chunks
<1>3. \A k, l \in ToSet(list) : l.point.id = k.point.id => l.score <= k.score
  BY <1>2
<1> QED
  BY <1>1, <1>2, <1>3, PointsAssumption DEF Rankable, Measured, Deduplicate

LEMMA BudgetType ==
    /\ \A c \in Collections : Budget(c) \in Nat
    /\ Budget("resume") + Budget("past_answer") + Budget("job_description")
         + Budget("template") <= MaxContext
<1>1. MaxContext \in Nat
  BY RetrievalAssumption
<1> QED
  BY <1>1 DEF Budget, Share, Collections

\* What one collection contributes to the context made of what was found.
LEMMA ContextOf ==
    ASSUME NEW f, NEW i, NEW s, NEW c \in Collections, Hits(f[c], c, i, s)
    PROVE  LET kept == Context(f)[c]
               left == ToSet(f[c]) \ ToSet(kept)
           IN /\ IsSequence(kept) /\ ToSet(kept) \subseteq ToSet(f[c])
              /\ Measured(ToSet(kept)) /\ Tokens(kept) \in Nat /\ Tokens(kept) <= Budget(c)
              /\ \A k \in ToSet(kept), l \in left : k.score >= l.score
              /\ left # {} => \E l \in left : /\ \A m \in left : l.score >= m.score
                                             /\ Tokens(kept) + EstimateTokens(l) > Budget(c)
<1> DEFINE S == ToSet(f[c])
<1>1. Rankable(S) /\ Measured(S) /\ Deduplicate(S) = S
  BY HitsMeasured
<1>2. Budget(c) \in Nat
  BY BudgetType
<1>3. Context(f)[c] = ApplyTokenBudget(S, Budget(c))
  BY <1>1 DEF Context
<1> HIDE DEF S
<1> DEFINE kept == ApplyTokenBudget(S, Budget(c))
           left == S \ ToSet(kept)
<1>4. /\ IsSequence(kept) /\ ToSet(kept) \subseteq S
      /\ Tokens(kept) \in Nat /\ Tokens(kept) <= Budget(c)
      /\ \A k \in ToSet(kept), l \in left : k.score >= l.score
      /\ left # {} => \E l \in left : /\ \A m \in left : l.score >= m.score
                                     /\ Tokens(kept) + EstimateTokens(l) > Budget(c)
  BY <1>1, <1>2, BudgetIsKept
<1>5. Measured(ToSet(kept))
  BY <1>1, <1>4 DEF Measured
<1> HIDE DEF kept
<1> QED
  BY <1>3, <1>4, <1>5 DEF S, kept

\* The context of a request that has found f.
Sound(f, i, s) == \A c \in Collections : Hits(f[c], c, i, s)

LEMMA ContextFits ==
    ASSUME NEW f, NEW i, NEW s, Sound(f, i, s)
    PROVE  LET x == Context(f) IN
           Tokens(x["resume"] \o x["past_answer"] \o x["job_description"] \o x["template"])
               <= MaxContext
<1> DEFINE x == Context(f)
<1>1. \A c \in Collections : /\ IsSequence(x[c]) /\ Measured(ToSet(x[c]))
                             /\ Tokens(x[c]) \in Nat /\ Tokens(x[c]) <= Budget(c)
  BY ContextOf DEF Sound
<1>2. /\ "resume" \in Collections /\ "past_answer" \in Collections
      /\ "job_description" \in Collections /\ "template" \in Collections
  BY DEF Collections
<1> HIDE DEF x
<1> DEFINE two == x["resume"] \o x["past_answer"]
           three == two \o x["job_description"]
<1>3. /\ IsSequence(two) /\ Measured(ToSet(two))
      /\ Tokens(two) = Tokens(x["resume"]) + Tokens(x["past_answer"])
  BY <1>1, <1>2, TokensTogether
<1> HIDE DEF two
<1>4. /\ IsSequence(three) /\ Measured(ToSet(three))
      /\ Tokens(three) = Tokens(two) + Tokens(x["job_description"])
  BY <1>1, <1>2, <1>3, TokensTogether
<1> HIDE DEF three
<1>5. Tokens(three \o x["template"]) = Tokens(three) + Tokens(x["template"])
  BY <1>1, <1>2, <1>4, TokensTogether
<1>6. Tokens(three \o x["template"]) <= MaxContext
  BY <1>1, <1>2, <1>3, <1>4, <1>5, BudgetType, RetrievalAssumption
<1> QED
  BY <1>6 DEF x, three, two

\* The chunks of a context that is not empty.
LEMMA ChunksOf ==
    ASSUME NEW f, NEW i, NEW s, Sound(f, i, s), Context(f) # EmptyContext
    PROVE  LET S == AllChunks(Context(f)) IN
           /\ Rankable(S) /\ S # {}
           /\ \A k \in S : k.score \in 0..100 /\ k.point \in Points
<1> DEFINE x == Context(f)
           S == AllChunks(x)
<1>1. \A c \in Collections : IsSequence(x[c]) /\ ToSet(x[c]) \subseteq ToSet(f[c])
  BY ContextOf DEF Sound
<1>2. x = [c \in Collections |-> x[c]]
  BY DEF Context
<1> HIDE DEF x
<1>3. \A k \in S : k.score \in 0..100 /\ k.point \in Points
  BY <1>1 DEF AllChunks, Sound, Hits, Hit, Chunks
<1>4. IsFiniteSet(S)
  <2>1. S = ToSet(x["resume"]) \cup ToSet(x["past_answer"])
              \cup ToSet(x["job_description"]) \cup ToSet(x["template"])
    BY DEF AllChunks, Collections
  <2>2. \A c \in Collections : IsFiniteSet(ToSet(x[c]))
    BY <1>1, RangeFinite
  <2>3. \A T, U : IsFiniteSet(T) /\ IsFiniteSet(U) => IsFiniteSet(T \cup U)
    BY FS_Union
  <2> QED
    BY <2>1, <2>2, <2>3, Zenon DEF Collections
<1>5. S # {}
  <2>1. PICK c \in Collections : x[c] # <<>>
    <3>1. x # [c \in Collections |-> <<>>]
      BY DEF EmptyContext, x
    <3> QED
      BY <1>2, <3>1
  <2>2. Len(x[c]) \in Nat /\ x[c] \in Seq(ToSet(x[c]))
    BY <1>1, SequenceProperties DEF IsSequence
  <2>3. Len(x[c]) # 0
    BY <2>1, <2>2
  <2>4. x[c][1] \in ToSet(x[c])
    BY <2>2, <2>3, ElementAt
  <2> QED
    BY <2>4 DEF AllChunks
<1> QED
  BY <1>3, <1>4, <1>5 DEF Rankable, x

-----------------------------------------------------------------------------
(* Answers.                                                                  *)

\* Chunks of a context: what ChunksOf says of them.
Scored(S) ==
    Rankable(S) /\ S # {} /\ \A k \in S : k.score \in 0..100 /\ k.point \in Points

LEMMA ScoreSumType ==
    ASSUME NEW S, Rankable(S)
    PROVE  ScoreSum(S) \in Nat
<1> DEFINE r == Ranked(S)
           g == [n \in DOMAIN r |-> r[n].score]
<1>1. /\ IsSequence(r) /\ ToSet(r) = S /\ Len(r) \in Nat
      /\ DOMAIN r = 1..Len(r) /\ \A i \in 1..Len(r) : r[i] \in S
  BY RankedIs, SequenceProperties
<1>2. ScoreSum(S) = FoldLeft(+, 0, g)
  BY Zenon DEF ScoreSum
<1> HIDE DEF r
<1>3. /\ g = [i \in 1..Len(r) |-> g[i]]
      /\ \A i \in 1..Len(r) : g[i] \in Nat
  BY <1>1 DEF Rankable
<1>4. ScoreSum(S) = SumTo(g, Len(r))
  <2> HIDE DEF g
  <2> QED
    BY <1>2, <1>3, Zenon DEF SumTo
<1> HIDE DEF g
<1> QED
  BY <1>1, <1>3, <1>4, SumType

\* One kind of source or more, of four.
LEMMA KindsOf ==
    ASSUME NEW S, Scored(S)
    PROVE  Cardinality({k.point.collection : k \in S}) \in 1..4
<1> DEFINE kinds == {k.point.collection : k \in S}
<1>1. kinds \subseteq Collections /\ kinds # {}
  BY PointsAssumption DEF Scored
<1> HIDE DEF kinds
<1>2. IsFiniteSet(Collections) /\ Cardinality(Collections) <= 4
  <2> DEFINE one == {"resume"}
             two == {"resume", "past_answer"}
             three == {"resume", "past_answer", "job_description"}
  <2>1. /\ two = one \cup {"past_answer"}
        /\ three = two \cup {"job_description"} /\ Collections = three \cup {"template"}
    BY DEF Collections
  <2>2. IsFiniteSet(one) /\ Cardinality(one) = 1
    BY FS_Singleton
  <2> HIDE DEF one, two, three
  <2>3. ASSUME NEW T, NEW x, NEW U, U = T \cup {x}, IsFiniteSet(T)
        PROVE  IsFiniteSet(U) /\ Cardinality(U) <= Cardinality(T) + 1 /\ Cardinality(U) \in Nat
    <3>1. /\ IsFiniteSet(U) /\ Cardinality(T) \in Nat
          /\ Cardinality(U) = IF x \in T THEN Cardinality(T) ELSE Cardinality(T) + 1
      BY <2>3, FS_AddElement, FS_CardinalityType
    <3> QED
      BY <3>1
  <2>4. IsFiniteSet(two) /\ Cardinality(two) <= 2 /\ Cardinality(two) \in Nat
    <3>1. IsFiniteSet(two) /\ Cardinality(two) <= Cardinality(one) + 1 /\ Cardinality(two) \in Nat
      BY <2>1, <2>2, <2>3, Zenon
    <3> QED
      BY <2>2, <3>1
  <2>5. IsFiniteSet(three) /\ Cardinality(three) <= 3 /\ Cardinality(three) \in Nat
    <3>1. IsFiniteSet(three) /\ Cardinality(three) <= Cardinality(two) + 1 /\ Cardinality(three) \in Nat
      BY <2>1, <2>4, <2>3, Zenon
    <3> QED
      BY <2>4, <3>1
  <2>6. /\ IsFiniteSet(Collections) /\ Cardinality(Collections) \in Nat
        /\ Cardinality(Collections) <= Cardinality(three) + 1
    BY <2>1, <2>5, <2>3, Zenon
  <2> QED
    BY <2>5, <2>6
<1>3. IsFiniteSet(kinds) /\ Cardinality(kinds) <= Cardinality(Collections)
  BY <1>1, <1>2, FS_Subset
<1>4. Cardinality(kinds) \in Nat /\ Cardinality(Collections) \in Nat /\ Cardinality(kinds) # 0
  BY <1>1, <1>2, <1>3, FS_CardinalityType, FS_EmptySet
<1>5. Cardinality(kinds) \in 1..4
  BY <1>2, <1>3, <1>4
<1> QED
  BY <1>5 DEF kinds

\* The smaller of two numbers.
LEMMA MinOfTwo ==
    ASSUME NEW a \in Int, NEW b \in Int
    PROVE  Min({a, b}) \in {a, b} /\ Min({a, b}) <= a /\ Min({a, b}) <= b
<1>1. \E x \in {a, b} : \A y \in {a, b} : x <= y
  <2>1. a <= b \/ b <= a
    OBVIOUS
  <2> QED
    BY <2>1
<1>2. Min({a, b}) \in {a, b} /\ \A y \in {a, b} : Min({a, b}) <= y
  BY <1>1, Zenon DEF Min
<1> QED
  BY <1>2

LEMMA MinOfNumbers == \A a, b \in Nat : Min({a, b}) \in Nat
<1>1. ASSUME NEW a \in Nat, NEW b \in Nat PROVE Min({a, b}) \in Nat
  <2>1. a \in Int /\ b \in Int
    OBVIOUS
  <2>2. Min({a, b}) \in {a, b}
    BY <2>1, MinOfTwo, Zenon
  <2> QED
    BY <2>2
<1> QED
  BY <1>1

LEMMA MaxOfTwo ==
    ASSUME NEW a \in Int, NEW b \in Int
    PROVE  Max({a, b}) \in {a, b} /\ a <= Max({a, b}) /\ b <= Max({a, b})
<1>1. \E x \in {a, b} : \A y \in {a, b} : x >= y
  <2>1. a >= b \/ b >= a
    OBVIOUS
  <2> QED
    BY <2>1
<1>2. Max({a, b}) \in {a, b} /\ \A y \in {a, b} : Max({a, b}) >= y
  BY <1>1, Zenon DEF Max
<1> QED
  BY <1>2

LEMMA RoundType ==
    ASSUME NEW num \in Nat, NEW den \in Nat \ {0}
    PROVE  Round(num, den) \in Nat
<1> DEFINE a == 2 * num + den
           b == 2 * den
<1>1. a \in Nat /\ b \in Nat /\ b > 0
  OBVIOUS
<1> HIDE DEF a, b
<1>2. a \div b \in Nat
  BY <1>1
<1> QED
  BY <1>2 DEF Round, a, b

\* A reply the agent turns into an answer.
Answering(r) == r \in Replies /\ r.kind = "answer"

\* Confidence is between nothing and certainty.
LEMMA ConfidenceRange ==
    ASSUME NEW x, Scored(AllChunks(x)), NEW r, Answering(r)
    PROVE  ComputeConfidence(x, r) \in 0..1000
<1> DEFINE S == AllChunks(x)
           n == Cardinality(S)
           known == UNION {c.point.words : c \in S}
           M == {i \in DOMAIN r.words : r.words[i] \in known}
           matched == Cardinality(M)
           w == Max({1, Len(r.words)})
           sum == ScoreSum(S)
           coverage == Min({400 * n, 3 * sum + 10 * n * Min({n, 10})})
           kinds == Cardinality({c.point.collection : c \in S})
           grounded == CASE r.blank -> 0
                         [] ~ r.blank /\ r.words = <<>> -> 150 * n * w
                         [] OTHER -> 300 * n * matched
           total == coverage * w + Diversity[kinds] * n * w + grounded
<1>1. n \in Nat \ {0}
  BY FS_CardinalityType, FS_EmptySet DEF Scored, Rankable
<1>2. sum \in Nat
  BY ScoreSumType DEF Scored
<1>3. r.blank \in BOOLEAN /\ Len(r.words) \in Nat /\ DOMAIN r.words = 1..Len(r.words)
  BY RepliesAssumption DEF Answering, IsList
<1>4. matched \in Nat
  <2>1. IsFiniteSet(1..Len(r.words)) /\ M \subseteq 1..Len(r.words)
    BY <1>3, FS_Interval
  <2> HIDE DEF M
  <2> QED
    BY <2>1, FS_Subset, FS_CardinalityType
<1>5. w \in Nat \ {0}
  <2>1. 1 \in Int /\ Len(r.words) \in Int
    BY <1>3
  <2>2. w \in {1, Len(r.words)} /\ 1 <= w
    BY <2>1, MaxOfTwo, Zenon
  <2> HIDE DEF w
  <2> QED
    BY <1>3, <2>2
<1>6. Diversity[kinds] \in Nat
  <2>1. kinds \in 1..4
    BY KindsOf
  <2> HIDE DEF kinds
  <2> QED
    BY <2>1 DEF Diversity
<1>7. ComputeConfidence(x, r) = Min({1000, Round(total, n * w)})
  BY DEF ComputeConfidence
<1> HIDE DEF n, M, matched, w, sum, kinds
<1>8. coverage \in Nat
  <2>1. Min({n, 10}) \in Nat
    BY <1>1, MinOfNumbers
  <2> DEFINE least == Min({n, 10})
  <2> HIDE DEF least
  <2>2. least \in Nat
    BY <2>1 DEF least
  <2>3. 10 * n * least \in Nat
    BY <1>1, <2>2
  <2>4. 400 * n \in Nat /\ 3 * sum + 10 * n * least \in Nat
    BY <1>1, <1>2, <2>3
  <2>5. Min({400 * n, 3 * sum + 10 * n * least}) \in Nat
    BY <2>4, MinOfNumbers
  <2> QED
    BY <2>5 DEF least
<1>9. grounded \in Nat
  <2>1. 150 * n * w \in Nat /\ 300 * n * matched \in Nat
    BY <1>1, <1>4, <1>5
  <2> QED
    BY <1>3, <2>1
<1> HIDE DEF coverage, grounded
<1>10. total \in Nat
  <2>1. coverage * w \in Nat
    BY <1>5, <1>8
  <2>2. Diversity[kinds] * n * w \in Nat
    <3> DEFINE d == Diversity[kinds]
    <3>1. d \in Nat
      BY <1>6
    <3> HIDE DEF d
    <3>2. d * n \in Nat
      BY <1>1, <3>1
    <3>3. d * n * w \in Nat
      BY <1>5, <3>2
    <3> QED
      BY <3>3 DEF d
  <2> QED
    BY <1>9, <2>1, <2>2
<1>11. n * w \in Nat \ {0}
  BY <1>1, <1>5
<1> HIDE DEF total
<1>12. Round(total, n * w) \in Nat
  BY <1>10, <1>11, RoundType
<1>13. Min({1000, Round(total, n * w)}) \in 0..1000
  <2> DEFINE top == 1000
             most == Min({top, Round(total, n * w)})
  <2>1. top \in Int /\ Round(total, n * w) \in Int
    BY <1>12
  <2> HIDE DEF top
  <2>2. most \in {top, Round(total, n * w)} /\ most <= top
    BY <2>1, MinOfTwo, Zenon
  <2> HIDE DEF most
  <2>3. most \in 0..1000
    BY <1>12, <2>2 DEF top
  <2> QED
    BY <2>3 DEF most, top
<1> QED
  BY <1>7, <1>13

\* Digits at the start or at the end of others occur in them.
LEMMA PrefixOccurs ==
    ASSUME NEW s, NEW t, IsList(s), IsList(t), IsPrefix(s, t)
    PROVE  Occurs(s, t)
<1>1. Len(s) \in Nat /\ Len(t) \in Nat /\ Len(s) <= Len(t)
  BY DEF IsList, IsPrefix
<1>2. SubSeq(s, 1, Len(s)) = s
  BY DEF IsList
<1>3. SubSeq(t, 0 + 1, 0 + Len(s)) = s
  BY <1>1, <1>2 DEF IsPrefix
<1>4. 0 \in 0..(Len(t) - Len(s))
  BY <1>1
<1> QED
  BY <1>3, <1>4 DEF Occurs

LEMMA SuffixOccurs ==
    ASSUME NEW s, NEW t, IsList(s), IsList(t), IsSuffix(s, t)
    PROVE  Occurs(s, t)
<1> DEFINE n == Len(s)
           m == Len(t)
           i == m - n
           part == SubSeq(t, i + 1, i + n)
<1>1. /\ n \in Nat /\ DOMAIN s = 1..n /\ m \in Nat /\ DOMAIN t = 1..m
      /\ s = [k \in 1..n |-> s[k]] /\ t \in Seq(ToSet(t))
  BY DEF IsList
<1>2. /\ Reverse(s) \in Seq({s[k] : k \in 1..n}) /\ Len(Reverse(s)) = n
      /\ \A k \in 1..n : Reverse(s)[k] = s[(n - k) + 1]
  <2>1. Reverse(s) = [k \in 1..n |-> s[(n - k) + 1]]
    BY DEF Reverse
  <2>2. \A k \in 1..n : (n - k) + 1 \in 1..n
    BY <1>1
  <2> QED
    BY <1>1, <2>1, <2>2
<1>3. /\ Reverse(t) \in Seq({t[k] : k \in 1..m}) /\ Len(Reverse(t)) = m
      /\ \A k \in 1..m : Reverse(t)[k] = t[(m - k) + 1]
  <2>1. Reverse(t) = [k \in 1..m |-> t[(m - k) + 1]]
    BY DEF Reverse
  <2>2. \A k \in 1..m : (m - k) + 1 \in 1..m
    BY <1>1
  <2> QED
    BY <1>1, <2>1, <2>2
<1>4. n <= m /\ SubSeq(Reverse(s), 1, n) = SubSeq(Reverse(t), 1, n)
  BY <1>2, <1>3 DEF IsSuffix, IsPrefix
<1>5. \A k \in 1..n : s[(n - k) + 1] = t[(m - k) + 1]
  <2>1. TAKE k \in 1..n
  <2>2. SubSeq(Reverse(s), 1, n)[k] = Reverse(s)[k]
    BY <1>1, <1>2
  <2>3. SubSeq(Reverse(t), 1, n)[k] = Reverse(t)[k] /\ k \in 1..m
    BY <1>1, <1>3, <1>4
  <2>4. Reverse(s)[k] = Reverse(t)[k]
    BY <1>4, <2>2, <2>3
  <2>5. Reverse(s)[k] = s[(n - k) + 1]
    BY <1>2
  <2>6. Reverse(t)[k] = t[(m - k) + 1]
    BY <1>3, <2>3
  <2> QED
    BY <2>4, <2>5, <2>6
<1>6. \A j \in 1..n : s[j] = t[i + j]
  <2>1. TAKE j \in 1..n
  <2> DEFINE k == (n - j) + 1
  <2> HIDE DEF n, m
  <2>2. k \in 1..n /\ (n - k) + 1 = j /\ (m - k) + 1 = i + j
    BY <1>1
  <2> QED
    BY <1>5, <2>2
<1>7. i \in 0..(m - n) /\ i + n = m
  BY <1>1, <1>4
<1>8. part = s
  <2>1. /\ part \in Seq(ToSet(t)) /\ Len(part) = n
        /\ \A j \in 1..n : part[j] = t[i + j]
    <3>1. Len(part) = n /\ DOMAIN part = 1..n
      BY <1>1, <1>7
    <3>2. \A j \in 1..n : part[j] = t[i + j]
      BY <1>1, <1>7
    <3>3. part \in Seq(ToSet(t))
      BY <1>1, <1>7
    <3> QED
      BY <3>1, <3>2, <3>3
  <2> HIDE DEF part
  <2>2. part = [j \in 1..n |-> part[j]]
    BY <2>1
  <2> QED
    BY <1>1, <1>6, <2>1, <2>2
<1> QED
  BY <1>7, <1>8 DEF Occurs

IsFigure(f) ==
    /\ f.kind \in {"percent", "dollar", "year"} /\ IsList(f.digits)
    /\ f.kind = "year" => Len(f.digits) = 4

\* A percentage or an amount of the context is found in it.
LEMMA FigureIsFound ==
    ASSUME NEW f, IsFigure(f), f.kind # "year", NEW T, f \in T
    PROVE  InText(f, T)
<1> DEFINE d == f.digits
<1>1. IsList(d) /\ Len(d) \in Nat
  BY DEF IsFigure, IsList
<1>2. IsSuffix(d, d) /\ IsPrefix(d, d)
  <2>1. Len(Reverse(d)) \in Nat
    <3>1. Reverse(d) = [k \in 1..Len(d) |-> d[(Len(d) - k) + 1]]
      BY DEF Reverse
    <3> QED
      BY <1>1, <3>1
  <2> QED
    BY <1>1, <2>1 DEF IsSuffix, IsPrefix
<1> HIDE DEF d
<1>3. f.kind \in {"percent", "dollar"} /\ f.digits = d
  BY DEF IsFigure, d
<1> QED
  BY <1>2, <1>3 DEF InText

\* A percentage or an amount that is found is part of one in the context.
LEMMA FoundFigureOccurs ==
    ASSUME NEW f, IsFigure(f), f.kind # "year", NEW T, \A g \in T : IsList(g.digits),
           InText(f, T)
    PROVE  \E g \in T : Occurs(f.digits, g.digits)
<1>1. IsList(f.digits)
  BY DEF IsFigure
<1>2. CASE f.kind = "percent"
  <2>1. PICK g \in T : IsSuffix(f.digits, g.digits)
    BY <1>2 DEF InText
  <2> QED
    BY <1>1, <2>1, SuffixOccurs
<1>3. CASE f.kind = "dollar"
  <2>1. PICK g \in T : IsPrefix(f.digits, g.digits)
    BY <1>3 DEF InText
  <2> QED
    BY <1>1, <2>1, PrefixOccurs
<1> QED
  BY <1>2, <1>3 DEF IsFigure

\* What every answer made from a context and a reply is.
Grounded(a, x) ==
    /\ ~ a.refused /\ a.confidence \in 0..1000 /\ a.source \in Sources
    /\ a.trail # <<>> /\ Len(a.trail) <= TrailLength /\ ToSet(a.trail) \subseteq AllChunks(x)
    /\ a.flagged \in BOOLEAN /\ (a.flagged => a.confidence <= 750)
    /\ (\A f \in a.figures : f.kind = "year" \/ f \in Figures(x)) =>
          (a.flagged <=> \E f \in a.figures :
              f.kind = "year" /\ ~ \E g \in Figures(x) : Occurs(Century(f), g.digits))
    /\ (\E f \in a.figures : f.kind # "year"
           /\ ~ \E g \in Figures(x) : Occurs(f.digits, g.digits)) => a.flagged

LEMMA GeneratedAnswer ==
    ASSUME NEW x, Scored(AllChunks(x)), NEW r \in Replies, ~ Raises(r)
    PROVE  Generate(x, r) = Refusal \/ Grounded(Generate(x, r), x)
<1>1. CASE r.kind \in {"garbage", "refusal"}
  BY <1>1 DEF Generate
<1>2. CASE r.kind \notin {"garbage", "refusal"}
  <2>1. Answering(r) /\ \A f \in r.figures : IsFigure(f)
    BY <1>2, RepliesAssumption DEF Raises, Answering, IsFigure
  <2> DEFINE a == Answered(x, r)
             earned == ComputeConfidence(x, r)
             flagged == DetectHallucination(r.figures, x)
             trail == FirstOf(TrailLength, Ranked(AllChunks(x)))
  <2>2. Generate(x, r) = a
    BY <1>2 DEF Generate
  <2>3. /\ a.refused = FALSE /\ a.figures = r.figures /\ a.trail = trail /\ a.flagged = flagged
        /\ a.confidence = (IF flagged THEN Max({0, earned - 250}) ELSE earned)
        /\ a.source = (IF r.source \in Sources THEN r.source ELSE "ai_generated")
    BY DEF Answered
  <2>4. earned \in 0..1000
    BY <2>1, ConfidenceRange
  <2>5. flagged \in BOOLEAN
    BY DEF DetectHallucination
  <2> HIDE DEF a, earned, flagged
  <2>6. a.confidence \in 0..1000 /\ (a.flagged => a.confidence <= 750)
    <3> DEFINE less == earned - 250
               most == Max({0, less})
    <3>1. 0 \in Int /\ less \in Int
      BY <2>4
    <3> HIDE DEF less
    <3>2. most \in {0, less}
      BY <3>1, MaxOfTwo
    <3>3. 0 <= most
      BY <3>1, MaxOfTwo
    <3> HIDE DEF most
    <3>4. most \in 0..750
      BY <2>4, <3>2, <3>3 DEF less
    <3>5. a.confidence = IF flagged THEN most ELSE earned
      BY <2>3 DEF most, less
    <3> QED
      BY <2>3, <2>4, <2>5, <3>4, <3>5
  <2>7. a.source \in Sources
    BY <2>3 DEF Sources
  <2>8. trail # <<>> /\ Len(trail) <= TrailLength /\ ToSet(trail) \subseteq AllChunks(x)
    <3> DEFINE S == AllChunks(x)
               ranked == Ranked(S)
    <3>1. /\ ranked \in Seq(S) /\ ToSet(ranked) = S /\ S # {}
      BY RankedIs DEF Scored
    <3>2. TrailLength \in Nat /\ TrailLength > 0
      BY DEF TrailLength
    <3> HIDE DEF S, ranked
    <3>3. ranked # <<>>
      <4>1. ASSUME ranked = <<>> PROVE FALSE
        <5>1. ToSet(<<>>) = {}
          BY DEF ToSet
        <5> QED
          BY <3>1, <4>1, <5>1
      <4> QED
        BY <4>1
    <3> DEFINE first == FirstOf(TrailLength, ranked)
    <3>4. Len(first) <= TrailLength /\ ToSet(first) \subseteq ToSet(ranked) /\ first # <<>>
      BY <3>1, <3>2, <3>3, FirstOfIs
    <3> HIDE DEF first
    <3> QED
      BY <3>1, <3>4 DEF first, ranked, S
  <2>9. ASSUME \A f \in a.figures : f.kind = "year" \/ f \in Figures(x)
        PROVE  a.flagged <=> \E f \in a.figures :
                   f.kind = "year" /\ ~ \E g \in Figures(x) : Occurs(Century(f), g.digits)
    <3>1. \A f \in r.figures : f.kind # "year" => InText(f, Figures(x))
      BY <2>1, <2>3, <2>9, FigureIsFound
    <3>2. \A f \in r.figures : f.kind = "year" =>
             (InText(f, Figures(x)) <=> \E g \in Figures(x) : Occurs(Century(f), g.digits))
      BY DEF InText, Century
    <3>3. flagged <=> \E f \in r.figures : ~ InText(f, Figures(x))
      BY DEF flagged, DetectHallucination
    <3> QED
      BY <2>3, <3>1, <3>2, <3>3
  <2>10. ASSUME NEW f \in a.figures, f.kind # "year",
                ~ \E g \in Figures(x) : Occurs(f.digits, g.digits)
         PROVE  a.flagged
    <3>1. \A g \in Figures(x) : IsList(g.digits)
      BY PointsAssumption DEF Scored, Figures
    <3>2. ~ InText(f, Figures(x))
      BY <2>1, <2>3, <2>10, <3>1, FoundFigureOccurs
    <3> QED
      BY <2>3, <3>2 DEF flagged, DetectHallucination
  <2> HIDE DEF trail
  <2>11. Grounded(a, x)
    BY <2>3, <2>5, <2>6, <2>7, <2>8, <2>9, <2>10 DEF Grounded
  <2> QED
    BY <2>2, <2>11
<1> QED
  BY <1>1, <1>2

-----------------------------------------------------------------------------
(* Forms.                                                                    *)

LEMMA AverageRange ==
    ASSUME NEW n \in Nat \ {0}, NEW top \in Nat, NEW sum \in 0..(n * top)
    PROVE  sum \div n \in 0..top
<1> DEFINE q == sum \div n
<1>1. q \in Int /\ n * q <= sum /\ sum < n * q + n
  OBVIOUS
<1> HIDE DEF q
<1>2. q >= 0
  <2>1. ASSUME q < 0 PROVE FALSE
    <3>1. n * q + n <= 0
      BY <1>1, <2>1
    <3> QED
      BY <1>1, <3>1
  <2> QED
    BY <1>1, <2>1
<1>3. q <= top
  <2>1. ASSUME q > top PROVE FALSE
    <3>1. n * q >= n * top + n
      BY <1>1, <2>1
    <3> QED
      BY <1>1, <3>1
  <2> QED
    BY <1>1, <2>1
<1> QED
  BY <1>1, <1>2, <1>3 DEF q

\* The fields of a page are its elements that are shown, in their order.
LEMMA ManifestIs ==
    ASSUME NEW page, IsList(page.elements)
    PROVE  LET shown == Shown(page)
               manifest == ExtractFieldManifest(page)
           IN /\ IsSequence(shown) /\ Len(shown) \in Nat /\ DOMAIN shown = 1..Len(shown)
              /\ manifest = [i \in 1..Len(shown) |-> manifest[i]]
              /\ \A i \in 1..Len(shown) :
                     manifest[i].name = shown[i].name /\ manifest[i].order = i - 1
<1> DEFINE pieces == [i \in DOMAIN page.elements |->
                         IF page.elements[i].type \in Skipped THEN <<>> ELSE <<page.elements[i]>>]
           n == Len(page.elements)
           shown == Shown(page)
           manifest == ExtractFieldManifest(page)
<1>1. n \in Nat /\ DOMAIN page.elements = 1..n
  BY DEF IsList
<1>2. \A i \in 1..n : IsSequence(pieces[i])
  <2>1. \A x : IsSequence(<<x>>)
    BY DEF IsSequence, ToSet
  <2>2. IsSequence(<<>>)
    BY DEF IsSequence, ToSet
  <2> QED
    BY <1>1, <2>1, <2>2
<1>3. IsSequence(pieces) /\ Len(pieces) = n
  <2>1. pieces = [i \in 1..n |-> pieces[i]]
    BY <1>1
  <2> HIDE DEF pieces
  <2>2. pieces \in Seq({pieces[i] : i \in 1..n}) /\ Len(pieces) = n
    BY <1>1, <2>1
  <2> QED
    BY <2>2, SequenceOf
<1>4. shown = FlattenSeq(pieces)
  BY DEF Shown
<1> HIDE DEF pieces
<1>5. IsSequence(shown)
  BY <1>2, <1>3, <1>4, FlattenRange
<1> HIDE DEF shown
<1>6. Len(shown) \in Nat /\ DOMAIN shown = 1..Len(shown)
  BY <1>5, SequenceProperties
<1>7. /\ manifest = [i \in 1..Len(shown) |-> manifest[i]]
      /\ \A i \in 1..Len(shown) : manifest[i].name = shown[i].name /\ manifest[i].order = i - 1
  BY <1>6 DEF ExtractFieldManifest, shown
<1> QED
  BY <1>5, <1>6, <1>7 DEF shown

\* A mapping by patterns is certain enough to need no model.
LEMMA HeuristicIs ==
    ASSUME NEW raw
    PROVE  /\ HeuristicMap(raw) = Empty \/ HeuristicMap(raw).confidence \in HighConfidence..100
           /\ ~ Resolved(raw) => HeuristicMap(raw) = Empty
<1> DEFINE rated == [i \in DOMAIN CanonicalFieldMap |-> KeyScore(CanonicalFieldMap[i], raw)]
           scores == {0} \cup {rated[i] : i \in DOMAIN rated}
           best  == Max(scores)
           first == CanonicalFieldMap[Min({i \in DOMAIN rated : rated[i] = best})]
<1>1. scores \subseteq {0, 72, 85, 92} /\ 0 \in scores
  <2>1. \A entry : KeyScore(entry, raw) \in {0, 72, 85, 92}
    BY DEF KeyScore
  <2> QED
    BY <2>1
<1>2. HeuristicMap(raw) = IF best = 0 THEN Empty ELSE Mapping(first.key, first.ai, best)
  BY Zenon DEF HeuristicMap
<1> HIDE DEF scores
<1>3. best \in {0, 72, 85, 92}
  <2>1. \E x \in scores : \A y \in scores : x >= y
    <3>1. CASE 92 \in scores
      BY <1>1, <3>1
    <3>2. CASE 92 \notin scores /\ 85 \in scores
      BY <1>1, <3>2
    <3>3. CASE 92 \notin scores /\ 85 \notin scores /\ 72 \in scores
      BY <1>1, <3>3
    <3>4. CASE 92 \notin scores /\ 85 \notin scores /\ 72 \notin scores
      BY <1>1, <3>4
    <3> QED
      BY <3>1, <3>2, <3>3, <3>4
  <2>2. best \in scores
    BY <2>1, Zenon DEF Max
  <2> QED
    BY <1>1, <2>2
<1> HIDE DEF best, first
<1>4. best # 0 => HeuristicMap(raw).confidence = best
  BY <1>2 DEF Mapping
<1> QED
  BY <1>2, <1>3, <1>4 DEF Resolved, HighConfidence

\* Does the request for the fields of page come back with this reply, or without one?
Classifiable(page, reply) ==
    \/ Unresolved(page) = {}
    \/ reply \in FormReplies /\ ~ FormRaises(page, reply)

\* A mapping is the patterns' own, or one the model gave for that field.
Mapped(field, order, reply) ==
    \/ field.mapping = HeuristicMap(field.raw)
    \/ HeuristicMap(field.raw) = Empty /\ field.mapping.key = FormUnknown
    \/ /\ HeuristicMap(field.raw) = Empty /\ reply \in FormReplies
       /\ \E item \in ToSet(reply.items) : item.order = order /\ item.mapping = field.mapping

LEMMA ClassifiedIs ==
    ASSUME NEW page, NEW reply \in FormReplies, ~ FormRaises(page, reply), NEW order
    PROVE  \/ Classified(reply, order) = Mapping(FormUnknown, FALSE, 30)
           \/ \E item \in ToSet(reply.items) :
                  item.order = order /\ item.mapping = Classified(reply, order)
<1> DEFINE items == ItemsFor(reply, order)
<1>1. CASE items = {}
  BY <1>1 DEF Classified
<1>2. CASE items # {}
  <2>1. IsList(reply.items) /\ items = {i \in DOMAIN reply.items : reply.items[i].order = order}
    BY <1>2, RepliesAssumption DEF ItemsFor, FormRaises
  <2>2. Len(reply.items) \in Nat /\ DOMAIN reply.items = 1..Len(reply.items)
    BY <2>1 DEF IsList
  <2>3. items \subseteq 1..Len(reply.items)
    BY <2>1, <2>2
  <2> HIDE DEF items
  <2>4. Max(items) \in items
    BY <1>2, <2>2, <2>3, MaxIsLast
  <2>5. Classified(reply, order) = reply.items[Max(items)].mapping
    BY <1>2, Zenon DEF Classified, items
  <2> DEFINE last == Max(items)
  <2>6. last \in DOMAIN reply.items /\ reply.items[last].order = order
    BY <2>1, <2>4
  <2>7. reply.items[last] \in ToSet(reply.items)
    BY <2>6, Zenon DEF ToSet
  <2> HIDE DEF last
  <2> QED
    BY <2>5, <2>6, <2>7 DEF last
<1> QED
  BY <1>1, <1>2

\* u has the fields of page, in order: each with the mapping of the patterns, or
\* one the reply gives for it.
Describes(u, page, reply) ==
    LET shown == Shown(page) IN
    /\ Len(u.fields) = Len(shown) /\ u.confidence \in 0..100
    /\ u.warned = (shown = <<>>) /\ DOMAIN shown = 1..Len(shown)
    /\ \A n \in DOMAIN shown :
          /\ u.fields[n].raw.name = shown[n].name /\ u.fields[n].raw.order = n - 1
          /\ Mapped(u.fields[n], n - 1, reply)
          /\ Unresolved(page) = {} => u.fields[n].mapping = HeuristicMap(u.fields[n].raw)

LEMMA UnderstoodIs ==
    ASSUME NEW page, IsList(page.elements), NEW reply, Classifiable(page, reply)
    PROVE  Describes(Understand(page, reply), page, reply)
<1> DEFINE shown == Shown(page)
           manifest == ExtractFieldManifest(page)
           fields == FieldsOf(page, reply)
           k == Len(shown)
           confidences == [i \in DOMAIN fields |-> fields[i].mapping.confidence]
           sum == FoldLeft(+, 0, confidences)
<1>1. /\ IsSequence(shown) /\ k \in Nat /\ DOMAIN shown = 1..k
      /\ manifest = [i \in 1..k |-> manifest[i]]
      /\ \A i \in 1..k : manifest[i].name = shown[i].name /\ manifest[i].order = i - 1
  BY ManifestIs
<1>2. /\ Understand(page, reply).fields = fields
      /\ Understand(page, reply).confidence = (IF fields = <<>> THEN 0 ELSE sum \div Len(fields))
      /\ Understand(page, reply).warned = (fields = <<>>)
  BY DEF Understand
<1> HIDE DEF shown, manifest
<1>3. /\ fields = [i \in 1..k |-> fields[i]]
      /\ \A i \in 1..k :
            fields[i] = DetectedField(manifest[i],
                IF Resolved(manifest[i]) THEN HeuristicMap(manifest[i])
                ELSE Classified(reply, manifest[i].order))
  BY <1>1 DEF FieldsOf, manifest
<1> HIDE DEF fields
<1>4. Len(fields) = k /\ DOMAIN fields = 1..k /\ (fields = <<>> <=> k = 0)
  BY <1>1, <1>3
<1>5. shown = <<>> <=> k = 0
  <2>1. shown \in Seq(ToSet(shown))
    BY <1>1 DEF IsSequence
  <2> QED
    BY <1>1, <2>1
<1>6. ASSUME NEW i \in 1..k
      PROVE  /\ fields[i].raw.name = shown[i].name /\ fields[i].raw.order = i - 1
             /\ Mapped(fields[i], i - 1, reply)
             /\ Unresolved(page) = {} => fields[i].mapping = HeuristicMap(fields[i].raw)
             /\ fields[i].mapping.confidence \in 0..100
  <2> DEFINE raw == manifest[i]
             order == i - 1
  <2>1. raw.name = shown[i].name /\ raw.order = order
    BY <1>1
  <2>2. /\ fields[i].raw = raw
        /\ fields[i].mapping = IF Resolved(raw) THEN HeuristicMap(raw) ELSE Classified(reply, order)
    BY <1>3, <2>1 DEF DetectedField
  <2> HIDE DEF raw, order
  <2>3. CASE Resolved(raw)
    <3>1. HeuristicMap(raw).confidence \in 0..100
      BY <2>3, HeuristicIs DEF Resolved, HighConfidence
    <3> QED
      BY <2>1, <2>2, <2>3, <3>1 DEF Mapped, order
  <2>4. CASE ~ Resolved(raw)
    <3>1. HeuristicMap(raw) = Empty
      BY <2>4, HeuristicIs
    <3>2. raw \in Unresolved(page)
      <4>1. raw \in ToSet(manifest)
        BY <1>1, Zenon DEF ToSet, raw
      <4> QED
        BY <2>4, <4>1 DEF Unresolved, manifest
    <3>3. reply \in FormReplies /\ ~ FormRaises(page, reply)
      BY <3>2 DEF Classifiable
    <3>4. fields[i].mapping.confidence \in 0..100
      BY <2>1, <2>2, <2>4, <3>2, <3>3, Zenon DEF FormRaises
    <3>5. fields[i].mapping = Classified(reply, order)
      BY <2>2, <2>4
    <3>6. \/ fields[i].mapping.key = FormUnknown
          \/ \E item \in ToSet(reply.items) : item.order = order /\ item.mapping = fields[i].mapping
      BY <3>3, <3>5, ClassifiedIs DEF Mapping
    <3>7. Mapped(fields[i], order, reply)
      BY <2>2, <3>1, <3>3, <3>6 DEF Mapped
    <3> QED
      BY <2>1, <2>2, <3>2, <3>4, <3>7 DEF order
  <2> QED
    BY <2>3, <2>4
<1>7. Understand(page, reply).confidence \in 0..100
  <2>1. CASE k = 0
    <3>1. fields = <<>>
      BY <1>4, <2>1
    <3>2. Understand(page, reply).confidence = 0
      BY <1>2, <3>1, Zenon
    <3> QED
      BY <3>2
  <2>2. CASE k # 0
    <3>1. confidences = [i \in 1..k |-> confidences[i]] /\ \A i \in 1..k : confidences[i] \in 0..100
      BY <1>4, <1>6
    <3> HIDE DEF confidences
    <3>2. sum = SumTo(confidences, k)
      BY <3>1, Zenon DEF SumTo
    <3> HIDE DEF sum
    <3>3. sum \in 0..(k * 100)
      BY <1>1, <3>1, <3>2, SumBound
    <3>4. sum \div k \in 0..100
      BY <1>1, <2>2, <3>3, AverageRange
    <3> QED
      BY <1>2, <1>4, <2>2, <3>4
  <2> QED
    BY <2>1, <2>2
<1>8. Understand(page, reply).warned = (shown = <<>>)
  BY <1>2, <1>4, <1>5
<1>9. Len(Understand(page, reply).fields) = k
  BY <1>2, <1>4
<1>10. \A n \in 1..k :
          /\ Understand(page, reply).fields[n].raw.name = shown[n].name
          /\ Understand(page, reply).fields[n].raw.order = n - 1
          /\ Mapped(Understand(page, reply).fields[n], n - 1, reply)
          /\ Unresolved(page) = {} => Understand(page, reply).fields[n].mapping
                                       = HeuristicMap(Understand(page, reply).fields[n].raw)
  BY <1>2, <1>6
<1> QED
  BY <1>1, <1>7, <1>8, <1>9, <1>10 DEF shown, Describes

-----------------------------------------------------------------------------
(* Resumes.                                                                  *)

\* What is returned of a reply parsed from a resume, and how sure of it one is.
Checked(resume, text, parsed) ==
    /\ resume.email \in {<<>>, parsed.email} /\ resume.name \in {<<>>, parsed.name}
    /\ resume.linkedin \in {Missing, parsed.linkedin}
    /\ resume.skills = parsed.skills /\ resume.experience = parsed.experience
    /\ ~ Absent(resume.email) => Mentions(text, resume.email)
    /\ ~ Absent(resume.name) => Mentions(text, resume.name)
    /\ ~ Absent(resume.linkedin) => Mentions(text, <<"linkedin">>)
    /\ resume.confidence = 100 =>
           /\ resume.email = parsed.email /\ resume.name = parsed.name
           /\ resume.linkedin = parsed.linkedin
           /\ \A value \in {resume.email, resume.name, resume.skills, resume.experience} :
                  ~ Absent(value)

LEMMA ExtractedIsChecked ==
    ASSUME NEW text, NEW r \in Extractions, ~ ExtractRaises(r)
    PROVE  LET e == Extract(text, r) IN
           /\ e.confidence \in 0..100
           /\ e = NoResume \/ Checked(e, Truncated(text), r.resume)
<1> DEFINE seen == Truncated(text)
           parsed == r.resume
           cleared == Cleared(parsed, seen)
           confidence == ResumeConfidence(parsed, seen)
<1>1. CASE r.kind = "garbage" \/ ~ Valid(cleared)
  <2>1. Extract(text, r) = NoResume
    BY <1>1 DEF Extract
  <2> QED
    BY <2>1 DEF NoResume
<1>2. CASE ~(r.kind = "garbage" \/ ~ Valid(cleared))
  <2> DEFINE e == Extract(text, r)
  <2>1. /\ e.email = cleared.email /\ e.name = cleared.name /\ e.linkedin = cleared.linkedin
        /\ e.skills = cleared.skills /\ e.experience = cleared.experience
        /\ e.confidence = confidence
    BY <1>2 DEF Extract
  <2> HIDE DEF seen, e
  <2>2. /\ cleared.email = (IF InventedEmail(parsed, seen) THEN <<>> ELSE parsed.email)
        /\ cleared.name = (IF InventedName(parsed, seen) THEN <<>> ELSE parsed.name)
        /\ cleared.linkedin =
              (IF InventedLinkedin(parsed, seen) THEN Missing ELSE parsed.linkedin)
        /\ cleared.skills = parsed.skills /\ cleared.experience = parsed.experience
    BY DEF Cleared
  <2>3. ~ Absent(e.email) => Mentions(seen, e.email)
    BY <2>1, <2>2 DEF Absent, InventedEmail
  <2>4. ~ Absent(e.name) => Mentions(seen, e.name)
    BY <2>1, <2>2 DEF Absent, InventedName
  <2>5. ~ Absent(e.linkedin) => Mentions(seen, <<"linkedin">>)
    BY <2>1, <2>2 DEF Absent, InventedLinkedin
  <2> HIDE DEF cleared
  <2>6. /\ confidence \in 0..100
        /\ confidence = 100 =>
              /\ ~ InventedEmail(parsed, seen) /\ ~ InventedName(parsed, seen)
              /\ ~ InventedLinkedin(parsed, seen)
              /\ ~ Absent(cleared.name) /\ ~ Absent(cleared.email)
              /\ ~ Absent(cleared.skills) /\ ~ Absent(cleared.experience)
    <3> DEFINE a == Penalty(InventedEmail(parsed, seen), 20)
               b == Penalty(InventedName(parsed, seen), 10)
               c == Penalty(InventedLinkedin(parsed, seen), 5)
               d == Penalty(Absent(cleared.name), 15)
               f == Penalty(Absent(cleared.email), 10)
               g == Penalty(Absent(cleared.skills), 5)
               h == Penalty(Absent(cleared.experience), 10)
    <3>1. /\ a = (IF InventedEmail(parsed, seen) THEN 20 ELSE 0)
          /\ b = (IF InventedName(parsed, seen) THEN 10 ELSE 0)
          /\ c = (IF InventedLinkedin(parsed, seen) THEN 5 ELSE 0)
          /\ d = (IF Absent(cleared.name) THEN 15 ELSE 0)
          /\ f = (IF Absent(cleared.email) THEN 10 ELSE 0)
          /\ g = (IF Absent(cleared.skills) THEN 5 ELSE 0)
          /\ h = (IF Absent(cleared.experience) THEN 10 ELSE 0)
      BY DEF Penalty
    <3>2. confidence = 100 - a - b - c - d - f - g - h
      BY DEF ResumeConfidence, cleared
    <3> HIDE DEF a, b, c, d, f, g, h
    <3> QED
      BY <3>1, <3>2
  <2> HIDE DEF confidence
  <2>7. e.confidence = 100 =>
           /\ e.email = parsed.email /\ e.name = parsed.name /\ e.linkedin = parsed.linkedin
           /\ ~ Absent(e.email) /\ ~ Absent(e.name) /\ ~ Absent(e.skills)
           /\ ~ Absent(e.experience)
    BY <2>1, <2>2, <2>6
  <2>8. /\ e.email \in {<<>>, parsed.email} /\ e.name \in {<<>>, parsed.name}
        /\ e.linkedin \in {Missing, parsed.linkedin}
        /\ e.skills = parsed.skills /\ e.experience = parsed.experience
    BY <2>1, <2>2
  <2>9. Checked(e, seen, parsed)
    BY <2>3, <2>4, <2>5, <2>7, <2>8 DEF Checked
  <2> QED
    BY <2>1, <2>6, <2>9 DEF e, seen
<1> QED
  BY <1>1, <1>2

-----------------------------------------------------------------------------
(* The inductive invariant.                                                  *)

\* Which requests are at which step.
Base ==
    /\ index \subseteq Points /\ searched \in [Collections -> SUBSET Points]
    /\ pc \in {"idle", "search", "ask", "done", "failed"}
    /\ input \in Inputs \cup {None} /\ score \in Similarities \cup {None}
    /\ pc # "idle" => input \in Inputs
    /\ pc = "search" => Searching(input) /\ score \in Similarities
    /\ pc = "ask" => input.kind \in {"answers", "form", "resume"}
    /\ pc = "idle" => found = NothingFound /\ context = EmptyContext

\* What was found stays as the search returned it, whatever happens to the index.
FoundIsSound ==
    /\ found = [c \in Collections |-> found[c]]
    /\ \A c \in Collections : found[c] # None =>
           Hits(found[c], c, input, score) /\ BestOf(found[c], searched[c], c, input, score)

\* The context is made of all that was found, and asked for answers only.
ContextIsFound ==
    /\ context # EmptyContext =>
          /\ pc \in {"ask", "done", "failed"} /\ input.kind = "answers"
          /\ \A c \in Collections : found[c] # None
          /\ context = Context(found)
    /\ pc = "ask" /\ input.kind = "answers" => context # EmptyContext

\* What came of a reply about the n-th question.
CameOf(n, value) ==
    \E r \in Replies : ~ Raises(r) /\ value = Reply(n, r)

\* Each reply is kept with its question.
RepliesAreAligned ==
    pc = "ask" /\ input.kind = "answers" =>
        /\ replies = [n \in DOMAIN input.questions |-> replies[n]]
        /\ \A n \in DOMAIN input.questions : replies[n] # None => CameOf(n, replies[n])

AnswersAreReplies ==
    Done("answers") =>
        \/ result = Refusals(input)
        \/ /\ context # EmptyContext
           /\ result = [n \in DOMAIN input.questions |-> result[n]]
           /\ \A n \in DOMAIN input.questions :
                  /\ result[n].question = input.questions[n].name
                  /\ CameOf(n, [asked |-> result[n].asked, answer |-> result[n].answer])

MemoryIsFound ==
    Done("memory") =>
        \/ result = <<>>
        \/ /\ found["past_answer"] # None
           /\ result = [n \in DOMAIN found["past_answer"] |-> SimilarAnswer(found["past_answer"][n])]

FormIsUnderstood ==
    Done("form") =>
        \/ Unresolved(input.page) = {} /\ result = Understand(input.page, Empty)
        \/ \E r \in FormReplies : /\ ~ FormRaises(input.page, r) /\ replies = <<r>>
                                 /\ result = Understand(input.page, r)

ResumeIsExtracted ==
    Done("resume") =>
        \/ result = NoResume
        \/ \E r \in Extractions : /\ ~ ExtractRaises(r) /\ replies = <<r>>
                                 /\ result = Extract(RawText(input.file), r)

ResultIsDerived ==
    AnswersAreReplies /\ MemoryIsFound /\ FormIsUnderstood /\ ResumeIsExtracted

Inv == Base /\ FoundIsSound /\ ContextIsFound /\ RepliesAreAligned /\ ResultIsDerived

LEMMA BaseInit == Init => Base /\ FoundIsSound /\ ContextIsFound
BY DEF Init, Base, FoundIsSound, ContextIsFound, NothingFound, NothingSearched

LEMMA BaseStep == Base /\ [Next]_vars => Base'
<1> SUFFICES ASSUME Base, [Next]_vars PROVE Base'
  OBVIOUS
<1> USE DEF Base
<1>1. CASE StartAnswers
  BY <1>1 DEF StartAnswers, Finish, Searching
<1>2. CASE StartMemory
  BY <1>2 DEF StartMemory, Finish, Searching
<1>3. CASE StartForm
  BY <1>3 DEF StartForm, Finish
<1>4. CASE StartExtraction
  BY <1>4 DEF StartExtraction, Finish
<1>5. ASSUME NEW c \in Collections, SearchCollection(c) PROVE Base'
  BY <1>5 DEF SearchCollection
<1>6. ASSUME NEW d, Reindex(d) PROVE Base'
  BY <1>6 DEF Reindex
<1>7. CASE Retrieve
  BY <1>7 DEF Retrieve, Finish
<1>8. ASSUME NEW n, Answer(n) PROVE Base'
  BY <1>8 DEF Answer
<1>9. CASE ReturnAnswers
  BY <1>9 DEF ReturnAnswers, Finish
<1>10. CASE Remember
  BY <1>10 DEF Remember, Finish
<1>11. CASE Classify
  BY <1>11 DEF Classify, Finish
<1>12. CASE Parse
  BY <1>12 DEF Parse, Finish
<1>13. CASE Fail
  BY <1>13 DEF Fail
<1>14. CASE Return
  BY <1>14 DEF Return, NothingSearched
<1>15. CASE UNCHANGED vars
  BY <1>15 DEF vars
<1> QED
  BY <1>1, <1>2, <1>3, <1>4, <1>5, <1>6, <1>7, <1>8, <1>9, <1>10, <1>11, <1>12, <1>13, <1>14,
     <1>15 DEF Next

\* A step is that of a search, a return, or one that finds nothing new; a request
\* starts with nothing found.
LEMMA FoundStep ==
    Base /\ FoundIsSound /\ [Next]_vars => FoundIsSound'
<1> SUFFICES ASSUME Base, FoundIsSound, [Next]_vars PROVE FoundIsSound'
  OBVIOUS
<1>1. ASSUME pc = "idle", UNCHANGED found PROVE FoundIsSound'
  BY <1>1 DEF Base, FoundIsSound, NothingFound
<1>2. ASSUME UNCHANGED <<found, input, score, searched>> PROVE FoundIsSound'
  BY <1>2 DEF FoundIsSound
<1>3. CASE StartAnswers \/ StartMemory \/ StartForm \/ StartExtraction
  BY <1>1, <1>3 DEF StartAnswers, StartMemory, StartForm, StartExtraction
<1>4. ASSUME NEW c \in Collections, SearchCollection(c) PROVE FoundIsSound'
  <2> DEFINE list == Search(index, score, c, input.user, DocumentOf(input, c), TopKOf(input),
                            ThresholdOf(input))
             own == {p \in index : p.collection = c /\ p.user = input.user}
  <2>1. /\ index \in SUBSET Points /\ Searching(input) /\ score \in Similarities
        /\ UNCHANGED <<input, score>>
    BY <1>4 DEF Base, SearchCollection
  <2>2. Hits(list, c, input, score) /\ BestOf(list, own, c, input, score)
    BY <2>1, SearchFinds
  <2>3. found' = [found EXCEPT ![c] = list] /\ searched' = [searched EXCEPT ![c] = own]
    BY <1>4 DEF SearchCollection
  <2> HIDE DEF list, own
  <2>5. searched' = [b \in Collections |-> IF b = c THEN own ELSE searched[b]]
    BY <2>3 DEF Base
  <2>4. found' = [b \in Collections |-> IF b = c THEN list ELSE found[b]]
    BY <2>3 DEF FoundIsSound
  <2> QED
    BY <2>1, <2>2, <2>4, <2>5 DEF FoundIsSound
<1>5. ASSUME NEW d, Reindex(d) PROVE FoundIsSound'
  BY <1>2, <1>5 DEF Reindex
<1>6. CASE Retrieve \/ Remember
  BY <1>2, <1>6 DEF Retrieve, Remember
<1>7. ASSUME NEW n, Answer(n) PROVE FoundIsSound'
  BY <1>2, <1>7 DEF Answer
<1>8. CASE ReturnAnswers \/ Classify \/ Parse \/ Fail
  BY <1>2, <1>8 DEF ReturnAnswers, Classify, Parse, Fail
<1>9. CASE Return
  BY <1>9 DEF Return, FoundIsSound, NothingFound
<1>10. CASE UNCHANGED vars
  BY <1>2, <1>10 DEF vars
<1> QED
  BY <1>3, <1>4, <1>5, <1>6, <1>7, <1>8, <1>9, <1>10 DEF Next

LEMMA ContextStep ==
    Base /\ ContextIsFound /\ [Next]_vars => ContextIsFound'
<1> SUFFICES ASSUME Base, ContextIsFound, [Next]_vars PROVE ContextIsFound'
  OBVIOUS
<1>0. pc \in {"idle", "search"} => context = EmptyContext
  BY DEF ContextIsFound
<1>1. CASE StartAnswers
  BY <1>0, <1>1 DEF StartAnswers, ContextIsFound, Finish
<1>2. CASE StartMemory
  BY <1>0, <1>2 DEF StartMemory, ContextIsFound, Finish
<1>3. CASE StartForm
  BY <1>0, <1>3 DEF StartForm, ContextIsFound
<1>4. CASE StartExtraction
  BY <1>0, <1>4 DEF StartExtraction, ContextIsFound
<1>5. ASSUME NEW c \in Collections, SearchCollection(c) PROVE ContextIsFound'
  BY <1>0, <1>5 DEF SearchCollection, ContextIsFound
<1>6. ASSUME NEW d, Reindex(d) PROVE ContextIsFound'
  BY <1>0, <1>6 DEF Reindex, ContextIsFound
<1>7. CASE Retrieve
  <2>1. \A c \in Collections : found[c] # None
    BY <1>7 DEF Retrieve, AllFound, Searched
  <2>2. /\ context' = Context(found) /\ UNCHANGED <<found, input>> /\ input.kind = "answers"
        /\ pc' \in {"ask", "done"} /\ (pc' = "ask" => Context(found) # EmptyContext)
    BY <1>7 DEF Retrieve, Finish, IsEmpty
  <2> QED
    BY <2>1, <2>2 DEF ContextIsFound
<1>8. ASSUME NEW n, Answer(n) PROVE ContextIsFound'
  BY <1>8 DEF Answer, ContextIsFound
<1>9. CASE ReturnAnswers
  BY <1>9 DEF ReturnAnswers, ContextIsFound, Finish
<1>10. CASE Remember
  BY <1>0, <1>10 DEF Remember, ContextIsFound, Finish
<1>11. CASE Classify
  BY <1>11 DEF Classify, ContextIsFound, Finish
<1>12. CASE Parse
  BY <1>12 DEF Parse, ContextIsFound, Finish
<1>13. CASE Fail
  BY <1>13 DEF Fail, ContextIsFound
<1>14. CASE Return
  BY <1>14 DEF Return, ContextIsFound
<1>15. CASE UNCHANGED vars
  BY <1>15 DEF vars, ContextIsFound
<1> QED
  BY <1>1, <1>2, <1>3, <1>4, <1>5, <1>6, <1>7, <1>8, <1>9, <1>10, <1>11, <1>12, <1>13, <1>14,
     <1>15 DEF Next

LEMMA RepliesStep ==
    Base /\ RepliesAreAligned /\ [Next]_vars => RepliesAreAligned'
<1> SUFFICES ASSUME Base, RepliesAreAligned, [Next]_vars PROVE RepliesAreAligned'
  OBVIOUS
<1>1. ASSUME pc' # "ask" \/ input'.kind # "answers" PROVE RepliesAreAligned'
  BY <1>1 DEF RepliesAreAligned
<1>2. CASE StartAnswers
  BY <1>1, <1>2 DEF StartAnswers, Finish
<1>3. CASE StartMemory
  BY <1>1, <1>3 DEF StartMemory, Finish
<1>4. CASE StartForm
  BY <1>1, <1>4 DEF StartForm
<1>5. CASE StartExtraction
  BY <1>1, <1>5 DEF StartExtraction
<1>6. ASSUME NEW c \in Collections, SearchCollection(c) PROVE RepliesAreAligned'
  BY <1>1, <1>6 DEF SearchCollection
<1>7. ASSUME NEW d, Reindex(d) PROVE RepliesAreAligned'
  BY <1>1, <1>7 DEF Reindex
<1>8. CASE Retrieve
  <2>1. CASE pc' = "ask"
    <3>1. replies' = [n \in DOMAIN input.questions |-> None] /\ UNCHANGED input
      BY <1>8, <2>1 DEF Retrieve, Finish
    <3> QED
      BY <3>1 DEF RepliesAreAligned
  <2> QED
    BY <1>1, <2>1
<1>9. ASSUME NEW n, Answer(n) PROVE RepliesAreAligned'
  <2>1. PICK r \in Replies :
          /\ pc = "ask" /\ input.kind = "answers" /\ ~ Raises(r) /\ n \in DOMAIN replies
          /\ replies' = [replies EXCEPT ![n] = Reply(n, r)]
          /\ UNCHANGED <<index, pc, input, score, found, context, result>>
    BY <1>9 DEF Answer
  <2>3. replies = [m \in DOMAIN input.questions |-> replies[m]]
        /\ \A m \in DOMAIN input.questions : replies[m] # None => CameOf(m, replies[m])
    BY <2>1 DEF RepliesAreAligned
  <2>4. replies' = [m \in DOMAIN input.questions |-> IF m = n THEN Reply(n, r) ELSE replies[m]]
    BY <2>1, <2>3
  <2>5. \A m \in DOMAIN input.questions :
          replies'[m] # None => \E q \in Replies : ~ Raises(q) /\ replies'[m] = Reply(m, q)
    BY <2>1, <2>3, <2>4 DEF CameOf
  <2>6. \A m, q : Reply(m, q)' = Reply(m, q)
    BY <2>1 DEF Reply
  <2> QED
    BY <2>1, <2>4, <2>5, <2>6 DEF RepliesAreAligned, CameOf
<1>10. CASE ReturnAnswers
  BY <1>1, <1>10 DEF ReturnAnswers, Finish
<1>11. CASE Remember
  BY <1>1, <1>11 DEF Remember, Finish
<1>12. CASE Classify
  BY <1>1, <1>12 DEF Classify, Finish
<1>13. CASE Parse
  BY <1>1, <1>13 DEF Parse, Finish
<1>14. CASE Fail
  BY <1>1, <1>14 DEF Fail
<1>15. CASE Return
  BY <1>1, <1>15 DEF Return
<1>16. CASE UNCHANGED vars
  BY <1>16 DEF vars, RepliesAreAligned, CameOf, Reply
<1> QED
  BY <1>2, <1>3, <1>4, <1>5, <1>6, <1>7, <1>8, <1>9, <1>10, <1>11, <1>12, <1>13, <1>14, <1>15,
     <1>16 DEF Next

LEMMA ResultStep ==
    Base /\ FoundIsSound /\ ContextIsFound /\ RepliesAreAligned /\ ResultIsDerived /\ [Next]_vars
        => ResultIsDerived'
<1> SUFFICES ASSUME Base, FoundIsSound, ContextIsFound, RepliesAreAligned, ResultIsDerived,
                    [Next]_vars
             PROVE  ResultIsDerived'
  OBVIOUS
<1> USE DEF ResultIsDerived, Done
<1>1. ASSUME pc' # "done" PROVE ResultIsDerived'
  BY <1>1 DEF AnswersAreReplies, MemoryIsFound, FormIsUnderstood, ResumeIsExtracted
<1>2. CASE StartAnswers
  <2>1. CASE pc' = "done"
    <3>1. result' = Refusals(input') /\ input'.kind = "answers"
      BY <1>2, <2>1 DEF StartAnswers, Finish
    <3>2. Refusals(input') = Refusals(input)'
      BY DEF Refusals
    <3> QED
      BY <3>1, <3>2 DEF AnswersAreReplies, MemoryIsFound, FormIsUnderstood, ResumeIsExtracted
  <2> QED
    BY <1>1, <2>1
<1>3. CASE StartMemory
  <2>1. CASE pc' = "done"
    <3>1. result' = <<>> /\ input'.kind = "memory"
      BY <1>3, <2>1 DEF StartMemory, Finish
    <3> QED
      BY <3>1 DEF AnswersAreReplies, MemoryIsFound, FormIsUnderstood, ResumeIsExtracted
  <2> QED
    BY <1>1, <2>1
<1>4. CASE StartForm
  <2>1. CASE pc' = "done"
    <3>1. /\ Unresolved(input'.page) = {} /\ result' = Understand(input'.page, Empty)
          /\ input'.kind = "form"
      BY <1>4, <2>1 DEF StartForm, Finish
    <3> QED
      BY <3>1 DEF AnswersAreReplies, MemoryIsFound, FormIsUnderstood, ResumeIsExtracted
  <2> QED
    BY <1>1, <2>1
<1>5. CASE StartExtraction
  <2>1. CASE pc' = "done"
    <3>1. result' = NoResume /\ input'.kind = "resume"
      BY <1>5, <2>1 DEF StartExtraction, Finish
    <3> QED
      BY <3>1 DEF AnswersAreReplies, MemoryIsFound, FormIsUnderstood, ResumeIsExtracted
  <2> QED
    BY <1>1, <2>1
<1>6. ASSUME NEW c \in Collections, SearchCollection(c) PROVE ResultIsDerived'
  BY <1>1, <1>6 DEF SearchCollection
<1>7. ASSUME NEW d, Reindex(d) PROVE ResultIsDerived'
  BY <1>1, <1>7 DEF Reindex
<1>8. CASE Retrieve
  <2>1. CASE pc' = "done"
    <3>1. result' = Refusals(input) /\ input.kind = "answers" /\ UNCHANGED input
      BY <1>8, <2>1 DEF Retrieve, Finish
    <3>2. Refusals(input)' = Refusals(input)
      BY <3>1
    <3> QED
      BY <3>1, <3>2 DEF AnswersAreReplies, MemoryIsFound, FormIsUnderstood, ResumeIsExtracted
  <2> QED
    BY <1>1, <2>1
<1>9. ASSUME NEW n, Answer(n) PROVE ResultIsDerived'
  BY <1>1, <1>9 DEF Answer
<1>10. CASE ReturnAnswers
  <2>1. /\ pc = "ask" /\ input.kind = "answers" /\ \A n \in DOMAIN replies : replies[n] # None
        /\ result' = [n \in DOMAIN replies |->
               [question |-> input.questions[n].name,
                asked |-> replies[n].asked, answer |-> replies[n].answer]]
        /\ UNCHANGED <<input, context>>
    BY <1>10 DEF ReturnAnswers, Finish
  <2>2. /\ DOMAIN replies = DOMAIN input.questions /\ context # EmptyContext
        /\ \A n \in DOMAIN input.questions : CameOf(n, replies[n])
    BY <2>1 DEF RepliesAreAligned, ContextIsFound
  <2>3. \A n \in DOMAIN input.questions :
          /\ result'[n].question = input.questions[n].name
          /\ result'[n].asked = replies[n].asked /\ result'[n].answer = replies[n].answer
    BY <2>1, <2>2
  <2>4. result' = [n \in DOMAIN input.questions |-> result'[n]]
    BY <2>1, <2>2
  <2>5. ASSUME NEW n \in DOMAIN input.questions
        PROVE  CameOf(n, [asked |-> result[n].asked, answer |-> result[n].answer])'
    <3>1. PICK r \in Replies : ~ Raises(r) /\ replies[n] = Reply(n, r)
      BY <2>2 DEF CameOf
    <3>2. replies[n] = [asked |-> replies[n].asked, answer |-> replies[n].answer]
      BY <3>1 DEF Reply
    <3>3. Reply(n, r)' = Reply(n, r)
      BY <2>1 DEF Reply
    <3> QED
      BY <2>3, <3>1, <3>2, <3>3 DEF CameOf
  <2>6. AnswersAreReplies'
    BY <2>1, <2>2, <2>3, <2>4, <2>5 DEF AnswersAreReplies
  <2> QED
    BY <2>1, <2>6 DEF MemoryIsFound, FormIsUnderstood, ResumeIsExtracted
<1>11. CASE Remember
  <2>1. /\ input.kind = "memory" /\ found["past_answer"] # None /\ UNCHANGED <<input, found>>
        /\ result' = [n \in DOMAIN found["past_answer"] |-> SimilarAnswer(found["past_answer"][n])]
    BY <1>11 DEF Remember, Finish, AllFound, Searched
  <2>2. MemoryIsFound'
    BY <2>1 DEF MemoryIsFound
  <2> QED
    BY <2>1, <2>2 DEF AnswersAreReplies, FormIsUnderstood, ResumeIsExtracted
<1>12. CASE Classify
  <2>1. PICK r \in FormReplies :
          /\ input.kind = "form" /\ ~ FormRaises(input.page, r) /\ replies' = <<r>>
          /\ result' = Understand(input.page, r) /\ UNCHANGED input
    BY <1>12 DEF Classify, Finish
  <2>2. FormIsUnderstood'
    BY <2>1 DEF FormIsUnderstood
  <2> QED
    BY <2>1, <2>2 DEF AnswersAreReplies, MemoryIsFound, ResumeIsExtracted
<1>13. CASE Parse
  <2>1. PICK r \in Extractions :
          /\ input.kind = "resume" /\ ~ ExtractRaises(r) /\ UNCHANGED input
          /\ replies' = <<r>> /\ result' = Extract(RawText(input.file), r)
    BY <1>13 DEF Parse, Finish
  <2>2. ResumeIsExtracted'
    BY <2>1 DEF ResumeIsExtracted
  <2> QED
    BY <2>1, <2>2 DEF AnswersAreReplies, MemoryIsFound, FormIsUnderstood
<1>14. CASE Fail
  BY <1>1, <1>14 DEF Fail
<1>15. CASE Return
  BY <1>1, <1>15 DEF Return
<1>16. CASE UNCHANGED vars
  BY <1>16 DEF vars, AnswersAreReplies, MemoryIsFound, FormIsUnderstood, ResumeIsExtracted,
               CameOf, Reply, Refusals
<1> QED
  BY <1>2, <1>3, <1>4, <1>5, <1>6, <1>7, <1>8, <1>9, <1>10, <1>11, <1>12, <1>13, <1>14, <1>15,
     <1>16 DEF Next

\* The invariant the theorems below rest on: whatever an agent returns is derived
\* from what was found for its own request and from the replies it got.
LEMMA Invariance == Spec => []Inv
<1>1. Init => Inv
  BY BaseInit DEF Init, Inv, RepliesAreAligned, ResultIsDerived, Done, AnswersAreReplies,
     MemoryIsFound, FormIsUnderstood, ResumeIsExtracted
<1>2. Inv /\ [Next]_vars => Inv'
  BY BaseStep, FoundStep, ContextStep, RepliesStep, ResultStep DEF Inv
<1> QED
  BY <1>1, <1>2, PTL DEF Spec

-----------------------------------------------------------------------------
(* What the invariant says of results.                                       *)

\* An input is of one kind, and has what requests of that kind have.
LEMMA InputOf ==
    ASSUME NEW i \in Inputs
    PROVE  /\ i.kind = "answers" => IsList(i.questions) /\ Len(i.questions) \in Nat
                                   /\ DOMAIN i.questions = 1..Len(i.questions)
           /\ i.kind = "form" => IsList(i.page.elements)
<1>1. i.kind = "answers" => IsList(i.questions)
  BY InputsAssumption
<1>2. IsList(i.questions) => Len(i.questions) \in Nat /\ DOMAIN i.questions = 1..Len(i.questions)
  BY DEF IsList
<1>3. i.kind = "form" => IsList(i.page.elements)
  BY InputsAssumption
<1> QED
  BY <1>1, <1>2, <1>3

\* A context that is not empty is made of sound searches.
LEMMA ContextScored ==
    Inv /\ context # EmptyContext =>
        /\ Sound(found, input, score) /\ context = Context(found)
        /\ input.kind = "answers" /\ Scored(AllChunks(context))
<1> SUFFICES ASSUME Inv, context # EmptyContext
             PROVE  /\ Sound(found, input, score) /\ context = Context(found)
                    /\ input.kind = "answers" /\ Scored(AllChunks(context))
  OBVIOUS
<1>1. /\ Sound(found, input, score) /\ context = Context(found)
      /\ input.kind = "answers"
  BY DEF Inv, ContextIsFound, FoundIsSound, Sound
<1>2. Scored(AllChunks(context))
  BY <1>1, ChunksOf DEF Scored
<1> QED
  BY <1>1, <1>2

\* Each answer of a request is its question's: a refusal, or grounded in the context.
LEMMA AnswersAre ==
    Inv /\ Done("answers") =>
        /\ DOMAIN result = 1..Len(input.questions) /\ Len(result) = Len(input.questions)
        /\ \A n \in 1..Len(input.questions) :
               /\ result[n].question = input.questions[n].name
               /\ result[n].asked = input.questions[n].name
               /\ result[n].answer = Refusal \/ Grounded(result[n].answer, context)
<1> DEFINE k == Len(input.questions)
<1> SUFFICES ASSUME Inv, Done("answers")
             PROVE  /\ DOMAIN result = 1..k /\ Len(result) = k
                    /\ \A n \in 1..k :
                           /\ result[n].question = input.questions[n].name
                           /\ result[n].asked = input.questions[n].name
                           /\ result[n].answer = Refusal \/ Grounded(result[n].answer, context)
  OBVIOUS
<1>1. k \in Nat /\ DOMAIN input.questions = 1..k
  <2>1. input \in Inputs /\ input.kind = "answers"
    BY DEF Inv, Base, Done
  <2> QED
    BY <2>1, InputOf
<1> HIDE DEF k
<1>2. CASE result = Refusals(input)
  <2>1. result = [n \in 1..k |-> [question |-> input.questions[n].name,
                                  asked |-> input.questions[n].name, answer |-> Refusal]]
    BY <1>1, <1>2 DEF Refusals
  <2> QED
    BY <1>1, <2>1
<1>3. CASE result # Refusals(input)
  <2>1. /\ context # EmptyContext /\ result = [n \in 1..k |-> result[n]]
        /\ \A n \in 1..k :
               /\ result[n].question = input.questions[n].name
               /\ CameOf(n, [asked |-> result[n].asked, answer |-> result[n].answer])
    BY <1>1, <1>3 DEF Inv, ResultIsDerived, AnswersAreReplies
  <2>2. DOMAIN result = 1..k /\ Len(result) = k
    BY <1>1, <2>1
  <2>3. ASSUME NEW n \in 1..k
        PROVE  /\ result[n].asked = input.questions[n].name
               /\ result[n].answer = Refusal \/ Grounded(result[n].answer, context)
    <3>1. PICK r \in Replies : /\ ~ Raises(r)
            /\ [asked |-> result[n].asked, answer |-> result[n].answer] = Reply(n, r)
      BY <2>1 DEF CameOf
    <3>2. result[n].asked = input.questions[n].name /\ result[n].answer = Generate(context, r)
      BY <3>1 DEF Reply
    <3>3. Generate(context, r) = Refusal \/ Grounded(Generate(context, r), context)
      BY <2>1, <3>1, ContextScored, GeneratedAnswer
    <3> QED
      BY <3>2, <3>3
  <2> QED
    BY <2>1, <2>2, <2>3
<1> QED
  BY <1>2, <1>3

LEMMA AnswerIs ==
    ASSUME Inv, NEW a \in Answers
    PROVE  a = Refusal \/ Grounded(a, context)
<1>1. Done("answers") /\ \E n \in DOMAIN result : a = result[n].answer
  BY DEF Answers
<1> QED
  BY <1>1, AnswersAre

LEMMA FormIs ==
    ASSUME Inv, Done("form")
    PROVE  LET shown == Shown(input.page) IN
           /\ Len(result.fields) = Len(shown) /\ result.confidence \in 0..100
           /\ result.warned = (shown = <<>>) /\ DOMAIN shown = 1..Len(shown)
           /\ \A n \in DOMAIN shown :
                  LET field == result.fields[n] IN
                  /\ field.raw.name = shown[n].name /\ field.raw.order = n - 1
                  /\ \/ field.mapping = HeuristicMap(field.raw)
                     \/ Mapped(field, n - 1, replies[1])
<1> DEFINE shown == Shown(input.page)
           Named == \A n \in DOMAIN shown : /\ result.fields[n].raw.name = shown[n].name
                                           /\ result.fields[n].raw.order = n - 1
           From(n) == \/ result.fields[n].mapping = HeuristicMap(result.fields[n].raw)
                      \/ Mapped(result.fields[n], n - 1, replies[1])
           Whole == /\ Len(result.fields) = Len(shown) /\ result.confidence \in 0..100
                    /\ result.warned = (shown = <<>>) /\ DOMAIN shown = 1..Len(shown)
<1>1. IsList(input.page.elements)
  BY InputOf DEF Inv, Base, Done
<1>2. ASSUME NEW reply, Classifiable(input.page, reply), result = Understand(input.page, reply)
      PROVE  /\ Whole /\ Named
             /\ \A n \in DOMAIN shown :
                    /\ Mapped(result.fields[n], n - 1, reply)
                    /\ Unresolved(input.page) = {} =>
                          result.fields[n].mapping = HeuristicMap(result.fields[n].raw)
  <2>1. Describes(result, input.page, reply)
    BY <1>1, <1>2, UnderstoodIs
  <2> QED
    BY <2>1 DEF Describes
<1>3. Whole /\ Named /\ \A n \in DOMAIN shown : From(n)
  <2>1. CASE Unresolved(input.page) = {} /\ result = Understand(input.page, Empty)
    <3>1. Classifiable(input.page, Empty)
      BY <2>1 DEF Classifiable
    <3> HIDE DEF shown
    <3>2. /\ Whole /\ Named
          /\ \A n \in DOMAIN shown :
                result.fields[n].mapping = HeuristicMap(result.fields[n].raw)
      BY <1>2, <2>1, <3>1
    <3> QED
      BY <3>2
  <2>2. ASSUME NEW r \in FormReplies, ~ FormRaises(input.page, r), replies = <<r>>,
               result = Understand(input.page, r)
        PROVE  Whole /\ Named /\ \A n \in DOMAIN shown : From(n)
    <3>1. replies[1] = r /\ Classifiable(input.page, r)
      BY <2>2 DEF Classifiable
    <3> HIDE DEF shown
    <3>2. Whole /\ Named /\ \A n \in DOMAIN shown : Mapped(result.fields[n], n - 1, r)
      BY <1>2, <2>2, <3>1
    <3> QED
      BY <3>1, <3>2
  <2> QED
    BY <2>1, <2>2 DEF Inv, ResultIsDerived, FormIsUnderstood
<1> HIDE DEF shown
<1> QED
  BY <1>3 DEF shown

LEMMA ResumeIs ==
    ASSUME Inv, Done("resume")
    PROVE  /\ result.confidence \in 0..100
           /\ result = NoResume \/ Checked(result, Truncated(RawText(input.file)), replies[1].resume)
<1>1. CASE result = NoResume
  BY <1>1 DEF NoResume
<1>2. ASSUME NEW r \in Extractions, ~ ExtractRaises(r), replies = <<r>>,
             result = Extract(RawText(input.file), r)
      PROVE  /\ result.confidence \in 0..100
             /\ result = NoResume \/ Checked(result, Truncated(RawText(input.file)), replies[1].resume)
  <2>1. replies[1] = r
    BY <1>2
  <2> QED
    BY <1>2, <2>1, ExtractedIsChecked
<1> QED
  BY <1>1, <1>2 DEF Inv, ResultIsDerived, ResumeIsExtracted

-----------------------------------------------------------------------------
(* The theorems.                                                             *)

\* What the agents return is in the range its schema accepts, for any replies of
\* the model.
THEOREM TypeCorrect == Spec => []TypeOK
<1>1. Inv => TypeOK
  <2> SUFFICES ASSUME Inv PROVE TypeOK
    OBVIOUS
  <2>1. ASSUME NEW a \in Answers
        PROVE  a.confidence \in 0..1000 /\ a.source \in Sources /\ Len(a.trail) <= TrailLength
    <3>1. CASE a = Refusal
      BY <3>1 DEF Refusal, Sources, TrailLength
    <3>2. CASE Grounded(a, context)
      BY <3>2 DEF Grounded
    <3> QED
      BY <3>1, <3>2, AnswerIs
  <2>2. Done("form") => result.confidence \in 0..100
    BY FormIs
  <2>3. Done("resume") => result.confidence \in 0..100
    BY ResumeIs
  <2> QED
    BY <2>1, <2>2, <2>3 DEF TypeOK, Inv, Base
<1> QED
  BY <1>1, Invariance, PTL

\* retrieve_context and memory/search: whatever others store or remove meanwhile,
\* what is used was there when it was looked for, is the user's own, of the document
\* asked for, not under the threshold, and within the budget.
THEOREM ContextIsSound == Spec => []ContextSound
<1>1. Inv => ContextSound
  <2> SUFFICES ASSUME Inv PROVE ContextSound
    OBVIOUS
  <2>1. ASSUME NEW c \in Collections, found[c] # None, NEW k \in ToSet(found[c])
        PROVE  k.point \in Eligible(c) /\ k.point.collection = c /\ k.score = score[k.point.id]
    <3>1. Hits(found[c], c, input, score) /\ BestOf(found[c], searched[c], c, input, score)
      BY <2>1 DEF Inv, FoundIsSound
    <3> QED
      BY <2>1, <3>1 DEF Hits, Hit, BestOf, Among, Eligible
  <2>2. ASSUME context # EmptyContext
        PROVE  /\ \A c \in Collections : /\ ToSet(context[c]) \subseteq ToSet(found[c])
                                         /\ Tokens(context[c]) <= Budget(c)
               /\ Tokens(context["resume"] \o context["past_answer"]
                         \o context["job_description"] \o context["template"]) <= MaxContext
    <3>1. Sound(found, input, score) /\ context = Context(found)
      BY <2>2, ContextScored
    <3>2. \A c \in Collections : /\ ToSet(context[c]) \subseteq ToSet(found[c])
                                /\ Tokens(context[c]) <= Budget(c)
      BY <3>1, ContextOf DEF Sound
    <3> QED
      BY <3>1, <3>2, ContextFits
  <2>3. ASSUME Done("memory"), NEW n \in DOMAIN result
        PROVE  \E p \in Eligible("past_answer") :
                   p.id = result[n].point /\ result[n].score = score[p.id]
    <3>1. CASE result = <<>>
      BY <2>3, <3>1
    <3>2. CASE /\ found["past_answer"] # None
               /\ result = [m \in DOMAIN found["past_answer"] |->
                               SimilarAnswer(found["past_answer"][m])]
      <4> DEFINE list == found["past_answer"]
      <4>1. \A k \in ToSet(list) : k.point \in Eligible("past_answer") /\ k.score = score[k.point.id]
        BY <2>1, <3>2 DEF Collections
      <4> HIDE DEF list
      <4>2. n \in DOMAIN list /\ result[n] = SimilarAnswer(list[n])
        BY <2>3, <3>2 DEF list
      <4>3. list[n] \in ToSet(list)
        BY <4>2, Zenon DEF ToSet
      <4> QED
        BY <4>1, <4>2, <4>3 DEF SimilarAnswer
    <3> QED
      BY <2>3, <3>1, <3>2 DEF Inv, ResultIsDerived, MemoryIsFound
  <2> QED
    BY <2>1, <2>2, <2>3 DEF ContextSound
<1> QED
  BY <1>1, Invariance, PTL

\* search and _apply_token_budget: a search misses only what scores no better than
\* the full number it returns, and the budget drops only what scores no better than
\* what it keeps, from the first chunk on that does not fit.
THEOREM BestAreKept == Spec => []BestIsKept
<1>1. Inv => BestIsKept
  <2> SUFFICES ASSUME Inv PROVE BestIsKept
    OBVIOUS
  <2>1. ASSUME NEW c \in Collections, found[c] # None,
               NEW p \in Eligible(c) \ {k.point : k \in ToSet(found[c])}
        PROVE  Len(found[c]) = TopKOf(input) /\ \A k \in ToSet(found[c]) : k.score >= score[p.id]
    <3>1. BestOf(found[c], searched[c], c, input, score)
      BY <2>1 DEF Inv, FoundIsSound
    <3> QED
      BY <2>1, <3>1 DEF BestOf, Among, Eligible
  <2>2. ASSUME pc = "ask", input.kind = "answers", NEW c \in Collections
        PROVE  LET kept == ToSet(context[c])
                   left == ToSet(found[c]) \ kept
               IN /\ \A k \in kept, l \in left : k.score >= l.score
                  /\ left # {} => \E l \in left :
                         /\ \A m \in left : l.score >= m.score
                         /\ Tokens(context[c]) + EstimateTokens(l) > Budget(c)
    <3>1. context # EmptyContext
      BY <2>2 DEF Inv, ContextIsFound
    <3>2. Sound(found, input, score) /\ context = Context(found)
      BY <3>1, ContextScored
    <3>3. Hits(found[c], c, input, score)
      BY <3>2 DEF Sound
    <3> QED
      BY <3>2, <3>3, ContextOf
  <2> QED
    BY <2>1, <2>2 DEF BestIsKept
<1> QED
  BY <1>1, Invariance, PTL

\* generate_batch: every question gets its own answer, in whatever order the
\* model replies, and an answer names the chunks it rests on.
THEOREM BatchesAreAligned == Spec => []AnswersAreAligned
<1>1. Inv => AnswersAreAligned
  <2> SUFFICES ASSUME Inv, Done("answers")
               PROVE  /\ Len(result) = Len(input.questions)
                      /\ \A n \in DOMAIN result :
                             /\ result[n].question = input.questions[n].name
                             /\ result[n].asked = input.questions[n].name
                             /\ result[n].answer.refused
                                \/ /\ result[n].answer.trail # <<>>
                                   /\ ToSet(result[n].answer.trail) \subseteq AllChunks(context)
    BY DEF AnswersAreAligned
  <2>1. DOMAIN result = 1..Len(input.questions) /\ Len(result) = Len(input.questions)
    BY AnswersAre
  <2>2. ASSUME NEW n \in DOMAIN result
        PROVE  /\ result[n].question = input.questions[n].name
               /\ result[n].asked = input.questions[n].name
               /\ result[n].answer = Refusal \/ Grounded(result[n].answer, context)
    BY <2>1, <2>2, AnswersAre
  <2>3. Refusal.refused
    BY DEF Refusal
  <2>4. \A a : Grounded(a, context) =>
                  a.trail # <<>> /\ ToSet(a.trail) \subseteq AllChunks(context)
    BY Zenon DEF Grounded
  <2> QED
    BY <2>1, <2>2, <2>3, <2>4
<1> QED
  BY <1>1, Invariance, PTL

\* _detect_hallucination: an answer is flagged when the digits of one of its
\* percentages or amounts are nowhere in the context; when all of these are there,
\* exactly if the century of one of its years is nowhere.
THEOREM FiguresAreFlagged == Spec => []FiguresAreChecked
<1>1. Inv => FiguresAreChecked
  <2> SUFFICES ASSUME Inv PROVE FiguresAreChecked
    OBVIOUS
  <2>1. ASSUME NEW a \in Answers, ~ a.refused PROVE Grounded(a, context)
    BY <2>1, AnswerIs DEF Refusal
  <2>2. ASSUME NEW a \in Answers, ~(~ a.refused) PROVE a = Refusal
    BY <2>2, AnswerIs DEF Grounded
  <2>3. ASSUME NEW a \in Given
        PROVE  /\ (\E f \in a.figures : f.kind # "year" /\ ~ DigitsInContext(f.digits)) => a.flagged
               /\ (\A f \in a.figures : f.kind = "year" \/ f \in Figures(context)) =>
                      (a.flagged <=> \E f \in a.figures :
                                         f.kind = "year" /\ ~ DigitsInContext(Century(f)))
               /\ a.flagged => a.confidence <= 750
    BY <2>1 DEF Given, Grounded, DigitsInContext
  <2>4. ASSUME NEW a \in Answers \ Given
        PROVE  a.figures = {} /\ a.confidence = 0 /\ ~ a.flagged
    BY <2>2 DEF Given, Refusal
  <2> QED
    BY <2>3, <2>4 DEF FiguresAreChecked
<1> QED
  BY <1>1, Invariance, PTL

\* understand: no field is lost, added, repeated or moved, and the model's mapping
\* of one field is never taken for another's, for any page and any reply.
THEOREM FormsAreComplete == Spec => []FormComplete
<1>1. Inv => FormComplete
  <2> SUFFICES ASSUME Inv, Done("form")
               PROVE  LET shown == Shown(input.page) IN
                      /\ Len(result.fields) = Len(shown)
                      /\ \A n \in DOMAIN shown :
                            LET field == result.fields[n] IN
                            /\ field.raw.name = shown[n].name /\ field.raw.order = n - 1
                            /\ \/ field.mapping = HeuristicMap(field.raw)
                               \/ HeuristicMap(field.raw) = Empty /\ field.mapping.key = FormUnknown
                               \/ /\ HeuristicMap(field.raw) = Empty
                                  /\ \E item \in ToSet(replies[1].items) :
                                         item.order = n - 1 /\ item.mapping = field.mapping
                      /\ result.warned = (shown = <<>>)
    BY DEF FormComplete
  <2> QED
    BY FormIs DEF Mapped
<1> QED
  BY <1>1, Invariance, PTL

\* extract: what is kept of the reply's e-mail address, name and link is what the
\* checks of _compute_confidence found some trace of, nothing else of the reply is
\* checked, and full confidence means that nothing was cleared, for any reply.
THEOREM ExtractedAreGrounded == Spec => []ExtractedIsGrounded
<1>1. Inv => ExtractedIsGrounded
  BY ResumeIs DEF ExtractedIsGrounded, Checked
<1> QED
  BY <1>1, Invariance, PTL
=============================================================================
