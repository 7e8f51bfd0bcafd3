------------------------ MODULE OrchestratorTurnProofs ------------------------
(***************************************************************************)
(* Proofs about OrchestratorTurn and about the operators it is built from, *)
(* for every set of messages, providers and documents and every bound on   *)
(* the transcript, its context and the number of turns.                    *)
(***************************************************************************)
EXTENDS OrchestratorTurn, FiniteSetTheorems, SequenceTheorems,
        WellFoundedInduction, TLAPS

-----------------------------------------------------------------------------
(* Least numbers, orders and the parts of a sequence.                      *)

LEMMA Least ==
  ASSUME NEW S \in SUBSET Nat, S # {}
  PROVE  \E m \in S : \A k \in S : m <= k
<1> DEFINE less == {p \in Nat \X Nat : p[1] < p[2]}
<1>1. IsWellFoundedOn(less, Nat)
  BY NatLessThanWellFounded DEF OpToRel
<1> HIDE DEF less
<1>2. PICK m \in S : \A k \in S : ~ (<<k, m>> \in less)
  BY <1>1, WFMin
<1>3. \A k \in S : ~ (k < m)
  BY <1>2 DEF less
<1> QED
  BY <1>3

LEMMA ListOf ==
  ASSUME NEW E, NEW n \in Nat, NEW f \in [1..n -> E]
  PROVE  f \in Seq(E) /\ Len(f) = n
OBVIOUS

LEMMA UpToCount ==
  ASSUME NEW n \in Nat
  PROVE  IsFiniteSet(1..n) /\ Cardinality(1..n) = n
BY FS_Interval

\* Members that are numbered differently, with numbers up to their count, are
\* given every one of these numbers.
LEMMA RankOnto ==
  ASSUME NEW S, IsFiniteSet(S), NEW r \in [S -> 1..Cardinality(S)],
         \A x, y \in S : r[x] = r[y] => x = y
  PROVE  \A k \in 1..Cardinality(S) : \E x \in S : r[x] = k
<1> DEFINE N == 1..Cardinality(S)
<1>1. Cardinality(S) \in Nat
  BY FS_CardinalityType
<1>2. IsFiniteSet(N) /\ Cardinality(N) = Cardinality(S)
  BY <1>1, FS_Interval
<1>3. r \in Injection(S, N)
  BY DEF Injection, IsInjective
<1> HIDE DEF N
<1>4. r \in Surjection(S, N)
  BY <1>2, <1>3, FS_Injection
<1> QED
  BY <1>4 DEF Surjection, N

\* A set put in order by a total order holds only members of the set.
LEMMA InOrderMembers ==
  ASSUME NEW S, IsFiniteSet(S), NEW R,
         \A x \in S : <<x, x>> \in R,
         \A x, y \in S : <<x, y>> \in R \/ <<y, x>> \in R,
         \A x, y \in S : <<x, y>> \in R /\ <<y, x>> \in R => x = y,
         \A x, y, z \in S : <<x, y>> \in R /\ <<y, z>> \in R => <<x, z>> \in R
  PROVE  InOrder(S, R) \in [1..Cardinality(S) -> S]
<1> DEFINE below(x) == {y \in S : <<y, x>> \in R}
           r == [x \in S |-> Cardinality(below(x))]
<1>1. ASSUME NEW x \in S
      PROVE  IsFiniteSet(below(x)) /\ r[x] \in 1..Cardinality(S)
  <2>1. below(x) \in SUBSET S /\ x \in below(x)
    OBVIOUS
  <2>2. below(x) # {}
    BY <2>1
  <2> HIDE DEF below
  <2>3. /\ IsFiniteSet(below(x)) /\ Cardinality(below(x)) <= Cardinality(S)
        /\ Cardinality(below(x)) \in Nat /\ Cardinality(below(x)) # 0
        /\ Cardinality(S) \in Nat
    BY <2>1, <2>2, FS_Subset, FS_CardinalityType, FS_EmptySet
  <2> QED
    BY <2>3
<1>2. ASSUME NEW x \in S, NEW y \in S, r[x] = r[y], <<x, y>> \in R
      PROVE  x = y
  <2>1. below(x) \in SUBSET below(y) /\ y \in below(y)
    BY <1>2
  <2>2. Cardinality(below(x)) = Cardinality(below(y))
    BY <1>2
  <2> HIDE DEF below
  <2>3. below(x) = below(y)
    BY <1>1, <2>1, <2>2, FS_Subset
  <2>4. y \in below(x)
    BY <2>1, <2>3
  <2> QED
    BY <1>2, <2>4 DEF below
<1>3. \A x, y \in S : r[x] = r[y] => x = y
  BY <1>2
<1>4. r \in [S -> 1..Cardinality(S)]
  BY <1>1
<1>5. \A k \in 1..Cardinality(S) : \E x \in S : Cardinality(below(x)) = k
  <2>1. \A k \in 1..Cardinality(S) : \E x \in S : r[x] = k
    BY <1>3, <1>4, RankOnto
  <2> QED
    BY <2>1
<1> QED
  BY <1>5 DEF InOrder

\* The numbers of the members of T, a finite set of positions.
LEMMA Upto ==
  ASSUME NEW T \in SUBSET (Nat \ {0}), IsFiniteSet(T)
  PROVE  LET r(i) == Cardinality(T \cap 1..i)
         IN  /\ \A i \in T : r(i) \in 1..Cardinality(T)
             /\ \A i, j \in T : i < j => r(i) < r(j)
             /\ \A i \in T : i + 1 \in T => r(i + 1) = r(i) + 1
<1> DEFINE up(i) == T \cap 1..i
<1>1. ASSUME NEW i \in T
      PROVE  /\ IsFiniteSet(up(i)) /\ Cardinality(up(i)) \in Nat
             /\ Cardinality(up(i)) \in 1..Cardinality(T)
  <2>1. up(i) \in SUBSET T /\ i \in up(i)
    OBVIOUS
  <2>2. up(i) # {}
    BY <2>1
  <2> HIDE DEF up
  <2>3. /\ IsFiniteSet(up(i)) /\ Cardinality(up(i)) <= Cardinality(T)
        /\ Cardinality(up(i)) \in Nat /\ Cardinality(up(i)) # 0
        /\ Cardinality(T) \in Nat
    BY <2>1, <2>2, FS_Subset, FS_CardinalityType, FS_EmptySet
  <2> QED
    BY <2>3
<1>2. ASSUME NEW i \in T, NEW j \in T, i < j
      PROVE  Cardinality(up(i)) < Cardinality(up(j))
  <2>1. up(i) \in SUBSET up(j) /\ j \in up(j) /\ j \notin up(i)
    BY <1>2
  <2> HIDE DEF up
  <2>2. Cardinality(up(i)) <= Cardinality(up(j))
    BY <1>1, <2>1, FS_Subset
  <2>3. Cardinality(up(i)) # Cardinality(up(j))
    BY <1>1, <2>1, FS_Subset
  <2> QED
    BY <1>1, <2>2, <2>3
<1>3. ASSUME NEW i \in T, i + 1 \in T
      PROVE  Cardinality(up(i + 1)) = Cardinality(up(i)) + 1
  <2>1. up(i + 1) = up(i) \cup {i + 1} /\ i + 1 \notin up(i)
    BY <1>3
  <2> HIDE DEF up
  <2> QED
    BY <1>1, <2>1, FS_AddElement
<1> QED
  BY <1>1, <1>2, <1>3

\* Positions lists the positions in S, increasing and without a gap.
LEMMA PositionsOf ==
  ASSUME NEW seq, NEW n \in Nat, DOMAIN seq = 1..n, NEW S
  PROVE  LET T == S \cap DOMAIN seq
             p == Positions(seq, S)
             r(i) == Cardinality(T \cap 1..i)
         IN  /\ IsFiniteSet(T) /\ Cardinality(T) \in Nat
             /\ p \in [1..Cardinality(T) -> T]
             /\ \A i \in T : r(i) \in 1..Cardinality(T) /\ p[r(i)] = i
             /\ \A k, l \in 1..Cardinality(T) : k < l => p[k] < p[l]
             /\ \A i \in T : i + 1 \in T => r(i + 1) = r(i) + 1
<1> DEFINE T == S \cap DOMAIN seq
           p == Positions(seq, S)
           r(i) == Cardinality(T \cap 1..i)
           num == [i \in T |-> r(i)]
<1>1. T \in SUBSET (Nat \ {0})
  OBVIOUS
<1>2. IsFiniteSet(T) /\ Cardinality(T) \in Nat
  <2>1. T \in SUBSET (1..n) /\ IsFiniteSet(1..n)
    BY FS_Interval
  <2> HIDE DEF T
  <2> QED
    BY <2>1, FS_Subset, FS_CardinalityType
<1>3. p = [k \in 1..Cardinality(T) |-> CHOOSE i \in T : r(i) = k]
  BY DEF Positions
<1> HIDE DEF T, p
<1>4. /\ \A i \in T : r(i) \in 1..Cardinality(T)
      /\ \A i, j \in T : i < j => r(i) < r(j)
      /\ \A i \in T : i + 1 \in T => r(i + 1) = r(i) + 1
  BY <1>1, <1>2, Upto
<1> HIDE DEF r
<1>5. \A i, j \in T : r(i) = r(j) => i = j
  <2> SUFFICES ASSUME NEW i \in T, NEW j \in T, r(i) = r(j)
               PROVE  i = j
    OBVIOUS
  <2>1. r(i) \in Nat /\ r(j) \in Nat /\ i \in Nat /\ j \in Nat
    BY <1>1, <1>2, <1>4
  <2>2. ~ (i < j) /\ ~ (j < i)
    BY <1>4, <2>1
  <2> QED
    BY <2>1, <2>2
<1>6. \A k \in 1..Cardinality(T) : \E i \in T : r(i) = k
  <2>1. num \in [T -> 1..Cardinality(T)]
    BY <1>4
  <2>2. \A i, j \in T : num[i] = num[j] => i = j
    BY <1>5
  <2> HIDE DEF num
  <2>3. \A k \in 1..Cardinality(T) : \E i \in T : num[i] = k
    BY <1>2, <2>1, <2>2, RankOnto
  <2> QED
    BY <2>3 DEF num
<1>7. \A k \in 1..Cardinality(T) : p[k] \in T /\ r(p[k]) = k
  BY <1>3, <1>6
<1>8. p \in [1..Cardinality(T) -> T]
  BY <1>3, <1>7
<1>9. \A i \in T : p[r(i)] = i
  BY <1>4, <1>5, <1>7
<1>10. ASSUME NEW k \in 1..Cardinality(T), NEW l \in 1..Cardinality(T), k < l
       PROVE  p[k] < p[l]
  <2>1. p[k] \in T /\ p[l] \in T /\ r(p[k]) = k /\ r(p[l]) = l
    BY <1>7
  <2>2. p[k] \in Nat /\ p[l] \in Nat
    BY <1>1, <2>1
  <2>3. ~ (l < k) /\ k # l
    BY <1>2, <1>10
  <2>4. ~ (p[l] < p[k]) /\ p[k] # p[l]
    BY <1>4, <2>1, <2>3
  <2> QED
    BY <2>2, <2>4
<1> QED
  BY <1>2, <1>4, <1>8, <1>9, <1>10 DEF T, p, r

\* Picked holds what is at these positions.
LEMMA PickedIs ==
  ASSUME NEW E, NEW seq \in Seq(E), NEW S
  PROVE  LET T == S \cap DOMAIN seq
             p == Positions(seq, S)
         IN  /\ Picked(seq, S) \in Seq(E)
             /\ Len(Picked(seq, S)) = Cardinality(T)
             /\ \A k \in 1..Cardinality(T) : Picked(seq, S)[k] = seq[p[k]]
<1> DEFINE T == S \cap DOMAIN seq
           p == Positions(seq, S)
<1>1. Len(seq) \in Nat /\ DOMAIN seq = 1..Len(seq)
  BY LenProperties
<1>2. Cardinality(T) \in Nat /\ p \in [1..Cardinality(T) -> T]
  BY <1>1, PositionsOf
<1>3. Picked(seq, S) = [k \in 1..Cardinality(T) |-> seq[p[k]]]
  BY <1>2 DEF Picked
<1>4. \A k \in 1..Cardinality(T) : seq[p[k]] \in E
  BY <1>1, <1>2, ElementOfSeq
<1> HIDE DEF T, p
<1>5. Picked(seq, S) \in [1..Cardinality(T) -> E]
  BY <1>3, <1>4
<1>6. Picked(seq, S) \in Seq(E) /\ Len(Picked(seq, S)) = Cardinality(T)
  BY <1>2, <1>5, ListOf
<1> QED
  BY <1>3, <1>6 DEF T, p

LEMMA PickedAll ==
  ASSUME NEW E, NEW seq \in Seq(E)
  PROVE  Picked(seq, DOMAIN seq) = seq
<1> DEFINE n == Len(seq)
           T == DOMAIN seq \cap DOMAIN seq
           p == Positions(seq, DOMAIN seq)
<1>1. n \in Nat /\ DOMAIN seq = 1..n /\ T = 1..n
  BY LenProperties
<1>2. Cardinality(T) = n
  BY <1>1, UpToCount
<1>3. ASSUME NEW i \in 1..n
      PROVE  Cardinality(T \cap 1..i) = i
  <2>1. T \cap 1..i = 1..i
    BY <1>1, <1>3
  <2>2. Cardinality(1..i) = i
    BY <1>1, <1>3, UpToCount
  <2> QED
    BY <2>1, <2>2
<1>4. \A i \in 1..n : p[i] = i
  <2>1. \A i \in T : p[Cardinality(T \cap 1..i)] = i
    BY <1>1, PositionsOf
  <2> QED
    BY <1>1, <1>3, <2>1
<1>5. /\ Picked(seq, DOMAIN seq) \in Seq(E)
      /\ Len(Picked(seq, DOMAIN seq)) = n
      /\ \A k \in 1..n : Picked(seq, DOMAIN seq)[k] = seq[p[k]]
  BY <1>2, PickedIs
<1> HIDE DEF n, T, p
<1>6. \A k \in 1..n : Picked(seq, DOMAIN seq)[k] = seq[k]
  BY <1>4, <1>5
<1> QED
  BY <1>1, <1>5, <1>6, SeqEqual DEF n

\* f joins the sequences of s up to the m-th, each behind those before it.
Joins(f, s, m) ==
  /\ DOMAIN f = 1..m
  /\ f = [i \in 1..m |-> f[i]]
  /\ f[1] = s[1]
  /\ \A i \in 2..m : f[i] = f[i - 1] \o s[i]

LEMMA JoinsExists ==
  ASSUME NEW s, NEW n \in Nat \ {0}
  PROVE  \E f : Joins(f, s, n)
<1> DEFINE bad == {m \in Nat \ {0} : ~ \E f : Joins(f, s, m)}
<1> SUFFICES ASSUME bad # {}
             PROVE  FALSE
  OBVIOUS
<1>1. PICK m \in bad : \A k \in bad : m <= k
  <2>1. bad \in SUBSET Nat
    OBVIOUS
  <2> HIDE DEF bad
  <2> QED
    BY <2>1, Least
<1>2. m \in Nat \ {0} /\ ~ \E f : Joins(f, s, m)
  BY <1>1
<1>3. CASE m = 1
  <2> DEFINE g == [i \in 1..1 |-> s[1]]
  <2>1. Joins(g, s, 1)
    BY DEF Joins
  <2> QED
    BY <1>2, <1>3, <2>1
<1>4. CASE m # 1
  <2>1. m - 1 \in Nat \ {0} /\ m - 1 \notin bad
    BY <1>1, <1>2, <1>4
  <2>2. PICK f : Joins(f, s, m - 1)
    BY <2>1
  <2> DEFINE g == [i \in 1..m |-> IF i = m THEN f[m - 1] \o s[m] ELSE f[i]]
  <2>3. DOMAIN g = 1..m /\ g = [i \in 1..m |-> g[i]]
    OBVIOUS
  <2>4. \A i \in 1..m : g[i] = IF i = m THEN f[m - 1] \o s[m] ELSE f[i]
    OBVIOUS
  <2> HIDE DEF g
  <2>5. /\ f[1] = s[1]
        /\ \A i \in 2..(m - 1) : f[i] = f[i - 1] \o s[i]
    BY <2>2 DEF Joins
  <2>6. m \in 1..m /\ m - 1 \in 1..m /\ m - 1 # m /\ 1 \in 1..m /\ 1 # m
    BY <1>2, <1>4
  <2>7. g[1] = s[1] /\ g[m] = g[m - 1] \o s[m]
    BY <2>4, <2>5, <2>6
  <2>8. ASSUME NEW i \in 2..m
        PROVE  g[i] = g[i - 1] \o s[i]
    <3>1. CASE i = m
      BY <2>7, <3>1
    <3>2. CASE i # m
      <4>1. /\ i \in 1..m /\ i - 1 \in 1..m /\ i - 1 # m
            /\ i \in 2..(m - 1)
        BY <1>2, <2>8, <3>2
      <4>2. g[i] = f[i] /\ g[i - 1] = f[i - 1]
        BY <2>4, <3>2, <4>1
      <4>3. f[i] = f[i - 1] \o s[i]
        BY <2>5, <4>1
      <4> QED
        BY <4>2, <4>3
    <3> QED
      BY <3>1, <3>2
  <2>9. Joins(g, s, m)
    BY <2>3, <2>7, <2>8 DEF Joins
  <2> QED
    BY <1>2, <2>9
<1> QED
  BY <1>3, <1>4

\* What FlattenSeq computes.
LEMMA Flattening ==
  ASSUME NEW E, NEW s \in Seq(Seq(E)), s # <<>>
  PROVE  \E f \in [1..Len(s) -> Seq(E)] :
           Joins(f, s, Len(s)) /\ FlattenSeq(s) = f[Len(s)]
<1>1. Len(s) \in Nat \ {0} /\ \A i \in 1..Len(s) : s[i] \in Seq(E)
  BY EmptySeq, LenProperties, ElementOfSeq
<1> DEFINE flat == CHOOSE f : f = [i \in 1..Len(s) |->
                                   IF i = 1 THEN s[i] ELSE f[i - 1] \o s[i]]
<1>2. FlattenSeq(s) = flat[Len(s)]
  BY <1>1 DEF FlattenSeq
<1>3. PICK h : Joins(h, s, Len(s))
  BY <1>1, JoinsExists
<1>4. h = [i \in 1..Len(s) |-> IF i = 1 THEN s[i] ELSE h[i - 1] \o s[i]]
  <2>1. ASSUME NEW i \in 1..Len(s)
        PROVE  h[i] = IF i = 1 THEN s[i] ELSE h[i - 1] \o s[i]
    <3>1. i # 1 => i \in 2..Len(s)
      BY <1>1
    <3> QED
      BY <1>3, <3>1 DEF Joins
  <2>2. h = [i \in 1..Len(s) |-> h[i]]
    BY <1>3 DEF Joins
  <2> QED
    BY <2>1, <2>2
<1>5. flat = [i \in 1..Len(s) |-> IF i = 1 THEN s[i] ELSE flat[i - 1] \o s[i]]
  BY <1>4
<1> HIDE DEF flat
<1>6. Joins(flat, s, Len(s))
  <2>1. DOMAIN flat = 1..Len(s)
    BY <1>5
  <2>2. \A i \in 1..Len(s) :
          flat[i] = IF i = 1 THEN s[i] ELSE flat[i - 1] \o s[i]
    BY <1>5
  <2>3. flat = [i \in 1..Len(s) |-> flat[i]]
    BY <1>5
  <2>4. 1 \in 1..Len(s)
    BY <1>1
  <2>5. ASSUME NEW i \in 2..Len(s)
        PROVE  flat[i] = flat[i - 1] \o s[i]
    <3>1. i \in 1..Len(s) /\ i # 1
      BY <1>1
    <3> QED
      BY <2>2, <3>1
  <2> QED
    BY <2>1, <2>2, <2>3, <2>4, <2>5 DEF Joins
<1>7. \A i \in 1..Len(s) : flat[i] \in Seq(E)
  <2> DEFINE bad == {i \in 1..Len(s) : flat[i] \notin Seq(E)}
  <2> SUFFICES ASSUME bad # {}
               PROVE  FALSE
    OBVIOUS
  <2>1. PICK m \in bad : \A k \in bad : m <= k
    <3>1. bad \in SUBSET Nat
      BY <1>1
    <3> HIDE DEF bad
    <3> QED
      BY <3>1, Least
  <2>2. m \in 1..Len(s) /\ flat[m] \notin Seq(E)
    BY <2>1
  <2>3. m # 1
    BY <1>1, <1>6, <2>2 DEF Joins
  <2>4. m - 1 \in 1..Len(s) /\ ~ (m <= m - 1)
    BY <1>1, <2>2, <2>3
  <2>5. flat[m - 1] \in Seq(E)
    BY <2>1, <2>4
  <2>6. flat[m] = flat[m - 1] \o s[m] /\ s[m] \in Seq(E)
    <3>1. m \in 2..Len(s)
      BY <1>1, <2>2, <2>3
    <3> QED
      BY <1>1, <1>6, <2>2, <3>1 DEF Joins
  <2>7. flat[m] \in Seq(E)
    BY <2>5, <2>6, ConcatProperties
  <2> QED
    BY <2>2, <2>7
<1>8. flat \in [1..Len(s) -> Seq(E)]
  BY <1>6, <1>7 DEF Joins
<1> QED
  BY <1>2, <1>6, <1>8

LEMMA FlattenRange ==
  ASSUME NEW E, NEW s \in Seq(Seq(E))
  PROVE  /\ FlattenSeq(s) \in Seq(E)
         /\ Range(FlattenSeq(s)) = UNION {Range(s[i]) : i \in DOMAIN s}
<1>1. Len(s) \in Nat /\ DOMAIN s = 1..Len(s)
  BY LenProperties
<1>2. CASE s = <<>>
  <2>1. FlattenSeq(s) = <<>>
    BY <1>2 DEF FlattenSeq
  <2>2. Range(<<>>) = {} /\ DOMAIN s = {}
    BY <1>2 DEF Range
  <2> QED
    BY <2>1, <2>2, EmptySeq
<1>3. CASE s # <<>>
  <2>1. PICK f \in [1..Len(s) -> Seq(E)] :
          Joins(f, s, Len(s)) /\ FlattenSeq(s) = f[Len(s)]
    BY <1>3, Flattening
  <2>2. Len(s) # 0 /\ \A i \in 1..Len(s) : s[i] \in Seq(E)
    BY <1>1, <1>3, EmptySeq, ElementOfSeq
  <2> DEFINE upto(i) == UNION {Range(s[j]) : j \in 1..i}
             bad == {i \in 1..Len(s) : Range(f[i]) # upto(i)}
  <2>3. bad = {}
    <3> SUFFICES ASSUME bad # {}
                 PROVE  FALSE
      OBVIOUS
    <3>1. PICK m \in bad : \A k \in bad : m <= k
      <4>1. bad \in SUBSET Nat
        BY <1>1
      <4> HIDE DEF bad
      <4> QED
        BY <4>1, Least
    <3>2. m \in 1..Len(s) /\ Range(f[m]) # upto(m)
      BY <3>1
    <3>3. CASE m = 1
      <4>1. f[1] = s[1]
        BY <2>1 DEF Joins
      <4>2. upto(1) = Range(s[1])
        OBVIOUS
      <4> QED
        BY <3>2, <3>3, <4>1, <4>2
    <3>4. CASE m # 1
      <4>1. m - 1 \in 1..Len(s) /\ ~ (m <= m - 1) /\ m \in 2..Len(s)
        BY <1>1, <3>2, <3>4
      <4>2. Range(f[m - 1]) = upto(m - 1)
        BY <3>1, <4>1
      <4>3. f[m] = f[m - 1] \o s[m] /\ s[m] \in Seq(E) /\ f[m - 1] \in Seq(E)
        BY <2>1, <2>2, <3>2, <4>1 DEF Joins
      <4>4. Range(f[m]) = Range(f[m - 1]) \cup Range(s[m])
        BY <4>3, RangeConcatenation
      <4>5. upto(m) = upto(m - 1) \cup Range(s[m])
        <5>1. 1..m = 1..(m - 1) \cup {m}
          BY <1>1, <4>1
        <5> QED
          BY <5>1
      <4> QED
        BY <3>2, <4>2, <4>4, <4>5
    <3> QED
      BY <3>3, <3>4
  <2>4. Range(f[Len(s)]) = upto(Len(s)) /\ f[Len(s)] \in Seq(E)
    <3>1. Len(s) \in 1..Len(s)
      BY <1>1, <2>2
    <3>2. Len(s) \notin bad
      BY <2>3
    <3> QED
      BY <2>1, <3>1, <3>2
  <2> QED
    BY <1>1, <2>1, <2>4
<1> QED
  BY <1>2, <1>3

-----------------------------------------------------------------------------
(* The memory of a session.                                                *)

\* Remembering puts the entry last and drops at most the first.
LEMMA RememberIs ==
  ASSUME NEW E, NEW old \in Seq(E), Len(old) <= MaxEntries, NEW e \in E
  PROVE  LET new == Remember(old, e)
             drop == Len(old) + 1 - Len(new)
         IN  /\ new \in Seq(E) /\ Len(new) \in 1..MaxEntries
             /\ drop \in {0, 1}
             /\ new[Len(new)] = e
             /\ \A i \in 1..(Len(new) - 1) : new[i] = old[i + drop]
<1> DEFINE longer == old \o <<e>>
           n == Len(old)
<1>1. n \in Nat /\ MaxEntries \in Nat \ {0}
  BY LenProperties, MemoryAssumption
<1>2. <<e>> \in Seq(E) /\ Len(<<e>>) = 1 /\ <<e>>[1] = e
  OBVIOUS
<1>3. /\ longer \in Seq(E) /\ Len(longer) = n + 1
      /\ \A i \in 1..(n + 1) : longer[i] = IF i <= n THEN old[i] ELSE e
  BY <1>1, <1>2, ConcatProperties
<1>4. longer[n + 1] = e /\ \A i \in 1..n : longer[i] = old[i]
  BY <1>1, <1>3
<1>5. Remember(old, e) =
        IF Len(longer) <= MaxEntries THEN longer
        ELSE SubSeq(longer, Len(longer) - MaxEntries + 1, Len(longer))
  BY DEF Remember
<1> HIDE DEF longer
<1>6. CASE n + 1 <= MaxEntries
  BY <1>1, <1>3, <1>4, <1>5, <1>6
<1>7. CASE n = MaxEntries
  <2>1. Remember(old, e) = SubSeq(longer, 2, n + 1)
    BY <1>1, <1>3, <1>5, <1>7
  <2>2. \A i \in 2..(n + 1) : longer[i] \in E
    BY <1>1, <1>3, ElementOfSeq
  <2>3. /\ Remember(old, e) \in Seq(E) /\ Len(Remember(old, e)) = n
        /\ \A i \in 1..n : Remember(old, e)[i] = longer[i + 1]
    BY <1>1, <1>7, <2>1, <2>2, SubSeqProperties
  <2> QED
    BY <1>1, <1>4, <1>7, <2>3
<1> QED
  BY <1>1, <1>6, <1>7

\* What is rendered of a transcript ends with its last entry and fits the
\* context, unless it is the last entry alone.
LEMMA RenderedIs ==
  ASSUME NEW E, NEW old \in Seq(E)
  PROVE  LET shown == Rendered(old)
         IN  /\ shown \in Seq(E) /\ Range(shown) \subseteq Range(old)
             /\ old = <<>> => shown = <<>>
             /\ old # <<>> => shown # <<>> /\ Last(shown) = old[Len(old)]
             /\ Len(shown) > 1 => LengthFrom(shown, 1) <= MaxContext
<1> DEFINE fits == {i \in DOMAIN old : LengthFrom(old, i) <= MaxContext}
           n == Len(old)
           first == IF fits = {} THEN n
                    ELSE CHOOSE i \in fits : \A j \in fits : i <= j
<1>1. /\ n \in Nat /\ DOMAIN old = 1..n
      /\ \A i \in 1..n : old[i] \in E
  BY LenProperties, ElementOfSeq
<1>2. CASE old = <<>>
  <2>1. Rendered(old) = <<>>
    BY <1>2 DEF Rendered
  <2>2. Range(<<>>) = {} /\ <<>> \in Seq(E)
    BY EmptySeq DEF Range
  <2>3. ~ (Len(<<>>) > 1)
    OBVIOUS
  <2> QED
    BY <1>2, <2>1, <2>2, <2>3
<1>3. CASE old # <<>>
  <2>1. n \in Nat \ {0}
    BY <1>3, EmptySeq
  <2>2. fits # {} => first \in fits
    <3>1. fits \in SUBSET Nat
      BY <1>1
    <3> HIDE DEF fits
    <3> QED
      BY <3>1, Least
  <2>3. first \in 1..n /\ (first # n => LengthFrom(old, first) <= MaxContext)
    BY <1>1, <2>1, <2>2
  <2>4. Rendered(old) = SubSeq(old, first, n)
    BY <1>3 DEF Rendered
  <2> DEFINE shown == SubSeq(old, first, n)
             m == Len(shown)
  <2>5. SubSeq(shown, 1, m) = shown
        => LengthFrom(shown, 1) = LengthFrom(old, first)
    BY DEF LengthFrom
  <2> HIDE DEF fits, first, n
  <2>6. first \in Int /\ n \in Int /\ \A i \in first..n : old[i] \in E
    BY <1>1, <2>3
  <2>7. /\ shown \in Seq(E)
        /\ m = IF first <= n THEN n - first + 1 ELSE 0
        /\ \A i \in 1..(n - first + 1) : shown[i] = old[first + i - 1]
    BY <2>6, SubSeqProperties
  <2>8. DOMAIN shown = 1..m
    BY <2>7, LenProperties
  <2>9. SubSeq(shown, 1, m) = shown
    BY <2>7, SubSeqFull
  <2> HIDE DEF shown, m
  <2>10. m = n - first + 1 /\ m \in 1..n
    BY <1>1, <2>3, <2>7
  <2>11. shown[m] = old[n]
    <3>1. m \in 1..(n - first + 1) /\ first + m - 1 = n
      BY <1>1, <2>3, <2>10
    <3> QED
      BY <2>7, <3>1
  <2>12. shown # <<>> /\ Last(shown) = old[n]
    <3>1. shown # <<>>
      BY <1>1, <2>8, <2>10
    <3> QED
      BY <2>11, <3>1 DEF Last, m
  <2>13. ASSUME NEW i \in 1..m
         PROVE  shown[i] \in Range(old)
    <3>1. /\ i \in 1..(n - first + 1) /\ first + i - 1 \in 1..n
      BY <1>1, <2>3, <2>10
    <3> QED
      BY <1>1, <2>7, <3>1 DEF Range
  <2>14. Range(shown) \subseteq Range(old)
    BY <2>8, <2>13 DEF Range
  <2>15. m > 1 => LengthFrom(shown, 1) <= MaxContext
    <3>1. m > 1 => first # n
      BY <1>1, <2>3, <2>10
    <3> QED
      BY <2>3, <2>5, <2>9, <3>1
  <2> QED
    BY <1>3, <2>4, <2>7, <2>12, <2>14, <2>15 DEF shown, m, n
<1> QED
  BY <1>2, <1>3

-----------------------------------------------------------------------------
(* What the sanitizers leave of a model's words.                           *)

\* What stands inside a section is next to one of the section's tags, as it
\* is in every stretch of a prompt that is longer than one piece.
Tagged(words, section) ==
  \A i \in DOMAIN words : words[i] = Inner(section) =>
    \/ i - 1 \in DOMAIN words /\ words[i - 1] = Open(section)
    \/ i + 1 \in DOMAIN words /\ words[i + 1] = Close(section)

LEMMA PiecesDiffer ==
  ASSUME NEW a, NEW b
  PROVE  /\ Inner(a) # Open(b) /\ Inner(a) # Close(b) /\ Open(a) # Close(b)
         /\ \A k : k # "inner" => Inner(a) # Piece(k)
BY DEF Inner, Open, Close, Piece

\* The positions that Strip keeps, and the number one of them gets.
Remaining(words, section) ==
  {i \in DOMAIN words : /\ ~ InBlock(words, section, i)
                        /\ ~ BeforeStrayClose(words, section, i)}

Number(T, i) == Cardinality(T \cap 1..i)

LEMMA Kept ==
  ASSUME NEW E, NEW words \in Seq(E), NEW section
  PROVE  LET T == Remaining(words, section)
             left == Strip(words, section)
         IN  /\ left \in Seq(E)
             /\ \A i \in T : /\ Number(T, i) \in DOMAIN left
                             /\ left[Number(T, i)] = words[i]
             /\ \A k \in DOMAIN left : \E i \in T : Number(T, i) = k
             /\ \A i \in T :
                  i + 1 \in T => Number(T, i + 1) = Number(T, i) + 1
<1> DEFINE T == Remaining(words, section)
           r(i) == Number(T, i)
           left == Strip(words, section)
           p == Positions(words, T)
<1>1. Len(words) \in Nat /\ DOMAIN words = 1..Len(words)
  BY LenProperties
<1>2. left = Picked(words, T) /\ T \cap DOMAIN words = T
  BY DEF Strip, Remaining
<1> HIDE DEF T, left
<1>3. /\ Cardinality(T) \in Nat /\ p \in [1..Cardinality(T) -> T]
      /\ \A i \in T : r(i) \in 1..Cardinality(T) /\ p[r(i)] = i
      /\ \A k, l \in 1..Cardinality(T) : k < l => p[k] < p[l]
      /\ \A i \in T : i + 1 \in T => r(i + 1) = r(i) + 1
  <2> DEFINE U == T \cap DOMAIN words
  <2>1. /\ Cardinality(U) \in Nat /\ p \in [1..Cardinality(U) -> U]
        /\ \A i \in U : /\ Cardinality(U \cap 1..i) \in 1..Cardinality(U)
                        /\ p[Cardinality(U \cap 1..i)] = i
        /\ \A k, l \in 1..Cardinality(U) : k < l => p[k] < p[l]
        /\ \A i \in U : i + 1 \in U =>
             Cardinality(U \cap 1..(i + 1)) = Cardinality(U \cap 1..i) + 1
    BY <1>1, PositionsOf
  <2>2. U = T
    BY <1>2
  <2> HIDE DEF U, p
  <2> QED
    BY <2>1, <2>2 DEF Number
<1>4. /\ left \in Seq(E) /\ Len(left) = Cardinality(T)
      /\ \A k \in 1..Cardinality(T) : left[k] = words[p[k]]
  BY <1>2, PickedIs
<1>5. DOMAIN left = 1..Cardinality(T)
  BY <1>4, LenProperties
<1> HIDE DEF r, p
<1>6. T \subseteq Nat
  BY <1>1 DEF T, Remaining
<1>7. ASSUME NEW k \in 1..Cardinality(T)
      PROVE  r(p[k]) = k
  <2> DEFINE l == r(p[k])
  <2>1. p[k] \in T /\ l \in 1..Cardinality(T) /\ p[l] = p[k] /\ p[k] \in Nat
    BY <1>3, <1>6
  <2> HIDE DEF l
  <2>2. ~ (k < l) /\ ~ (l < k)
    BY <1>3, <2>1
  <2>3. k \in Nat /\ l \in Nat
    BY <1>3, <2>1
  <2>4. l = k
    BY <2>2, <2>3
  <2> QED
    BY <2>4 DEF l
<1>8. \A i \in T : r(i) \in DOMAIN left /\ left[r(i)] = words[i]
  BY <1>3, <1>4, <1>5
<1>9. \A k \in DOMAIN left : \E i \in T : r(i) = k
  BY <1>3, <1>5, <1>7
<1> QED
  BY <1>3, <1>4, <1>8, <1>9 DEF T, left, r

\* A section's content does not survive where its tags are.
LEMMA InnerGone ==
  ASSUME NEW E, NEW words \in Seq(E), NEW section, Tagged(words, section)
  PROVE  Inner(section) \notin Range(Strip(words, section))
<1> DEFINE T == Remaining(words, section)
           left == Strip(words, section)
<1>1. /\ \A i \in T : left[Number(T, i)] = words[i]
      /\ \A k \in DOMAIN left : \E i \in T : Number(T, i) = k
  BY Kept
<1>2. Len(words) \in Nat /\ DOMAIN words = 1..Len(words)
  BY LenProperties
<1>3. ASSUME NEW i \in T, words[i] = Inner(section)
      PROVE  FALSE
  <2>1. i \in 1..Len(words) /\ ~ InBlock(words, section, i)
        /\ ~ BeforeStrayClose(words, section, i)
    BY <1>2 DEF Remaining
  <2>2. CASE i - 1 \in DOMAIN words /\ words[i - 1] = Open(section)
    <3>1. \A k \in (i - 1)..(i - 1) : words[k] # Close(section)
      BY <1>2, <2>1, <2>2, PiecesDiffer
    <3>2. i - 1 \in 1..i
      BY <1>2, <2>1, <2>2
    <3>3. InBlock(words, section, i)
      BY <2>2, <3>1, <3>2 DEF InBlock
    <3> QED
      BY <2>1, <3>3
  <2>3. CASE i + 1 \in DOMAIN words /\ words[i + 1] = Close(section)
    <3>1. i + 1 \in i..Len(words)
      BY <1>2, <2>1, <2>3
    <3>2. InBlock(words, section, i + 1)
      BY <2>1, <2>3, <3>1 DEF BeforeStrayClose
    <3>3. PICK j \in 1..(i + 1) :
            /\ words[j] = Open(section)
            /\ \A k \in j..i : words[k] # Close(section)
      <4>1. PICK j \in 1..(i + 1) :
              /\ words[j] = Open(section)
              /\ \A k \in j..((i + 1) - 1) : words[k] # Close(section)
        BY <3>2 DEF InBlock
      <4>2. (i + 1) - 1 = i
        BY <2>1
      <4>3. \A k \in j..i : words[k] # Close(section)
        BY <4>1, <4>2
      <4> QED
        BY <4>1, <4>3
    <3>4. j # i + 1
      BY <2>3, <3>3, PiecesDiffer
    <3>5. j \in 1..i /\ \A k \in j..(i - 1) : k \in j..i
      BY <2>1, <3>3, <3>4
    <3>6. InBlock(words, section, i)
      BY <3>3, <3>5 DEF InBlock
    <3> QED
      BY <2>1, <3>6
  <2>4. i \in DOMAIN words
    BY <1>2, <2>1
  <2> QED
    BY <1>3, <2>2, <2>3, <2>4 DEF Tagged
<1> HIDE DEF T
<1>4. \A k \in DOMAIN left : left[k] # Inner(section)
  BY <1>1, <1>3
<1> QED
  BY <1>4 DEF Range

\* Taking one section out leaves the content of another next to its tags.
LEMMA StaysTagged ==
  ASSUME NEW E, NEW words \in Seq(E), NEW other, NEW section,
         Tagged(words, section)
  PROVE  Tagged(Strip(words, other), section)
<1> DEFINE T == Remaining(words, other)
           left == Strip(words, other)
<1>1. /\ \A i \in T : /\ Number(T, i) \in DOMAIN left
                      /\ left[Number(T, i)] = words[i]
      /\ \A k \in DOMAIN left : \E i \in T : Number(T, i) = k
      /\ \A i \in T : i + 1 \in T => Number(T, i + 1) = Number(T, i) + 1
  BY Kept
<1>2. left \in Seq(E)
  BY Kept
<1>3. /\ Len(words) \in Nat /\ DOMAIN words = 1..Len(words)
      /\ Len(left) \in Nat /\ DOMAIN left = 1..Len(left)
  BY <1>2, LenProperties
<1>4. ASSUME NEW i \in T, words[i] = Inner(section)
      PROVE  \/ i - 1 \in T /\ words[i - 1] = Open(section)
             \/ i + 1 \in T /\ words[i + 1] = Close(section)
  <2>1. i \in 1..Len(words) /\ ~ InBlock(words, other, i)
        /\ ~ BeforeStrayClose(words, other, i)
    BY <1>3 DEF Remaining
  <2>2. CASE i - 1 \in DOMAIN words /\ words[i - 1] = Open(section)
    <3>1. i - 1 \in 1..Len(words) /\ words[i - 1] # Close(other)
      BY <1>3, <2>2, PiecesDiffer
    <3>2. ASSUME InBlock(words, other, i - 1)
          PROVE  FALSE
      <4>1. PICK j \in 1..(i - 1) :
              /\ words[j] = Open(other)
              /\ \A k \in j..((i - 1) - 1) : words[k] # Close(other)
        BY <3>2 DEF InBlock
      <4>2. \A k \in j..(i - 1) : k # i - 1 => k \in j..((i - 1) - 1)
        BY <2>1, <4>1
      <4>3. \A k \in j..(i - 1) : words[k] # Close(other)
        BY <3>1, <4>1, <4>2
      <4>4. j \in 1..i
        BY <2>1, <4>1
      <4>5. InBlock(words, other, i)
        BY <4>1, <4>3, <4>4 DEF InBlock
      <4> QED
        BY <2>1, <4>5
    <3>3. ASSUME BeforeStrayClose(words, other, i - 1)
          PROVE  FALSE
      <4>1. PICK j \in (i - 1)..Len(words) :
              words[j] = Close(other) /\ ~ InBlock(words, other, j)
        BY <3>3 DEF BeforeStrayClose
      <4>2. j # i - 1
        BY <3>1, <4>1
      <4>3. j \in i..Len(words)
        BY <2>1, <4>2
      <4>4. BeforeStrayClose(words, other, i)
        BY <4>1, <4>3 DEF BeforeStrayClose
      <4> QED
        BY <2>1, <4>4
    <3>4. i - 1 \in T
      BY <2>2, <3>2, <3>3 DEF Remaining
    <3> QED
      BY <2>2, <3>4
  <2>3. CASE i + 1 \in DOMAIN words /\ words[i + 1] = Close(section)
    <3>1. i + 1 \in 1..Len(words) /\ words[i + 1] # Open(other)
      BY <1>3, <2>3, PiecesDiffer
    <3>2. ASSUME InBlock(words, other, i + 1)
          PROVE  FALSE
      <4>1. PICK j \in 1..(i + 1) :
              /\ words[j] = Open(other)
              /\ \A k \in j..((i + 1) - 1) : words[k] # Close(other)
        BY <3>2 DEF InBlock
      <4>2. j # i + 1
        BY <3>1, <4>1
      <4>3. j \in 1..i /\ \A k \in j..(i - 1) : k \in j..((i + 1) - 1)
        BY <2>1, <4>1, <4>2
      <4>4. InBlock(words, other, i)
        BY <4>1, <4>3 DEF InBlock
      <4> QED
        BY <2>1, <4>4
    <3>3. ASSUME BeforeStrayClose(words, other, i + 1)
          PROVE  FALSE
      <4>1. PICK j \in (i + 1)..Len(words) :
              words[j] = Close(other) /\ ~ InBlock(words, other, j)
        BY <3>3 DEF BeforeStrayClose
      <4>2. j \in i..Len(words)
        BY <2>1, <4>1
      <4>3. BeforeStrayClose(words, other, i)
        BY <4>1, <4>2 DEF BeforeStrayClose
      <4> QED
        BY <2>1, <4>3
    <3>4. i + 1 \in T
      BY <2>3, <3>2, <3>3 DEF Remaining
    <3> QED
      BY <2>3, <3>4
  <2>4. i \in DOMAIN words
    BY <1>3, <2>1
  <2> QED
    BY <1>4, <2>2, <2>3, <2>4 DEF Tagged
<1>5. T \subseteq 1..Len(words)
  BY <1>3 DEF Remaining
<1> HIDE DEF T, left
<1>6. ASSUME NEW k \in DOMAIN left, left[k] = Inner(section)
      PROVE  \/ k - 1 \in DOMAIN left /\ left[k - 1] = Open(section)
             \/ k + 1 \in DOMAIN left /\ left[k + 1] = Close(section)
  <2>1. PICK i \in T : Number(T, i) = k
    BY <1>1
  <2>2. words[i] = Inner(section) /\ i \in Nat /\ k \in Nat
    BY <1>1, <1>3, <1>5, <1>6, <2>1
  <2>3. CASE i - 1 \in T /\ words[i - 1] = Open(section)
    <3>1. Number(T, i - 1) \in DOMAIN left
          /\ left[Number(T, i - 1)] = Open(section)
      BY <1>1, <2>3
    <3>2. (i - 1) + 1 = i
      BY <2>2
    <3>3. k = Number(T, i - 1) + 1
      BY <1>1, <2>1, <2>3, <3>2
    <3>4. Number(T, i - 1) = k - 1
      BY <1>3, <3>1, <3>3
    <3> QED
      BY <3>1, <3>4
  <2>4. CASE i + 1 \in T /\ words[i + 1] = Close(section)
    <3>1. Number(T, i + 1) = k + 1
      BY <1>1, <2>1, <2>4
    <3> QED
      BY <1>1, <2>4, <3>1
  <2> QED
    BY <1>4, <2>2, <2>3, <2>4
<1>7. Tagged(left, section)
  BY <1>6 DEF Tagged
<1> QED
  BY <1>7 DEF left

\* Strip adds nothing.
LEMMA StripRange ==
  ASSUME NEW E, NEW words \in Seq(E), NEW section
  PROVE  /\ Strip(words, section) \in Seq(E)
         /\ Range(Strip(words, section)) \subseteq Range(words)
<1> DEFINE T == Remaining(words, section)
           left == Strip(words, section)
<1>1. /\ left \in Seq(E)
      /\ \A i \in T : left[Number(T, i)] = words[i]
      /\ \A k \in DOMAIN left : \E i \in T : Number(T, i) = k
  BY Kept
<1>2. T \subseteq DOMAIN words
  BY DEF Remaining
<1> HIDE DEF T, left
<1>3. \A k \in DOMAIN left : \E i \in DOMAIN words : left[k] = words[i]
  BY <1>1, <1>2
<1>4. Range(left) \subseteq Range(words)
  BY <1>3 DEF Range
<1> QED
  BY <1>1, <1>4 DEF left

Section == Range(InternalSections)

LEMMA FourSections ==
  /\ Len(InternalSections) = 4 /\ DOMAIN InternalSections = 1..4
  /\ Section = {InternalSections[1], InternalSections[2],
                InternalSections[3], InternalSections[4]}
<1>1. Len(InternalSections) = 4 /\ DOMAIN InternalSections = 1..4
  BY DEF InternalSections
<1>2. 1..4 = {1, 2, 3, 4}
  OBVIOUS
<1> HIDE DEF InternalSections
<1> QED
  BY <1>1, <1>2 DEF Section, Range

\* What a model's words consist of, and what Cauvis puts in their place.
PieceKinds ==
  {"label", "words", "formerSession", "earlier", "withheld", "nothingSaid",
   "runtimeTruth"}

Pieces ==
  {Open(s) : s \in Section} \cup {Inner(s) : s \in Section}
  \cup {Close(s) : s \in Section} \cup {Piece(k) : k \in PieceKinds}

\* No piece is the content of a section.
Clean(words) == \A i \in DOMAIN words : words[i].kind # "inner"

LEMMA InnerPieces ==
  /\ \A x \in Pieces : x.kind = "inner" => \E s \in Section : x = Inner(s)
  /\ \A k \in PieceKinds : Piece(k) \in Pieces /\ Piece(k).kind = k
BY DEF Pieces, PieceKinds, Open, Inner, Close, Piece

LEMMA CleanIf ==
  ASSUME NEW words \in Seq(Pieces),
         \A s \in Section : Inner(s) \notin Range(words)
  PROVE  Clean(words)
<1>1. Len(words) \in Nat /\ DOMAIN words = 1..Len(words)
  BY LenProperties
<1>2. ASSUME NEW i \in DOMAIN words, words[i].kind = "inner"
      PROVE  FALSE
  <2>1. words[i] \in Pieces /\ words[i] \in Range(words)
    BY <1>1, ElementOfSeq DEF Range
  <2> QED
    BY <1>2, <2>1, InnerPieces
<1> QED
  BY <1>2 DEF Clean

\* The sections one after the other.
StripAll(words) ==
  Strip(Strip(Strip(Strip(words, InternalSections[1]), InternalSections[2]),
              InternalSections[3]), InternalSections[4])

LEMMA SanitizedIs ==
  ASSUME NEW words
  PROVE  Sanitized(words) =
           IF StripAll(words) = <<>> THEN Withheld ELSE StripAll(words)
<1> DEFINE step(left, k) == IF k = 0 THEN words
                            ELSE Strip(left[k - 1], InternalSections[k])
           left == CHOOSE f :
                     f = [k \in 0..Len(InternalSections) |-> step(f, k)]
           w1 == Strip(words, InternalSections[1])
           w2 == Strip(w1, InternalSections[2])
           w3 == Strip(w2, InternalSections[3])
           w4 == Strip(w3, InternalSections[4])
           g == [k \in 0..4 |-> IF k = 0 THEN words ELSE IF k = 1 THEN w1
                                ELSE IF k = 2 THEN w2 ELSE IF k = 3 THEN w3
                                ELSE w4]
<1>1. Sanitized(words) =
        IF left[Len(InternalSections)] = <<>> THEN Withheld
        ELSE left[Len(InternalSections)]
  BY DEF Sanitized
<1>2. Len(InternalSections) = 4
  BY FourSections
<1>3. StripAll(words) = w4
  BY DEF StripAll
<1>4. 0..4 = {0, 1, 2, 3, 4}
  OBVIOUS
<1>5. /\ step(g, 0) = g[0] /\ step(g, 1) = g[1] /\ step(g, 2) = g[2]
      /\ step(g, 3) = g[3] /\ step(g, 4) = g[4]
  <2>1. g[0] = words /\ g[1] = w1 /\ g[2] = w2 /\ g[3] = w3 /\ g[4] = w4
    BY <1>4
  <2> HIDE DEF g
  <2>2. 1 - 1 = 0 /\ 2 - 1 = 1 /\ 3 - 1 = 2 /\ 4 - 1 = 3
    OBVIOUS
  <2> QED
    BY <2>1, <2>2
<1>6. g = [k \in 0..Len(InternalSections) |-> step(g, k)]
  <2>1. g = [k \in 0..4 |-> g[k]]
    OBVIOUS
  <2>2. \A k \in 0..4 : g[k] = step(g, k)
    <3> HIDE DEF g, step
    <3> QED
      BY <1>4, <1>5
  <2> HIDE DEF g, step
  <2> QED
    BY <1>2, <2>1, <2>2
<1>7. left = [k \in 0..4 |-> step(left, k)]
  <2> HIDE DEF g, step
  <2> QED
    BY <1>2, <1>6
<1> HIDE DEF left
<1>8. left[4] = w4
  <2>1. \A k \in 0..4 : left[k] = step(left, k)
    <3> HIDE DEF step
    <3> QED
      BY <1>7
  <2>2. /\ left[0] = words
        /\ left[1] = Strip(left[1 - 1], InternalSections[1])
        /\ left[2] = Strip(left[2 - 1], InternalSections[2])
        /\ left[3] = Strip(left[3 - 1], InternalSections[3])
        /\ left[4] = Strip(left[4 - 1], InternalSections[4])
    BY <1>4, <2>1
  <2>3. 1 - 1 = 0 /\ 2 - 1 = 1 /\ 3 - 1 = 2 /\ 4 - 1 = 3
    OBVIOUS
  <2> QED
    BY <2>2, <2>3
<1> QED
  BY <1>1, <1>2, <1>3, <1>8

\* Sanitized words hold something, and nothing of what a section holds.
LEMMA SanitizedClean ==
  ASSUME NEW words \in Seq(Pieces), \A s \in Section : Tagged(words, s)
  PROVE  /\ Sanitized(words) \in Seq(Pieces) /\ Sanitized(words) # <<>>
         /\ Clean(Sanitized(words))
<1> DEFINE w1 == Strip(words, InternalSections[1])
           w2 == Strip(w1, InternalSections[2])
           w3 == Strip(w2, InternalSections[3])
           w4 == Strip(w3, InternalSections[4])
<1>1. w1 \in Seq(Pieces)
  BY StripRange
<1>2. Inner(InternalSections[1]) \notin Range(w1)
  BY FourSections, InnerGone
<1>3. \A s \in Section : Tagged(w1, s)
  BY StaysTagged
<1> HIDE DEF w1
<1>4. w2 \in Seq(Pieces) /\ Range(w2) \subseteq Range(w1)
  BY <1>1, StripRange
<1>5. Inner(InternalSections[2]) \notin Range(w2)
  BY <1>1, <1>3, FourSections, InnerGone
<1>6. \A s \in Section : Tagged(w2, s)
  BY <1>1, <1>3, StaysTagged
<1> HIDE DEF w2
<1>7. w3 \in Seq(Pieces) /\ Range(w3) \subseteq Range(w2)
  BY <1>4, StripRange
<1>8. Inner(InternalSections[3]) \notin Range(w3)
  BY <1>4, <1>6, FourSections, InnerGone
<1>9. \A s \in Section : Tagged(w3, s)
  BY <1>4, <1>6, StaysTagged
<1> HIDE DEF w3
<1>10. w4 \in Seq(Pieces) /\ Range(w4) \subseteq Range(w3)
  BY <1>7, StripRange
<1>11. Inner(InternalSections[4]) \notin Range(w4)
  BY <1>7, <1>9, FourSections, InnerGone
<1> HIDE DEF w4
<1>12. \A s \in Section : Inner(s) \notin Range(w4)
  BY <1>2, <1>4, <1>5, <1>7, <1>8, <1>10, <1>11, FourSections
<1>13. Clean(w4)
  BY <1>10, <1>12, CleanIf
<1>14. Sanitized(words) = IF w4 = <<>> THEN Withheld ELSE w4
  BY SanitizedIs DEF StripAll, w1, w2, w3, w4
<1>15. Withheld \in Seq(Pieces) /\ Withheld # <<>> /\ Clean(Withheld)
  <2>1. Piece("withheld") \in Pieces /\ Piece("withheld").kind # "inner"
    BY InnerPieces DEF PieceKinds
  <2> QED
    BY <2>1 DEF Withheld, Clean
<1> QED
  BY <1>10, <1>13, <1>14, <1>15

LEMMA ThisSessionClean ==
  ASSUME NEW words \in Seq(Pieces), words # <<>>, Clean(words)
  PROVE  /\ ThisSession(words) \in Seq(Pieces) /\ ThisSession(words) # <<>>
         /\ Clean(ThisSession(words))
         /\ Piece("formerSession") \notin Range(ThisSession(words))
<1> DEFINE now == ThisSession(words)
<1>1. /\ Len(words) \in Nat /\ DOMAIN words = 1..Len(words)
      /\ \A i \in 1..Len(words) : words[i] \in Pieces
  BY LenProperties, ElementOfSeq
<1>2. /\ DOMAIN now = 1..Len(words)
      /\ \A i \in 1..Len(words) :
           now[i] = IF words[i] = Piece("formerSession") THEN Piece("earlier")
                    ELSE words[i]
      /\ now = [i \in 1..Len(words) |-> now[i]]
  BY <1>1 DEF ThisSession
<1> HIDE DEF now
<1>3. /\ Piece("earlier") \in Pieces /\ Piece("earlier").kind # "inner"
      /\ Piece("earlier") # Piece("formerSession")
  BY InnerPieces DEF PieceKinds, Piece
<1>4. now \in [1..Len(words) -> Pieces]
  BY <1>1, <1>2, <1>3
<1>5. now \in Seq(Pieces) /\ Len(now) = Len(words)
  BY <1>1, <1>4, ListOf
<1>6. now # <<>>
  BY <1>1, <1>5, EmptySeq
<1>7. \A i \in 1..Len(words) :
        now[i].kind # "inner" /\ now[i] # Piece("formerSession")
  BY <1>1, <1>2, <1>3 DEF Clean
<1>8. Clean(now) /\ Piece("formerSession") \notin Range(now)
  BY <1>2, <1>7 DEF Clean, Range
<1> QED
  BY <1>5, <1>6, <1>8 DEF now

\* What is told begins with no label, and adds nothing to what is left.
LEMMA UnlabelledClean ==
  ASSUME NEW words \in Seq(Pieces), Clean(words)
  PROVE  /\ Unlabelled(words) \in Seq(Pieces) /\ Unlabelled(words) # <<>>
         /\ Clean(Unlabelled(words))
         /\ Head(Unlabelled(words)) # Piece("label")
         /\ Range(Unlabelled(words))
              \subseteq Range(words) \cup {Piece("nothingSaid")}
<1> DEFINE said == {i \in DOMAIN words : words[i] # Piece("label")}
           first == CHOOSE i \in said : \A j \in said : i <= j
           n == Len(words)
           rest == SubSeq(words, first, n)
<1>1. n \in Nat /\ DOMAIN words = 1..n /\ \A i \in 1..n : words[i] \in Pieces
  BY LenProperties, ElementOfSeq
<1>2. Unlabelled(words) = IF said = {} THEN NothingSaid ELSE rest
  BY DEF Unlabelled
<1>3. CASE said = {}
  <2>1. /\ Piece("nothingSaid") \in Pieces
        /\ Piece("nothingSaid").kind # "inner"
        /\ Piece("nothingSaid") # Piece("label")
    BY InnerPieces DEF PieceKinds, Piece
  <2> QED
    BY <1>2, <1>3, <2>1 DEF NothingSaid, Clean, Range
<1>4. CASE said # {}
  <2>1. first \in said
    <3>1. said \in SUBSET Nat
      BY <1>1
    <3> HIDE DEF said
    <3> QED
      BY <1>4, <3>1, Least
  <2>2. first \in 1..n /\ words[first] # Piece("label")
    BY <1>1, <2>1
  <2> HIDE DEF said, first, n
  <2>3. \A i \in first..n : words[i] \in Pieces
    BY <1>1, <2>2
  <2>4. /\ rest \in Seq(Pieces)
        /\ Len(rest) = IF first <= n THEN n - first + 1 ELSE 0
        /\ \A i \in 1..(n - first + 1) : rest[i] = words[first + i - 1]
    <3>1. first \in Int /\ n \in Int
      BY <1>1, <2>2
    <3> QED
      BY <2>3, <3>1, SubSeqProperties
  <2>5. DOMAIN rest = 1..Len(rest)
    BY <2>4, LenProperties
  <2> HIDE DEF rest
  <2>6. Len(rest) = n - first + 1 /\ 1 \in 1..(n - first + 1)
    BY <1>1, <2>2, <2>4
  <2>7. rest[1] = words[first]
    BY <1>1, <2>2, <2>4, <2>6
  <2>8. ASSUME NEW i \in DOMAIN rest
        PROVE  \E j \in 1..n : rest[i] = words[j]
    <3>1. i \in 1..(n - first + 1) /\ first + i - 1 \in 1..n
      BY <1>1, <2>2, <2>5, <2>6
    <3> QED
      BY <2>4, <3>1
  <2>9. Clean(rest) /\ Range(rest) \subseteq Range(words)
    BY <1>1, <2>8 DEF Clean, Range
  <2>10. rest # <<>> /\ Head(rest) = rest[1]
    BY <1>1, <2>2, <2>4, <2>6, EmptySeq, HeadTailProperties
  <2> QED
    BY <1>2, <1>4, <2>2, <2>4, <2>7, <2>9, <2>10
<1> QED
  BY <1>3, <1>4

\* What stands inside a section stands between its tags.
Boxed(words, section) ==
  \A i \in DOMAIN words : words[i] = Inner(section) =>
    /\ i - 1 \in DOMAIN words /\ words[i - 1] = Open(section)
    /\ i + 1 \in DOMAIN words /\ words[i + 1] = Close(section)

\* The i-th piece of two texts joined.
LEMMA JoinedAt ==
  ASSUME NEW E, NEW a \in Seq(E), NEW b \in Seq(E)
  PROVE  /\ Len(a) \in Nat /\ Len(b) \in Nat
         /\ DOMAIN a = 1..Len(a) /\ DOMAIN b = 1..Len(b)
         /\ DOMAIN (a \o b) = 1..(Len(a) + Len(b)) /\ a \o b \in Seq(E)
         /\ \A i \in DOMAIN a : (a \o b)[i] = a[i]
         /\ \A i \in DOMAIN b : /\ i + Len(a) \in DOMAIN (a \o b)
                                /\ (a \o b)[i + Len(a)] = b[i]
         /\ \A i \in DOMAIN (a \o b) : i \notin DOMAIN a =>
              i - Len(a) \in DOMAIN b /\ (a \o b)[i] = b[i - Len(a)]
<1>1. /\ Len(a) \in Nat /\ Len(b) \in Nat
      /\ DOMAIN a = 1..Len(a) /\ DOMAIN b = 1..Len(b)
  BY LenProperties
<1>2. /\ a \o b \in Seq(E) /\ Len(a \o b) = Len(a) + Len(b)
      /\ \A i \in 1..(Len(a) + Len(b)) :
           (a \o b)[i] = IF i <= Len(a) THEN a[i] ELSE b[i - Len(a)]
  BY ConcatProperties
<1>3. DOMAIN (a \o b) = 1..(Len(a) + Len(b))
  BY <1>2, LenProperties
<1> DEFINE c == a \o b
           m == Len(a)
           n == Len(b)
<1> HIDE DEF c, m, n
<1>4. \A i \in 1..m : c[i] = a[i]
  BY <1>1, <1>2 DEF c, m, n
<1>5. ASSUME NEW i \in 1..n
      PROVE  i + m \in 1..(m + n) /\ c[i + m] = b[i]
  <2>1. /\ i + m \in 1..(m + n) /\ ~ (i + m <= m) /\ (i + m) - m = i
        /\ m \in Nat /\ n \in Nat
    BY <1>1 DEF m, n
  <2>2. c[i + m] = b[(i + m) - m]
    BY <1>2, <2>1 DEF c, m, n
  <2> QED
    BY <2>1, <2>2
<1>6. ASSUME NEW i \in 1..(m + n), i \notin 1..m
      PROVE  i - m \in 1..n /\ c[i] = b[i - m]
  <2>1. ~ (i <= m) /\ i - m \in 1..n
    BY <1>1, <1>6 DEF m, n
  <2>2. c[i] = IF i <= m THEN a[i] ELSE b[i - m]
    BY <1>2, <1>6 DEF c, m, n
  <2> QED
    BY <2>1, <2>2
<1> QED
  BY <1>1, <1>2, <1>3, <1>4, <1>5, <1>6 DEF c, m, n

LEMMA BoxedJoin ==
  ASSUME NEW E, NEW a \in Seq(E), NEW b \in Seq(E), NEW section,
         Boxed(a, section), Boxed(b, section)
  PROVE  Boxed(a \o b, section)
<1> DEFINE c == a \o b
           m == Len(a)
<1>1. /\ m \in Nat /\ Len(b) \in Nat
      /\ DOMAIN a = 1..m /\ DOMAIN b = 1..Len(b)
      /\ DOMAIN c = 1..(m + Len(b))
      /\ \A i \in DOMAIN a : c[i] = a[i]
      /\ \A i \in DOMAIN b : i + m \in DOMAIN c /\ c[i + m] = b[i]
      /\ \A i \in DOMAIN c : i \notin DOMAIN a =>
           i - m \in DOMAIN b /\ c[i] = b[i - m]
  BY JoinedAt
<1> HIDE DEF c, m
<1>2. ASSUME NEW i \in DOMAIN c, c[i] = Inner(section)
      PROVE  /\ i - 1 \in DOMAIN c /\ c[i - 1] = Open(section)
             /\ i + 1 \in DOMAIN c /\ c[i + 1] = Close(section)
  <2>1. CASE i \in DOMAIN a
    <3>1. /\ i - 1 \in DOMAIN a /\ a[i - 1] = Open(section)
          /\ i + 1 \in DOMAIN a /\ a[i + 1] = Close(section)
      BY <1>1, <1>2, <2>1 DEF Boxed
    <3>2. i - 1 \in DOMAIN c /\ i + 1 \in DOMAIN c
      BY <1>1, <3>1
    <3> QED
      BY <1>1, <3>1, <3>2
  <2>2. CASE i \notin DOMAIN a
    <3> DEFINE j == i - m
    <3>1. j \in DOMAIN b /\ b[j] = Inner(section)
      BY <1>1, <1>2, <2>2
    <3>2. j + m = i /\ (j - 1) + m = i - 1 /\ (j + 1) + m = i + 1
      BY <1>1
    <3> HIDE DEF j
    <3>3. /\ j - 1 \in DOMAIN b /\ b[j - 1] = Open(section)
          /\ j + 1 \in DOMAIN b /\ b[j + 1] = Close(section)
      BY <3>1 DEF Boxed
    <3> QED
      BY <1>1, <3>2, <3>3
  <2> QED
    BY <2>1, <2>2
<1> QED
  BY <1>2 DEF Boxed, c

LEMMA TaggedJoin ==
  ASSUME NEW E, NEW a \in Seq(E), NEW b \in Seq(E), NEW section,
         Tagged(a, section), Tagged(b, section)
  PROVE  Tagged(a \o b, section)
<1> DEFINE c == a \o b
           m == Len(a)
<1>1. /\ m \in Nat /\ Len(b) \in Nat
      /\ DOMAIN a = 1..m /\ DOMAIN b = 1..Len(b)
      /\ DOMAIN c = 1..(m + Len(b))
      /\ \A i \in DOMAIN a : c[i] = a[i]
      /\ \A i \in DOMAIN b : i + m \in DOMAIN c /\ c[i + m] = b[i]
      /\ \A i \in DOMAIN c : i \notin DOMAIN a =>
           i - m \in DOMAIN b /\ c[i] = b[i - m]
  BY JoinedAt
<1> HIDE DEF c, m
<1>2. ASSUME NEW i \in DOMAIN c, c[i] = Inner(section)
      PROVE  \/ i - 1 \in DOMAIN c /\ c[i - 1] = Open(section)
             \/ i + 1 \in DOMAIN c /\ c[i + 1] = Close(section)
  <2>1. CASE i \in DOMAIN a
    <3>1. \/ i - 1 \in DOMAIN a /\ a[i - 1] = Open(section)
          \/ i + 1 \in DOMAIN a /\ a[i + 1] = Close(section)
      BY <1>1, <1>2, <2>1 DEF Tagged
    <3>2. DOMAIN a \subseteq DOMAIN c
      BY <1>1
    <3> QED
      BY <1>1, <3>1, <3>2
  <2>2. CASE i \notin DOMAIN a
    <3> DEFINE j == i - m
    <3>1. j \in DOMAIN b /\ b[j] = Inner(section)
      BY <1>1, <1>2, <2>2
    <3>2. j + m = i /\ (j - 1) + m = i - 1 /\ (j + 1) + m = i + 1
      BY <1>1
    <3> HIDE DEF j
    <3>3. \/ j - 1 \in DOMAIN b /\ b[j - 1] = Open(section)
          \/ j + 1 \in DOMAIN b /\ b[j + 1] = Close(section)
      BY <3>1 DEF Tagged
    <3> QED
      BY <1>1, <3>2, <3>3
  <2> QED
    BY <2>1, <2>2
<1> QED
  BY <1>2 DEF Tagged, c

\* A stretch of boxed words that is longer than one piece is tagged.
LEMMA TaggedStretch ==
  ASSUME NEW E, NEW words \in Seq(E), NEW section, Boxed(words, section),
         NEW from \in DOMAIN words, NEW to \in DOMAIN words,
         Len(SubSeq(words, from, to)) # 1
  PROVE  Tagged(SubSeq(words, from, to), section)
<1> DEFINE part == SubSeq(words, from, to)
           n == Len(part)
<1>1. /\ Len(words) \in Nat /\ DOMAIN words = 1..Len(words)
      /\ \A i \in 1..Len(words) : words[i] \in E
  BY LenProperties, ElementOfSeq
<1>2. /\ part \in Seq(E)
      /\ n = IF from <= to THEN to - from + 1 ELSE 0
      /\ \A k \in 1..(to - from + 1) : part[k] = words[from + k - 1]
  <2>1. from \in Int /\ to \in Int /\ \A i \in from..to : words[i] \in E
    BY <1>1
  <2> QED
    BY <2>1, SubSeqProperties
<1>3. DOMAIN part = 1..n /\ n \in Nat
  BY <1>2, LenProperties
<1>4. n # 1
  OBVIOUS
<1> HIDE DEF part, n
<1>5. ASSUME NEW k \in DOMAIN part, part[k] = Inner(section)
      PROVE  \/ k - 1 \in DOMAIN part /\ part[k - 1] = Open(section)
             \/ k + 1 \in DOMAIN part /\ part[k + 1] = Close(section)
  <2>1. k \in 1..n /\ n = to - from + 1
    BY <1>1, <1>2, <1>3
  <2> DEFINE i == from + k - 1
  <2>2. i \in DOMAIN words /\ words[i] = Inner(section)
    BY <1>1, <1>2, <1>5, <2>1
  <2>3. i - 1 = from + (k - 1) - 1 /\ i + 1 = from + (k + 1) - 1
    BY <1>1, <2>1
  <2> HIDE DEF i
  <2>4. words[i - 1] = Open(section) /\ words[i + 1] = Close(section)
    BY <2>2 DEF Boxed
  <2>5. CASE k # 1
    <3>1. k - 1 \in 1..n
      BY <1>3, <2>1, <2>5
    <3> QED
      BY <1>2, <1>3, <2>1, <2>3, <2>4, <3>1
  <2>6. CASE k = 1
    <3>1. k + 1 \in 1..n
      BY <1>3, <1>4, <2>1, <2>6
    <3> QED
      BY <1>2, <1>3, <2>1, <2>3, <2>4, <3>1
  <2> QED
    BY <2>5, <2>6
<1> QED
  BY <1>5 DEF Tagged, part

\* Every section of a prompt is boxed.
LEMMA PromptBoxed ==
  ASSUME NEW shown, NEW section
  PROVE  SectionsOf(shown) \in Seq(Pieces) /\ Boxed(SectionsOf(shown), section)
<1> DEFINE s(k) == InternalSections[k]
           piece(k) == IF s(k) \in shown
                         THEN <<Open(s(k)), Inner(s(k)), Close(s(k))>>
                       ELSE <<>>
           all == [k \in 1..4 |-> piece(k)]
<1>1. /\ Len(InternalSections) = 4 /\ DOMAIN InternalSections = 1..4
      /\ \A k \in 1..4 : InternalSections[k] \in Section
  BY FourSections DEF Section, Range
<1>2. SectionsOf(shown) = FlattenSeq(all)
  BY <1>1 DEF SectionsOf
<1>3. ASSUME NEW x \in Section
      PROVE  /\ <<Open(x), Inner(x), Close(x)>> \in Seq(Pieces)
             /\ Boxed(<<Open(x), Inner(x), Close(x)>>, section)
  <2> DEFINE w == <<Open(x), Inner(x), Close(x)>>
  <2>1. Open(x) \in Pieces /\ Inner(x) \in Pieces /\ Close(x) \in Pieces
    BY DEF Pieces
  <2>2. w \in Seq(Pieces)
    BY <2>1
  <2>3. /\ DOMAIN w = 1..3 /\ w[1] = Open(x) /\ w[2] = Inner(x)
        /\ w[3] = Close(x)
    OBVIOUS
  <2> HIDE DEF w
  <2>4. 1..3 = {1, 2, 3} /\ 2 - 1 = 1 /\ 2 + 1 = 3
    OBVIOUS
  <2>5. /\ Open(x) # Inner(section) /\ Close(x) # Inner(section)
        /\ Inner(x) = Inner(section) => x = section
    BY DEF Open, Inner, Close
  <2>6. ASSUME NEW i \in DOMAIN w, w[i] = Inner(section)
        PROVE  i = 2 /\ x = section
    BY <2>3, <2>4, <2>5, <2>6
  <2>7. Boxed(w, section)
    BY <2>3, <2>4, <2>6 DEF Boxed
  <2> QED
    BY <2>2, <2>7 DEF w
<1>4. <<>> \in Seq(Pieces) /\ Boxed(<<>>, section)
  BY DEF Boxed
<1>5. \A k \in 1..4 : piece(k) \in Seq(Pieces) /\ Boxed(piece(k), section)
  BY <1>1, <1>3, <1>4
<1>6. /\ DOMAIN all = 1..4 /\ \A k \in 1..4 : all[k] = piece(k)
      /\ all \in Seq(Seq(Pieces)) /\ Len(all) = 4
  <2> HIDE DEF piece
  <2>1. all \in [1..4 -> Seq(Pieces)]
    BY <1>5
  <2>2. all \in Seq(Seq(Pieces)) /\ Len(all) = 4
    BY <2>1, ListOf
  <2> QED
    BY <2>2
<1> HIDE DEF piece, all
<1>7. all # <<>>
  BY <1>6, EmptySeq
<1>8. PICK f \in [1..4 -> Seq(Pieces)] :
        Joins(f, all, 4) /\ FlattenSeq(all) = f[4]
  <2>1. \E f \in [1..Len(all) -> Seq(Pieces)] :
          Joins(f, all, Len(all)) /\ FlattenSeq(all) = f[Len(all)]
    BY <1>6, <1>7, Flattening
  <2> QED
    BY <1>6, <2>1
<1>9. /\ f[1] = piece(1) /\ f[2] = f[1] \o piece(2)
      /\ f[3] = f[2] \o piece(3) /\ f[4] = f[3] \o piece(4)
  <2>1. 2 \in 2..4 /\ 3 \in 2..4 /\ 4 \in 2..4
        /\ 2 - 1 = 1 /\ 3 - 1 = 2 /\ 4 - 1 = 3
        /\ 1 \in 1..4 /\ 2 \in 1..4 /\ 3 \in 1..4 /\ 4 \in 1..4
    OBVIOUS
  <2>2. f[1] = all[1] /\ \A i \in 2..4 : f[i] = f[i - 1] \o all[i]
    BY <1>8 DEF Joins
  <2>3. /\ f[2] = f[2 - 1] \o all[2] /\ f[3] = f[3 - 1] \o all[3]
        /\ f[4] = f[4 - 1] \o all[4]
    BY <2>1, <2>2
  <2>4. /\ all[1] = piece(1) /\ all[2] = piece(2) /\ all[3] = piece(3)
        /\ all[4] = piece(4)
    BY <1>6, <2>1
  <2> QED
    BY <2>1, <2>2, <2>3, <2>4
<1>10. /\ 1 \in 1..4 /\ 2 \in 1..4 /\ 3 \in 1..4 /\ 4 \in 1..4
       /\ f[1] \in Seq(Pieces) /\ f[2] \in Seq(Pieces)
       /\ f[3] \in Seq(Pieces) /\ f[4] \in Seq(Pieces)
  BY <1>8
<1>11. /\ piece(1) \in Seq(Pieces) /\ Boxed(piece(1), section)
       /\ piece(2) \in Seq(Pieces) /\ Boxed(piece(2), section)
       /\ piece(3) \in Seq(Pieces) /\ Boxed(piece(3), section)
       /\ piece(4) \in Seq(Pieces) /\ Boxed(piece(4), section)
  BY <1>5, <1>10
<1>12. Boxed(f[2], section)
  BY <1>9, <1>10, <1>11, BoxedJoin
<1>13. Boxed(f[3], section)
  BY <1>9, <1>10, <1>11, <1>12, BoxedJoin
<1>14. Boxed(f[4], section)
  BY <1>9, <1>10, <1>11, <1>13, BoxedJoin
<1> QED
  BY <1>2, <1>8, <1>10, <1>14

\* A text that holds no section's content is tagged, whatever the section.
LEMMA PlainTagged ==
  ASSUME NEW words \in Seq(Pieces), NEW section,
         \A i \in DOMAIN words : \E k \in PieceKinds : words[i] = Piece(k)
  PROVE  Tagged(words, section)
<1>1. \A k \in PieceKinds : Piece(k) # Inner(section)
  BY PiecesDiffer DEF PieceKinds
<1> QED
  BY <1>1 DEF Tagged

LEMMA OneTagged ==
  ASSUME NEW a \in PieceKinds, NEW section
  PROVE  <<Piece(a)>> \in Seq(Pieces) /\ Tagged(<<Piece(a)>>, section)
<1> DEFINE w == <<Piece(a)>>
<1>1. w \in Seq(Pieces) /\ \A i \in DOMAIN w : w[i] = Piece(a)
  BY InnerPieces
<1> HIDE DEF w
<1>2. Tagged(w, section)
  BY <1>1, PlainTagged
<1> QED
  BY <1>1, <1>2 DEF w

LEMMA TwoTagged ==
  ASSUME NEW a \in PieceKinds, NEW b \in PieceKinds, NEW section
  PROVE  /\ <<Piece(a), Piece(b)>> \in Seq(Pieces)
         /\ Tagged(<<Piece(a), Piece(b)>>, section)
<1> DEFINE w == <<Piece(a), Piece(b)>>
<1>1. w \in Seq(Pieces) /\ \A i \in DOMAIN w : w[i] \in {Piece(a), Piece(b)}
  BY InnerPieces
<1> HIDE DEF w
<1>2. Tagged(w, section)
  BY <1>1, PlainTagged
<1> QED
  BY <1>1, <1>2 DEF w

LEMMA EmptyTagged ==
  ASSUME NEW section
  PROVE  <<>> \in Seq(Pieces) /\ Tagged(<<>>, section)
BY EmptySeq DEF Tagged

LEMMA EchoTagged ==
  ASSUME NEW shown, NEW from \in DOMAIN SectionsOf(shown),
         NEW to \in DOMAIN SectionsOf(shown), NEW section,
         Len(SubSeq(SectionsOf(shown), from, to)) # 1
  PROVE  /\ SubSeq(SectionsOf(shown), from, to) \in Seq(Pieces)
         /\ Tagged(SubSeq(SectionsOf(shown), from, to), section)
<1> DEFINE p == SectionsOf(shown)
<1>1. p \in Seq(Pieces) /\ Boxed(p, section)
  BY PromptBoxed
<1> HIDE DEF p
<1>2. /\ Len(p) \in Nat /\ DOMAIN p = 1..Len(p)
      /\ \A k \in 1..Len(p) : p[k] \in Pieces
  BY <1>1, LenProperties, ElementOfSeq
<1>3. from \in 1..Len(p) /\ to \in 1..Len(p)
  BY <1>2 DEF p
<1>4. SubSeq(p, from, to) \in Seq(Pieces)
  <2>1. from \in Int /\ to \in Int /\ \A k \in from..to : p[k] \in Pieces
    BY <1>2, <1>3
  <2> QED
    BY <2>1, SubSeqProperties
<1>5. Tagged(SubSeq(p, from, to), section)
  <2>1. Len(SubSeq(p, from, to)) # 1
    BY DEF p
  <2> QED
    BY <1>1, <1>2, <1>3, <2>1, TaggedStretch
<1> QED
  BY <1>4, <1>5 DEF p

LEMMA ThreeTagged ==
  ASSUME NEW a \in Seq(Pieces), NEW b \in Seq(Pieces), NEW c \in Seq(Pieces),
         NEW section, Tagged(a, section), Tagged(b, section),
         Tagged(c, section)
  PROVE  /\ a \o b \o c \in Seq(Pieces) /\ Tagged(a \o b \o c, section)
<1>1. a \o b \in Seq(Pieces) /\ Tagged(a \o b, section)
  BY ConcatProperties, TaggedJoin
<1> DEFINE ab == a \o b
<1> HIDE DEF ab
<1>2. ab \o c \in Seq(Pieces) /\ Tagged(ab \o c, section)
  BY <1>1, ConcatProperties, TaggedJoin DEF ab
<1> QED
  BY <1>2 DEF ab

\* A model's words are made of pieces, and tagged.
LEMMA WordsTagged ==
  ASSUME NEW shown, NEW words \in ModelWords(shown), NEW section
  PROVE  words \in Seq(Pieces) /\ Tagged(words, section)
<1> DEFINE p == SectionsOf(shown)
           echoes == {SubSeq(p, i, j) : i \in DOMAIN p, j \in DOMAIN p}
           Echo == {e \in echoes : Len(e) # 1} \cup {<<>>}
           Own == {<<>>, <<Piece("formerSession"), Piece("words")>>}
           label == <<Piece("label")>>
           all == {label \o echo \o own : echo \in Echo, own \in Own}
<1>1. ASSUME NEW e \in echoes, Len(e) # 1
      PROVE  e \in Seq(Pieces) /\ Tagged(e, section)
  <2>1. PICK i \in DOMAIN p, j \in DOMAIN p : e = SubSeq(p, i, j)
    OBVIOUS
  <2> HIDE DEF p, echoes
  <2>2. Len(SubSeq(p, i, j)) # 1
    BY <1>1, <2>1
  <2> QED
    BY <2>1, <2>2, EchoTagged DEF p
<1>2. \A o \in Own : o \in Seq(Pieces) /\ Tagged(o, section)
  BY EmptyTagged, TwoTagged DEF PieceKinds
<1>3. label \in Seq(Pieces) /\ Tagged(label, section)
  BY OneTagged DEF PieceKinds
<1>4. words \in all
  <2>1. ModelWords(shown) = all
    BY DEF ModelWords
  <2> HIDE DEF all
  <2> QED
    BY <2>1
<1> HIDE DEF echoes
<1>5. \A e \in Echo : e \in Seq(Pieces) /\ Tagged(e, section)
  BY <1>1, EmptyTagged
<1> HIDE DEF Echo, Own, label
<1>6. PICK e \in Echo, o \in Own : words = label \o e \o o
  BY <1>4
<1> HIDE DEF all
<1> QED
  BY <1>2, <1>3, <1>5, <1>6, ThreeTagged

\* What of a model's words is told, when the sections shown hold a history.
LEMMA PresentedIs ==
  ASSUME NEW shown, NEW words \in ModelWords(shown)
  PROVE  LET body == ReplyBody(words, shown)
         IN  /\ body \in Seq(Pieces) /\ body # <<>> /\ Clean(body)
             /\ Head(body) # Piece("label")
             /\ "conversation_history" \in shown =>
                  Piece("formerSession") \notin Range(body)
<1> DEFINE safe == Sanitized(words)
           now == ThisSession(safe)
<1>1. safe \in Seq(Pieces) /\ safe # <<>> /\ Clean(safe)
  BY WordsTagged, SanitizedClean
<1>2. /\ now \in Seq(Pieces) /\ now # <<>> /\ Clean(now)
      /\ Piece("formerSession") \notin Range(now)
  BY <1>1, ThisSessionClean
<1>3. ReplyBody(words, shown) =
        IF "conversation_history" \in shown THEN Unlabelled(now)
        ELSE Unlabelled(safe)
  BY DEF ReplyBody, Presented
<1> HIDE DEF safe, now
<1>4. Piece("formerSession") # Piece("nothingSaid")
  BY DEF Piece
<1>5. CASE "conversation_history" \in shown
  BY <1>2, <1>3, <1>4, <1>5, UnlabelledClean
<1>6. CASE "conversation_history" \notin shown
  BY <1>1, <1>3, <1>6, UnlabelledClean
<1> QED
  BY <1>5, <1>6

-----------------------------------------------------------------------------
(* The provider that synthesizes what was retrieved.                       *)

LEMMA RankIsNat == \A h \in Health : Rank[h] \in Nat
BY DEF Health, Rank

\* Best chooses a candidate that none is healthier than.
LEMMA BestIs ==
  ASSUME NEW C \in SUBSET Provider, C # {}, NEW h \in [Provider -> Health]
  PROVE  /\ Best(C, h) \in C
         /\ \A q \in C : Rank[h[Best(C, h)]] <= Rank[h[q]]
<1> DEFINE r(p) == Rank[h[p]]
           position == [p \in C |-> CHOOSE i \in DOMAIN ProviderOrder :
                                      ProviderOrder[i] = p]
           first(p) == \A q \in C : \/ r(p) < r(q)
                                    \/ r(p) = r(q) /\ position[p] <= position[q]
<1>1. \A p \in C : r(p) \in Nat
  BY RankIsNat
<1>2. \A p \in C : position[p] \in Nat
  <2>1. DOMAIN ProviderOrder \subseteq Nat
    BY RouteAssumption, LenProperties
  <2>2. \A p \in C : \E i \in DOMAIN ProviderOrder : ProviderOrder[i] = p
    BY DEF Provider, Range
  <2> QED
    BY <2>1, <2>2
<1>3. Best(C, h) = CHOOSE p \in C : first(p)
  BY DEF Best
<1> HIDE DEF r, position
<1>4. PICK p \in C : \A q \in C : r(p) <= r(q)
  <2> DEFINE ranks == {r(q) : q \in C}
  <2>1. ranks \in SUBSET Nat /\ ranks # {}
    BY <1>1
  <2> HIDE DEF ranks
  <2>2. PICK m \in ranks : \A k \in ranks : m <= k
    BY <2>1, Least
  <2> QED
    BY <2>2 DEF ranks
<1>5. PICK b \in C : r(b) = r(p) /\ \A q \in C : r(q) = r(p) =>
                                      position[b] <= position[q]
  <2> DEFINE places == {position[q] : q \in {c \in C : r(c) = r(p)}}
  <2>1. places \in SUBSET Nat /\ places # {}
    BY <1>2
  <2> HIDE DEF places
  <2>2. PICK m \in places : \A k \in places : m <= k
    BY <2>1, Least
  <2> QED
    BY <2>2 DEF places
<1>6. first(b)
  BY <1>1, <1>4, <1>5
<1>7. Best(C, h) \in C /\ first(Best(C, h))
  BY <1>3, <1>6
<1>8. \A q \in C : r(Best(C, h)) <= r(q)
  BY <1>1, <1>7
<1> QED
  BY <1>7, <1>8 DEF r

-----------------------------------------------------------------------------
(* What a search returns.                                                  *)

\* What is picked comes from the positions, and all of it.
LEMMA PickedFrom ==
  ASSUME NEW E, NEW seq \in Seq(E), NEW S
  PROVE  /\ \A k \in DOMAIN Picked(seq, S) :
              \E i \in S \cap DOMAIN seq : Picked(seq, S)[k] = seq[i]
         /\ \A i \in S \cap DOMAIN seq :
              \E k \in DOMAIN Picked(seq, S) : Picked(seq, S)[k] = seq[i]
<1> DEFINE T == S \cap DOMAIN seq
           p == Positions(seq, S)
           left == Picked(seq, S)
<1>1. Len(seq) \in Nat /\ DOMAIN seq = 1..Len(seq)
  BY LenProperties
<1>2. /\ Cardinality(T) \in Nat /\ p \in [1..Cardinality(T) -> T]
      /\ \A i \in T : Cardinality(T \cap 1..i) \in 1..Cardinality(T)
                      /\ p[Cardinality(T \cap 1..i)] = i
  BY <1>1, PositionsOf
<1>3. /\ left \in Seq(E) /\ Len(left) = Cardinality(T)
      /\ \A k \in 1..Cardinality(T) : left[k] = seq[p[k]]
  BY PickedIs
<1>4. DOMAIN left = 1..Cardinality(T)
  BY <1>3, LenProperties
<1> HIDE DEF T, p, left
<1>5. \A k \in DOMAIN left : \E i \in T : left[k] = seq[i]
  BY <1>2, <1>3, <1>4
<1>6. ASSUME NEW i \in T
      PROVE  \E k \in DOMAIN left : left[k] = seq[i]
  <2> DEFINE k == Cardinality(T \cap 1..i)
  <2>1. k \in DOMAIN left /\ p[k] = i
    BY <1>2, <1>4
  <2> HIDE DEF k
  <2>2. left[k] = seq[i]
    BY <1>3, <1>4, <2>1
  <2> QED
    BY <2>1, <2>2
<1> QED
  BY <1>5, <1>6 DEF T, left

\* The first of a sequence.
LEMMA FirstOf ==
  ASSUME NEW E, NEW seq \in Seq(E), NEW m \in Nat
  PROVE  LET few == [k \in {i \in DOMAIN seq : i <= m} |-> seq[k]]
         IN  few \in Seq(E) /\ Len(few) <= m
<1>1. /\ Len(seq) \in Nat /\ DOMAIN seq = 1..Len(seq)
      /\ \A i \in 1..Len(seq) : seq[i] \in E
  BY LenProperties, ElementOfSeq
<1>2. PICK n \in Nat : n <= m /\ {i \in DOMAIN seq : i <= m} = 1..n
                       /\ n <= Len(seq)
  <2>1. CASE Len(seq) <= m
    <3>1. {i \in DOMAIN seq : i <= m} = 1..Len(seq)
      BY <1>1, <2>1
    <3> QED
      BY <1>1, <2>1, <3>1
  <2>2. CASE ~ (Len(seq) <= m)
    <3>1. {i \in DOMAIN seq : i <= m} = 1..m
      BY <1>1, <2>2
    <3> QED
      BY <1>1, <2>2, <3>1
  <2> QED
    BY <2>1, <2>2
<1> DEFINE few == [k \in 1..n |-> seq[k]]
<1>3. few \in [1..n -> E]
  BY <1>1, <1>2
<1>4. few \in Seq(E) /\ Len(few) = n
  BY <1>2, <1>3, ListOf
<1> QED
  BY <1>2, <1>4

Candidate == [url : Url, score : Nat]

LEMMA RankedIs ==
  ASSUME NEW documents \in Seq(Candidate), NEW terms \in BOOLEAN
  PROVE  /\ Ranked(documents, terms) \in Seq(Document)
         /\ Len(Ranked(documents, terms)) <= MaxResults
<1> DEFINE relevant == {i \in DOMAIN documents :
                          ~terms \/ documents[i].score > 0}
           before(i, j) ==
             \/ documents[i].score > documents[j].score
             \/ documents[i].score = documents[j].score /\ i <= j
           R == {p \in relevant \X relevant : before(p[1], p[2])}
           order == InOrder(relevant, R)
           top == {i \in DOMAIN order : i <= MaxResults}
<1>1. /\ Len(documents) \in Nat /\ DOMAIN documents = 1..Len(documents)
      /\ \A i \in 1..Len(documents) : documents[i] \in Candidate
  BY LenProperties, ElementOfSeq
<1>2. IsFiniteSet(relevant) /\ Cardinality(relevant) \in Nat
  <2>1. relevant \in SUBSET (1..Len(documents))
        /\ IsFiniteSet(1..Len(documents))
    BY <1>1, FS_Interval
  <2> HIDE DEF relevant
  <2> QED
    BY <2>1, FS_Subset, FS_CardinalityType
<1>3. \A i \in relevant : i \in Nat /\ documents[i].score \in Nat
                          /\ documents[i].url \in Url
  BY <1>1 DEF Candidate
<1>4. Ranked(documents, terms) = [k \in top |-> documents[order[k]].url]
  BY DEF Ranked
<1> HIDE DEF relevant
<1>5. \A x, y \in relevant : (<<x, y>> \in R) <=> before(x, y)
  OBVIOUS
<1> HIDE DEF R
<1>6. order \in [1..Cardinality(relevant) -> relevant]
  <2>1. \A x \in relevant : <<x, x>> \in R
    BY <1>3, <1>5
  <2>2. ASSUME NEW x \in relevant, NEW y \in relevant
        PROVE  <<x, y>> \in R \/ <<y, x>> \in R
    <3>1. /\ x \in Nat /\ y \in Nat
          /\ documents[x].score \in Nat /\ documents[y].score \in Nat
      BY <1>3
    <3>2. before(x, y) \/ before(y, x)
      BY <3>1
    <3> HIDE DEF before
    <3> QED
      BY <1>5, <3>2
  <2>3. \A x, y \in relevant : <<x, y>> \in R /\ <<y, x>> \in R => x = y
    BY <1>3, <1>5
  <2>4. \A x, y, z \in relevant :
          <<x, y>> \in R /\ <<y, z>> \in R => <<x, z>> \in R
    <3> SUFFICES ASSUME NEW x \in relevant, NEW y \in relevant,
                        NEW z \in relevant, before(x, y), before(y, z)
                 PROVE  before(x, z)
      BY <1>5
    <3>1. /\ x \in Nat /\ y \in Nat /\ z \in Nat
          /\ documents[x].score \in Nat /\ documents[y].score \in Nat
          /\ documents[z].score \in Nat
      BY <1>3
    <3> QED
      BY <3>1
  <2> HIDE DEF before
  <2> QED
    BY <1>2, <2>1, <2>2, <2>3, <2>4, InOrderMembers
<1> HIDE DEF order
<1> DEFINE urls == [k \in 1..Cardinality(relevant) |->
                      documents[order[k]].url]
<1>7. urls \in [1..Cardinality(relevant) -> Url]
  BY <1>3, <1>6
<1>8. urls \in Seq(Url) /\ DOMAIN urls = DOMAIN order
  BY <1>2, <1>6, <1>7, ListOf
<1>9. \A k \in DOMAIN order : urls[k] = documents[order[k]].url
  BY <1>6
<1> HIDE DEF urls
<1>10. Ranked(documents, terms) =
         [k \in {i \in DOMAIN urls : i <= MaxResults} |-> urls[k]]
  BY <1>4, <1>8, <1>9
<1> QED
  BY <1>8, <1>10, FirstOf, ResultAssumption DEF Document

LEMMA DuckDuckGoIs ==
  ASSUME NEW page \in Page
  PROVE  DuckDuckGo(page).documents \in Seq(Candidate)
<1> DEFINE snippet(i) == IF i \in DOMAIN page.snippets THEN page.snippets[i]
                         ELSE 0
           links == [i \in DOMAIN page.links |->
                       [url |-> page.links[i].url,
                        score |-> page.links[i].weight + snippet(i)]]
           S == {i \in DOMAIN links : links[i].url # NoUrl}
           usable == Picked(links, S)
           few == [k \in {i \in DOMAIN usable : i <= CandidateLimit} |->
                     usable[k]]
           E == [url : Url \cup {NoUrl}, score : Nat]
           n == Len(page.links)
<1>1. page.links \in Seq([url : Url \cup {NoUrl}, weight : Nat])
      /\ page.snippets \in Seq(Nat)
  BY DEF Page
<1>2. n \in Nat /\ DOMAIN page.links = 1..n
      /\ \A i \in 1..n :
           page.links[i] \in [url : Url \cup {NoUrl}, weight : Nat]
  BY <1>1, LenProperties, ElementOfSeq
<1>3. \A i : snippet(i) \in Nat
  BY <1>1, LenProperties, ElementOfSeq
<1> HIDE DEF snippet, n
<1>4. links \in [1..n -> E]
  BY <1>2, <1>3
<1>5. links \in Seq(E)
  <2> HIDE DEF links, E
  <2> QED
    BY <1>2, <1>4, ListOf
<1>6. DuckDuckGo(page).documents \in {<<>>, few}
  BY DEF DuckDuckGo, Raised, Returned, snippet
<1> HIDE DEF links
<1>7. usable \in Seq(E) /\ \A k \in DOMAIN usable : usable[k] \in Candidate
  <2>1. usable \in Seq(E)
    BY <1>5, PickedIs
  <2>2. \A k \in DOMAIN usable : \E i \in S \cap DOMAIN links :
          usable[k] = links[i]
    <3> HIDE DEF S
    <3> QED
      BY <1>5, PickedFrom
  <2>3. \A i \in S \cap DOMAIN links : links[i] \in Candidate
    <3>1. \A i \in DOMAIN links : links[i] \in E
      BY <1>4
    <3> QED
      BY <3>1 DEF Candidate
  <2> QED
    BY <2>1, <2>2, <2>3
<1> HIDE DEF usable, E
<1>8. usable \in Seq(Candidate)
  <2>1. Len(usable) \in Nat /\ DOMAIN usable = 1..Len(usable)
        /\ usable \in [1..Len(usable) -> E]
    BY <1>7, LenProperties
  <2>2. usable \in [1..Len(usable) -> Candidate]
    BY <1>7, <2>1
  <2> QED
    BY <2>1, <2>2, ListOf
<1>9. few \in Seq(Candidate)
  <2>1. CandidateLimit \in Nat
    BY ResultAssumption DEF CandidateLimit
  <2> QED
    BY <1>8, <2>1, FirstOf
<1> HIDE DEF few
<1> QED
  BY <1>6, <1>9, EmptySeq

LEMMA WikipediaIs ==
  ASSUME NEW finding \in Finding, NEW extract \in Extracts
  PROVE  Wikipedia(finding, extract).documents \in Seq(Candidate)
<1> DEFINE text_(r) ==
             IF extract.status = "ok" /\ r.url \in DOMAIN extract.texts
               THEN extract.texts[r.url] ELSE r.snippet
           item(k) == [url |-> finding.results[k].url,
                       score |-> finding.results[k].weight
                                   + text_(finding.results[k])]
           list == [k \in DOMAIN finding.results |-> item(k)]
           Result == [url : Url, weight : Nat, snippet : Nat]
           n == Len(finding.results)
<1>1. finding.results \in Seq(Result)
  BY DEF Finding
<1>2. n \in Nat /\ DOMAIN finding.results = 1..n
      /\ \A k \in 1..n : finding.results[k] \in Result
  BY <1>1, LenProperties, ElementOfSeq
<1>3. \A r \in Result : text_(r) \in Nat
  BY TurnAssumption
<1> HIDE DEF n, text_
<1>4. \A k \in 1..n : item(k) \in Candidate
  BY <1>2, <1>3 DEF Candidate
<1>5. list \in [1..n -> Candidate]
  <2> HIDE DEF item
  <2> QED
    BY <1>2, <1>4
<1>6. list \in Seq(Candidate)
  <2> HIDE DEF list
  <2> QED
    BY <1>2, <1>5, ListOf
<1>7. Wikipedia(finding, extract).documents \in {<<>>, list}
  BY DEF Wikipedia, Raised, Returned, text_
<1> HIDE DEF list
<1> QED
  BY <1>6, <1>7, EmptySeq

\* What a search returns: a success holds documents, few enough.
LEMMA SearchIs ==
  ASSUME NEW result \in SearchResults \cup {NoDocuments}
  PROVE  /\ result.success \in BOOLEAN
         /\ result.documents \in Seq(Document)
         /\ Len(result.documents) <= MaxResults
         /\ result.success => result.documents # <<>>
<1>1. NoDocuments.success = FALSE /\ NoDocuments.documents = <<>>
  BY DEF NoDocuments
<1>2. <<>> \in Seq(Document) /\ Len(<<>>) <= MaxResults
  BY EmptySeq, ResultAssumption
<1>3. CASE result = NoDocuments
  BY <1>1, <1>2, <1>3
<1>4. CASE result # NoDocuments
  <2>1. PICK terms \in BOOLEAN, page \in Pages, finding \in Findings,
             extract \in Extracts :
          result = Search(terms, page, finding, extract)
    BY <1>4 DEF SearchResults
  <2>2. page \in Page /\ finding \in Finding
    BY TurnAssumption
  <2> DEFINE answers == <<DuckDuckGo(page), Wikipedia(finding, extract)>>
             ranked == [i \in DOMAIN answers |->
                          Ranked(answers[i].documents, terms)]
             useful == {i \in DOMAIN answers :
                          ~answers[i].raised /\ ranked[i] # <<>>}
             first == CHOOSE i \in useful : \A j \in useful : i <= j
  <2>3. result = IF useful = {} THEN NoDocuments
                 ELSE [success |-> TRUE, documents |-> ranked[first]]
    BY <2>1 DEF Search
  <2>4. /\ DOMAIN answers = {1, 2}
        /\ answers[1] = DuckDuckGo(page)
        /\ answers[2] = Wikipedia(finding, extract)
    OBVIOUS
  <2> HIDE DEF answers
  <2>5. \A i \in DOMAIN answers :
          ranked[i] \in Seq(Document) /\ Len(ranked[i]) <= MaxResults
    BY <2>2, <2>4, DuckDuckGoIs, WikipediaIs, RankedIs
  <2> HIDE DEF ranked
  <2>6. first \in useful
    <3>1. useful # {} /\ useful \in SUBSET Nat
      BY <1>4, <2>3, <2>4
    <3> HIDE DEF useful
    <3> QED
      BY <3>1, Least
  <2>7. first \in DOMAIN answers /\ ranked[first] # <<>>
    BY <2>6
  <2>8. result.success = TRUE /\ result.documents = ranked[first]
    <3> HIDE DEF useful, first
    <3> QED
      BY <1>4, <2>3
  <2> HIDE DEF useful, first
  <2> QED
    BY <2>5, <2>7, <2>8
<1> QED
  BY <1>3, <1>4

-----------------------------------------------------------------------------
(* The inductive invariant.                                                *)

\* An entry of the transcript.
Line == [role : {"user", "assistant"}, turn : Nat, size : Nat \ {0},
         exposed : BOOLEAN]

IsResult(r) == /\ r.success \in BOOLEAN /\ r.documents \in Seq(Document)
               /\ Len(r.documents) <= MaxResults
               /\ r.success => r.documents # <<>>

\* What the variables hold besides what TypeOK says of them: a turn that is
\* not answered has the user's words, no answer and no provider called, and
\* the evidence the model is shown is all that was retrieved.
Shape ==
  /\ transcript \in Seq(Line)
  /\ Len(parts) \in Nat /\ DOMAIN parts = 1..Len(parts)
  /\ stage # "answered" => turn \in 1..MaxTurns /\ text \in Message
  /\ \A i \in DOMAIN found : IsResult(found[i])
  /\ \A k \in DOMAIN facts : facts[k].provenance = "user_asserted"
  /\ stage # "answered" => called = {}
  /\ stage \in {"received", "searching", "prompted"} => answer = NoAnswer
  /\ answer.path = "model" => answer.model
  /\ stage = "prompted" \/ answer.model => prompt.evidence = RetrievedEvidence

TypeInv == TypeOK /\ Shape

\* A reply follows the words it answers, and words follow earlier turns.
Ordered(t) ==
  /\ \A i \in 2..Len(t) : t[i].role = "assistant" =>
       t[i - 1].role = "user" /\ t[i - 1].turn = t[i].turn
  /\ \A i \in 2..Len(t) : t[i].role = "user" => t[i - 1].turn < t[i].turn

\* Words are without a reply exactly in the turns of U, and, when the model
\* is being asked, at the end.
Replied(t, U, asked) ==
  \A i \in 1..Len(t) : t[i].role = "user" =>
    ((i = Len(t) \/ t[i + 1].role = "user")
       <=> (t[i].turn \in U \/ (asked /\ i = Len(t))))

ToldPaths == {"greeting", "status", "model", "failure", "exception"}

\* TranscriptFaithful, and what the turn under way has left so far: nothing
\* before the model is asked, and then the user's words, last.
MemoryInv ==
  /\ Ordered(transcript)
  /\ Replied(transcript, unanswered, stage = "prompted")
  /\ stage \in {"received", "searching"} =>
       \A i \in 1..Len(transcript) : transcript[i].turn < turn
  /\ stage \in {"received", "searching", "prompted"} => turn \notin unanswered
  /\ stage = "prompted" =>
       /\ Len(transcript) # 0 /\ transcript[Len(transcript)].role = "user"
       /\ transcript[Len(transcript)].turn = turn
       /\ \A i \in 1..(Len(transcript) - 1) : transcript[i].turn < turn
  /\ stage = "answered" =>
       ((\E i \in 1..Len(transcript) : transcript[i].turn = turn)
          <=> answer.path \in ToldPaths)

\* Past the guard of actions none is left to be done.
GuardedInv == stage \in {"searching", "prompted"} \/ answer.model
                => \A i \in DOMAIN parts : ~IsAction(i)

IInv == TypeInv /\ MemoryInv /\ GuardedInv


\* The steps that end a turn without a model, leaving nothing of it.
Ends ==
  /\ stage \in {"received", "searching"} /\ stage' = "answered"
  /\ answer'.path \in {"offline", "pending", "execution", "action",
                       "freshness", "verification"}
  /\ ~answer'.model /\ answer'.performed \in BOOLEAN
  /\ answer'.status = "blocked" => ~answer'.performed
  /\ answer'.sources = <<>> /\ answer'.evidence = {} /\ answer'.claims = {}
  /\ answer'.performed => answer'.path \in {"pending", "execution"}
  /\ answer'.performed /\ answer'.path = "execution" =>
       \E i \in DOMAIN parts : Executable(ActionRequested(parts[i]))
  /\ pending' \in BOOLEAN
  /\ pending' /\ ~pending =>
       \E i \in DOMAIN parts : Executable(ActionRequested(parts[i]))
  /\ UNCHANGED <<rt, turn, text, parts, found, memory, outside, prompt, called,
                 unanswered>>

\* Those that end it with an exchange of words.
Tells ==
  /\ stage \in {"received", "searching"} /\ stage' = "answered"
  /\ transcript' = Exchange(<<>>)
  /\ \/ answer' = Response("success", "greeting")
     \/ answer' = [Response("success", "status") EXCEPT !.claims = Claims]
  /\ UNCHANGED <<rt, turn, text, parts, found, facts, pending, outside, prompt,
                 called, unanswered>>

\* A search of the turn and what it returns.
Looks == \E result \in SearchResults \cup {NoDocuments} :
           Searching /\ Searches(result)

LEMMA BridgeResults ==
  ASSUME NEW result \in BridgeResult
  PROVE  /\ result.performed \in BOOLEAN
         /\ result.status = "blocked" => ~result.performed
<1>1. CASE \/ result = [status |-> "success", performed |-> TRUE]
           \/ result = [status |-> "error", performed |-> TRUE]
  <2>1. result.performed = TRUE /\ result.status # "blocked"
    BY <1>1
  <2> QED
    BY <2>1
<1>2. CASE \/ result = [status |-> "success", performed |-> FALSE]
           \/ result = [status |-> "error", performed |-> FALSE]
           \/ result = [status |-> "blocked", performed |-> FALSE]
           \/ result = [status |-> "clarification_required",
                        performed |-> FALSE]
  <2>1. result.performed = FALSE
    BY <1>2
  <2> QED
    BY <2>1
<1> QED
  BY <1>1, <1>2 DEF BridgeResult

LEMMA EndsIs ==
  ASSUME TypeOK,
         WithoutBrain \/ ResumePending \/ GuardActions \/ GuardFreshness
           \/ GuardVerification
  PROVE  Ends
<1>1. CASE WithoutBrain
  BY <1>1 DEF WithoutBrain, Ends, Answered, Response, TypeOK
<1>2. CASE ResumePending
  <2>1. PICK result \in BridgeResult :
          /\ pending' = (result.status = "clarification_required")
          /\ Answered([Response(result.status, "pending")
                         EXCEPT !.performed = result.performed])
    BY <1>2 DEF ResumePending
  <2>2. /\ pending /\ stage = "received"
        /\ UNCHANGED <<rt, turn, text, parts, found, memory, outside, prompt,
                       called, unanswered>>
    BY <1>2 DEF ResumePending, Talking
  <2>3. result.performed \in BOOLEAN
        /\ (result.status = "blocked" => ~result.performed)
    BY BridgeResults
  <2> QED
    BY <2>1, <2>2, <2>3 DEF Ends, Answered, Response
<1>3. CASE GuardActions
  <2>1. PICK i \in DOMAIN parts : ExecuteAction(i) \/ RefuseAction(i)
    BY <1>3 DEF GuardActions
  <2>2. CASE ExecuteAction(i)
    <3>1. PICK result \in BridgeResult :
            /\ pending' = (result.status = "clarification_required")
            /\ Answered([Response(result.status, "execution")
                           EXCEPT !.performed = result.performed])
      BY <2>2 DEF ExecuteAction
    <3>2. /\ Executable(ActionRequested(parts[i])) /\ stage = "received"
          /\ UNCHANGED <<rt, turn, text, parts, found, memory, outside, prompt,
                         called, unanswered>>
      BY <2>2 DEF ExecuteAction, Asking, Talking
    <3>3. result.performed \in BOOLEAN
          /\ (result.status = "blocked" => ~result.performed)
      BY BridgeResults
    <3>4. \E k \in DOMAIN parts : Executable(ActionRequested(parts[k]))
      BY <3>2
    <3> QED
      BY <3>1, <3>2, <3>3, <3>4 DEF Ends, Answered, Response
  <2>3. CASE RefuseAction(i)
    BY <2>3 DEF RefuseAction, Asking, Talking, Ends, Answered, Response, TypeOK
  <2> QED
    BY <2>1, <2>2, <2>3
<1>4. CASE GuardFreshness
  BY <1>4 DEF GuardFreshness, Searched, Ends, Answered, Response, TypeOK
<1>5. CASE GuardVerification
  BY <1>5 DEF GuardVerification, Searched, Ends, Answered, Response, TypeOK
<1> QED
  BY <1>1, <1>2, <1>3, <1>4, <1>5

LEMMA TellsIs ==
  ASSUME Greet \/ AnswerStatus
  PROVE  Tells
<1>1. CASE Greet
  BY <1>1 DEF Greet, Talking, Tells, Answered
<1>2. CASE AnswerStatus
  BY <1>2 DEF AnswerStatus, Guarded, Searched, Tells, Answered
<1> QED
  BY <1>1, <1>2

\* The kinds of steps there are.
LEMMA Moves ==
  ASSUME TypeOK, [Next]_vars
  PROVE  \/ \E words \in Message : Receive(words)
         \/ Shutdown \/ Ends \/ Tells \/ PassActions \/ Looks \/ PrepareModel
         \/ ModelFails \/ ModelAnswers \/ UNCHANGED vars
<1>1. CASE Step
  <2>1. CASE SearchFails
    BY <2>1 DEF SearchFails, Looks
  <2>2. CASE SearchFinds
    BY <2>2 DEF SearchFinds, Looks
  <2> QED
    BY <1>1, <2>1, <2>2, EndsIs, TellsIs DEF Step
<1> QED
  BY <1>1 DEF Next


-----------------------------------------------------------------------------
(* What the steps compute.                                                 *)

\* The snapshot says of an action's capability whether a tool is bound to it.
LEMMA SnapshotIs ==
  ASSUME NEW name \in ActionCapabilities
  PROVE  /\ name \in DOMAIN SnapshotNow
         /\ SnapshotNow[name] = ActionTruth(rt, Tools, name)
<1>1. name \notin RuntimeCapabilities
  BY DEF ActionCapabilities, RuntimeCapabilities
<1>2. name \notin Provider
  BY RouteAssumption
<1> QED
  BY <1>1, <1>2 DEF SnapshotNow, Snapshot

LEMMA ExecutableIs ==
  ASSUME NEW action, Executable(action)
  PROVE  /\ rt.execution /\ action.category # "none"
         /\ Bound(Tools, RequiredCapability[action.category])
<1>1. action.category \in {"system", "filesystem"}
  BY DEF Executable, CanHandle
<1> DEFINE name == RequiredCapability[action.category]
<1>2. name \in ActionCapabilities
  BY <1>1 DEF RequiredCapability, ActionCapabilities
<1>3. SnapshotNow[name] = "available"
  BY DEF Executable, Available
<1> HIDE DEF name
<1>4. ActionTruth(rt, Tools, name) = "available"
  BY <1>2, <1>3, SnapshotIs
<1>5. rt.execution /\ Bound(Tools, name)
  BY <1>4 DEF ActionTruth
<1> QED
  BY <1>1, <1>5 DEF name

LEMMA SegmentsIs ==
  ASSUME NEW words \in Message
  PROVE  Len(Segments(words)) \in Nat
         /\ DOMAIN Segments(words) = 1..Len(Segments(words))
<1> DEFINE S == {i \in DOMAIN words : BeginsSegment(words, i)}
           first == Positions(words, S)
           all == Segments(words)
<1>1. words \in Seq(Clause)
  BY TurnAssumption
<1>2. Len(words) \in Nat /\ DOMAIN words = 1..Len(words)
  BY <1>1, LenProperties
<1>3. PICK n \in Nat : DOMAIN first = 1..n
  <2> HIDE DEF S
  <2> QED
    BY <1>2, PositionsOf
<1>4. DOMAIN all = DOMAIN first /\ all = [k \in DOMAIN all |-> all[k]]
  BY DEF Segments
<1> HIDE DEF first, all
<1>5. all \in [1..n -> {all[k] : k \in 1..n}]
  BY <1>3, <1>4
<1>6. Len(all) = n
  BY <1>5, ListOf
<1> QED
  BY <1>3, <1>4, <1>6 DEF all

\* What was retrieved is all that the searches of the turn found.
LEMMA RetrievedIs ==
  ASSUME Shape
  PROVE  /\ \A i : UrlsOf(i) \in Seq(Document)
         /\ RetrievedEvidence \in Seq(Document)
         /\ Range(RetrievedEvidence) =
              UNION {Range(UrlsOf(i)) : i \in DOMAIN parts}
<1>1. \A i : UrlsOf(i) \in Seq(Document)
  <2>1. <<>> \in Seq(Document)
    BY EmptySeq
  <2>2. \A i \in DOMAIN found : found[i].documents \in Seq(Document)
    BY DEF Shape, IsResult
  <2> QED
    BY <2>1, <2>2 DEF UrlsOf, RetrievalSucceeded
<1> DEFINE all == [i \in DOMAIN parts |-> UrlsOf(i)]
           n == Len(parts)
<1>2. n \in Nat /\ DOMAIN parts = 1..n
  BY DEF Shape
<1>3. RetrievedEvidence = FlattenSeq(all)
  BY DEF RetrievedEvidence
<1>4. \A i \in DOMAIN parts : all[i] = UrlsOf(i)
  OBVIOUS
<1>5. all \in [1..n -> Seq(Document)]
  BY <1>1, <1>2
<1> HIDE DEF n
<1>6. all \in Seq(Seq(Document)) /\ DOMAIN all = DOMAIN parts
  <2>1. DOMAIN all = DOMAIN parts
    OBVIOUS
  <2> HIDE DEF all
  <2> QED
    BY <1>2, <1>5, <2>1, ListOf
<1> HIDE DEF all
<1>7. /\ FlattenSeq(all) \in Seq(Document)
      /\ Range(FlattenSeq(all)) = UNION {Range(all[i]) : i \in DOMAIN all}
  BY <1>6, FlattenRange
<1>8. UNION {Range(all[i]) : i \in DOMAIN all} =
        UNION {Range(UrlsOf(i)) : i \in DOMAIN parts}
  BY <1>4, <1>6
<1> QED
  BY <1>1, <1>3, <1>7, <1>8

LEMMA ListedIs ==
  ASSUME RetrievedEvidence \in Seq(Document)
  PROVE  ListedSources \in Seq(Document)
<1> DEFINE e == RetrievedEvidence
           S == {i \in DOMAIN e : \A j \in 1..(i - 1) : e[j] # e[i]}
<1>1. ListedSources = Picked(e, S)
  BY DEF ListedSources
<1>2. e \in Seq(Document)
  OBVIOUS
<1> HIDE DEF e, S
<1> QED
  BY <1>1, <1>2, PickedIs

\* Entries of the turns up to the n-th, and what remembering one does.
Lines(t, n) == /\ t \in Seq(Line) /\ Len(t) <= MaxEntries
               /\ \A i \in 1..Len(t) : t[i].turn \in 1..n

LEMMA LinesNow ==
  ASSUME NEW t \in Seq(Line), NEW n
  PROVE  Lines(t, n) <=>
           /\ Len(t) <= MaxEntries
           /\ \A e \in Range(t) : e.turn \in 1..n /\ e.size \in Nat \ {0}
<1>1. /\ DOMAIN t = 1..Len(t) /\ \A i \in 1..Len(t) : t[i] \in Line
  BY LenProperties, ElementOfSeq
<1>2. Range(t) = {t[i] : i \in 1..Len(t)}
  BY <1>1 DEF Range
<1> QED
  BY <1>1, <1>2 DEF Lines, Line

LEMMA RememberLines ==
  ASSUME NEW n, NEW t, Lines(t, n), NEW e \in Line, e.turn \in 1..n
  PROVE  Lines(Remember(t, e), n)
<1> DEFINE new == Remember(t, e)
           drop == Len(t) + 1 - Len(new)
<1>1. /\ t \in Seq(Line) /\ Len(t) <= MaxEntries /\ Len(t) \in Nat
      /\ \A i \in 1..Len(t) : t[i].turn \in 1..n
  BY LenProperties DEF Lines
<1>2. /\ new \in Seq(Line) /\ Len(new) \in 1..MaxEntries /\ drop \in {0, 1}
      /\ new[Len(new)] = e
      /\ \A i \in 1..(Len(new) - 1) : new[i] = t[i + drop]
  BY <1>1, RememberIs
<1>3. MaxEntries \in Nat
  BY MemoryAssumption
<1> HIDE DEF new
<1>4. ASSUME NEW i \in 1..Len(new)
      PROVE  new[i].turn \in 1..n
  <2>1. CASE i = Len(new)
    BY <1>2, <2>1
  <2>2. CASE i # Len(new)
    <3>1. i \in 1..(Len(new) - 1) /\ i + drop \in 1..Len(t)
      BY <1>1, <1>2, <1>3, <2>2
    <3> QED
      BY <1>1, <1>2, <3>1
  <2> QED
    BY <2>1, <2>2
<1>5. Len(new) <= MaxEntries
  BY <1>2, <1>3
<1> QED
  BY <1>2, <1>4, <1>5 DEF Lines, new

\* What a turn puts in the transcript.
LEMMA EntriesAre ==
  ASSUME TypeInv, stage # "answered"
  PROVE  /\ UserEntry(turn) \in Line /\ UserEntry(turn).turn = turn
         /\ UserEntry(turn).role = "user" /\ UserEntry(turn).exposed = FALSE
         /\ turn \in 1..turn /\ turn \in Nat
         /\ \A body, sources : Len(sources) \in Nat =>
              /\ ReplyEntry(turn, body, sources) \in Line
              /\ ReplyEntry(turn, body, sources).turn = turn
              /\ ReplyEntry(turn, body, sources).role = "assistant"
<1>1. turn \in 1..MaxTurns /\ MaxTurns \in Nat /\ text \in Message
  BY TurnAssumption DEF TypeInv, Shape
<1>2. text \in Seq(Clause) /\ text # <<>>
  BY <1>1, TurnAssumption
<1>3. Len(text) \in Nat \ {0}
  BY <1>2, LenProperties, EmptySeq
<1>4. turn \in 1..turn /\ turn \in Nat
  BY <1>1
<1>5. /\ UserEntry(turn) \in Line /\ UserEntry(turn).turn = turn
      /\ UserEntry(turn).role = "user" /\ UserEntry(turn).exposed = FALSE
  BY <1>3, <1>4 DEF UserEntry, Line
<1>6. ASSUME NEW body, NEW sources, Len(sources) \in Nat
      PROVE  /\ ReplyEntry(turn, body, sources) \in Line
             /\ ReplyEntry(turn, body, sources).turn = turn
             /\ ReplyEntry(turn, body, sources).role = "assistant"
  <2> DEFINE ex == \E i \in DOMAIN body : body[i].kind = "inner"
  <2>1. ex \in BOOLEAN
    OBVIOUS
  <2>2. ReplyEntry(turn, body, sources) =
          [role |-> "assistant", turn |-> turn, size |-> 1 + Len(sources),
           exposed |-> ex]
    BY DEF ReplyEntry
  <2>3. 1 + Len(sources) \in Nat \ {0}
    BY <1>6
  <2> HIDE DEF ex
  <2> QED
    BY <1>4, <2>1, <2>2, <2>3 DEF Line
<1> QED
  BY <1>4, <1>5, <1>6

LEMMA ExchangeIs ==
  ASSUME TypeInv, stage # "answered"
  PROVE  Lines(transcript, turn) /\ Lines(Exchange(<<>>), turn)
<1>1. Lines(transcript, turn)
  BY LinesNow DEF TypeInv, TypeOK, Shape
<1>2. Lines(Remember(transcript, UserEntry(turn)), turn)
  BY <1>1, EntriesAre, RememberLines
<1>3. /\ ReplyEntry(turn, <<>>, <<>>) \in Line
      /\ ReplyEntry(turn, <<>>, <<>>).turn \in 1..turn
  <2>1. Len(<<>>) \in Nat
    OBVIOUS
  <2> QED
    BY <2>1, EntriesAre
<1> QED
  BY <1>1, <1>2, <1>3, RememberLines DEF Exchange

LEMMA ThinkIs ==
  ASSUME TypeInv, NEW after \in Calls, Think(after)
  PROVE  /\ health' \in [Provider -> Health] /\ called' \subseteq Configured
         /\ called' = DOMAIN after
<1>1. \A p \in DOMAIN after : after[p] \in Health
  <2>1. PICK tried \in SUBSET Provider :
          after \in [tried -> {"available", "degraded", "unavailable"}]
    BY DEF Calls
  <2> QED
    BY <2>1 DEF Health
<1>2. health \in [Provider -> Health]
  BY DEF TypeInv, TypeOK
<1>3. health' = [p \in Provider |->
                   IF p \in DOMAIN after THEN after[p] ELSE health[p]]
  BY DEF Think
<1>4. health' \in [Provider -> Health]
  BY <1>1, <1>2, <1>3
<1>5. EligibleNow \subseteq Configured
  BY DEF EligibleNow, Eligible
<1>6. Synthesizer # NoProvider => Synthesizer \in Configured
  <2> DEFINE C == Eligible(Configured, health) \cap Local
  <2>1. C \in SUBSET Configured
    BY DEF Eligible
  <2>2. C \in SUBSET Provider
    BY <2>1, TurnAssumption
  <2> HIDE DEF C
  <2>3. Synthesizer # NoProvider => Synthesizer = Best(C, health)
    BY DEF Synthesizer, LocalSynthesisProvider, C
  <2>4. C = {} => Best(C, health) = NoProvider
    BY DEF Best
  <2>5. C # {} => Best(C, health) \in C
    BY <1>2, <2>2, BestIs
  <2> QED
    BY <2>1, <2>3, <2>4, <2>5
<1> QED
  BY <1>4, <1>5, <1>6 DEF Think


-----------------------------------------------------------------------------
(* The bounds of the state.                                                *)

LEMMA TypeInit ==
  ASSUME Init
  PROVE  TypeInv
<1>1. /\ stage = "answered" /\ turn = 0 /\ parts = <<>> /\ found = <<>>
      /\ transcript = <<>> /\ facts = <<>> /\ answer = NoAnswer
  BY DEF Init
<1>2. transcript \in Seq(Line) /\ Len(transcript) = 0 /\ Range(transcript) = {}
  BY <1>1, EmptySeq DEF Range
<1>3. DOMAIN parts = {} /\ DOMAIN found = {} /\ DOMAIN facts = {}
      /\ Len(parts) = 0 /\ 1..0 = {}
  BY <1>1
<1>4. NoAnswer.path = "none" /\ ~NoAnswer.model
  BY DEF NoAnswer, Response
<1>5. TypeOK
  <2>1. turn \in 0..MaxTurns /\ 0 <= MaxEntries
    BY <1>1, MemoryAssumption, TurnAssumption
  <2>2. web.attempted = FALSE /\ web.succeeded = FALSE
    BY DEF Init, NeverSearched
  <2>3. health \in [Provider -> Health]
    BY DEF Init, Health
  <2>4. /\ rt \in Instance /\ text \in Message \cup {<<>>} /\ pending = FALSE
        /\ called = {} /\ unanswered = {}
    BY DEF Init
  <2> QED
    BY <1>1, <1>2, <1>3, <2>1, <2>2, <2>3, <2>4 DEF TypeOK
<1>6. Shape
  BY <1>1, <1>2, <1>3, <1>4 DEF Shape
<1> QED
  BY <1>5, <1>6 DEF TypeInv

LEMMA TypeReceive ==
  ASSUME TypeInv, NEW words \in Message, Receive(words)
  PROVE  TypeInv'
<1>1. /\ stage = "answered" /\ turn < MaxTurns /\ stage' = "received"
      /\ turn' = turn + 1 /\ text' = words /\ parts' = Segments(words)
      /\ found' = <<>> /\ answer' = NoAnswer /\ called' = {}
      /\ UNCHANGED <<rt, memory, pending, outside, unanswered>>
  BY DEF Receive
<1>2. UNCHANGED <<transcript, facts, web, health>>
  BY <1>1 DEF memory, outside
<1>3. DOMAIN found' = {}
  BY <1>1
<1>4. NoAnswer.path = "none" /\ ~NoAnswer.model
  BY DEF NoAnswer, Response
<1>5. turn \in 0..MaxTurns /\ MaxTurns \in Nat
  BY TurnAssumption DEF TypeInv, TypeOK
<1>6. turn' \in 1..MaxTurns /\ 1..turn \subseteq 1..turn'
  BY <1>1, <1>5
<1>7. Len(parts') \in Nat /\ DOMAIN parts' = 1..Len(parts')
  BY <1>1, SegmentsIs
<1>8. TypeOK'
  BY <1>1, <1>2, <1>3, <1>6 DEF TypeInv, TypeOK
<1>9. Shape'
  BY <1>1, <1>2, <1>3, <1>4, <1>6, <1>7 DEF TypeInv, Shape
<1> QED
  BY <1>8, <1>9 DEF TypeInv

\* Steps that leave the request and what was found for it as they are.
LEMMA SameRequest ==
  ASSUME UNCHANGED <<parts, found>>
  PROVE  /\ RetrievedEvidence' = RetrievedEvidence
         /\ \A i : NeedsRetrieval(i)' <=> NeedsRetrieval(i)
         /\ \A i : RetrievalSucceeded(i)' <=> RetrievalSucceeded(i)
         /\ \A i : UrlsOf(i)' = UrlsOf(i)
BY DEF RetrievedEvidence, UrlsOf, RetrievalSucceeded, NeedsRetrieval

LEMMA TypeEnds ==
  ASSUME TypeInv, Ends
  PROVE  TypeInv'
<1>1. /\ stage' = "answered" /\ ~answer'.model /\ answer'.path # "model"
      /\ UNCHANGED <<rt, turn, text, parts, found, transcript, facts, web,
                     health, prompt, called, unanswered>>
  BY DEF Ends, memory, outside
<1>2. pending' \in BOOLEAN /\ (pending' => rt.execution)
  <2>1. pending' /\ ~pending => rt.execution
    BY ExecutableIs DEF Ends
  <2> QED
    BY <2>1 DEF Ends, TypeInv, TypeOK
<1>3. TypeOK'
  BY <1>1, <1>2, SameRequest DEF TypeInv, TypeOK
<1>4. Shape'
  BY <1>1, SameRequest DEF TypeInv, Shape
<1> QED
  BY <1>3, <1>4 DEF TypeInv

LEMMA TypeTells ==
  ASSUME TypeInv, Tells
  PROVE  TypeInv'
<1>1. /\ stage' = "answered" /\ transcript' = Exchange(<<>>)
      /\ stage # "answered"
      /\ UNCHANGED <<rt, turn, text, parts, found, facts, pending, web, health,
                     prompt, called, unanswered>>
  BY DEF Tells, outside
<1>2. ~answer'.model /\ answer'.path # "model"
  BY DEF Tells, Response
<1>3. Lines(transcript', turn)
  BY <1>1, ExchangeIs
<1>4. transcript' \in Seq(Line)
  BY <1>3 DEF Lines
<1>5. /\ Len(transcript') <= MaxEntries
      /\ \A e \in Range(transcript') : e.turn \in 1..turn
                                       /\ e.size \in Nat \ {0}
  BY <1>3, <1>4, LinesNow
<1>6. TypeOK'
  BY <1>1, <1>5, SameRequest DEF TypeInv, TypeOK
<1>7. Shape'
  BY <1>1, <1>2, <1>4, SameRequest DEF TypeInv, Shape
<1> QED
  BY <1>6, <1>7 DEF TypeInv

\* A search is made for a part that needs one, and kept under its position.
LEMMA LooksIs ==
  ASSUME TypeInv, Looks
  PROVE  \E i \in DOMAIN parts, result \in SearchResults \cup {NoDocuments} :
           /\ rt.retrieval /\ NeedsRetrieval(i) /\ i \notin DOMAIN found
           /\ \A k \in Unsearched : i <= k
           /\ found' = Recorded(i, result) /\ web' = Observed(result)
           /\ stage = "searching"
           /\ UNCHANGED <<rt, stage, turn, text, parts, memory, pending, health,
                          prompt, answer, called, unanswered>>
<1>1. PICK result \in SearchResults \cup {NoDocuments} :
        Searching /\ Searches(result)
  BY DEF Looks
<1> DEFINE i == CHOOSE k \in Unsearched : \A j \in Unsearched : k <= j
<1>2. i \in Unsearched /\ \A k \in Unsearched : i <= k
  <2>1. Unsearched # {}
    BY <1>1 DEF Searching
  <2>2. Unsearched \in SUBSET Nat
    BY DEF Unsearched, TypeInv, Shape
  <2> QED
    BY <2>1, <2>2, Least
<1>3. /\ found' = Recorded(i, result) /\ web' = Observed(result)
      /\ stage = "searching"
      /\ UNCHANGED <<rt, stage, turn, text, parts, memory, pending, health,
                     prompt, answer, called, unanswered>>
  BY <1>1 DEF Searches, Searching
<1> HIDE DEF i
<1>4. rt.retrieval /\ i \in DOMAIN parts /\ NeedsRetrieval(i)
      /\ \A k \in DOMAIN found : k < i
  BY <1>2 DEF Unsearched
<1>5. i \in Nat
  BY <1>4 DEF TypeInv, Shape
<1> QED
  BY <1>2, <1>3, <1>4, <1>5

LEMMA TypeLooks ==
  ASSUME TypeInv, Looks
  PROVE  TypeInv'
<1>1. PICK i \in DOMAIN parts, result \in SearchResults \cup {NoDocuments} :
        /\ rt.retrieval /\ NeedsRetrieval(i) /\ i \notin DOMAIN found
        /\ found' = Recorded(i, result) /\ web' = Observed(result)
        /\ stage = "searching"
        /\ UNCHANGED <<rt, stage, turn, text, parts, memory, pending, health,
                       prompt, answer, called, unanswered>>
  BY LooksIs
<1>2. UNCHANGED <<rt, stage, turn, text, parts, transcript, facts, pending,
                  health, prompt, answer, called, unanswered>>
  BY <1>1 DEF memory
<1>3. IsResult(result)
  BY SearchIs DEF IsResult
<1>4. /\ DOMAIN found' = DOMAIN found \cup {i}
      /\ \A k \in DOMAIN found' :
           found'[k] = IF k = i THEN result ELSE found[k]
  BY <1>1 DEF Recorded
<1>5. \A k \in DOMAIN found' : IsResult(found'[k])
  BY <1>3, <1>4 DEF TypeInv, Shape
<1>6. \A k : NeedsRetrieval(k)' <=> NeedsRetrieval(k)
  BY <1>2 DEF NeedsRetrieval
<1>7. \A k \in DOMAIN found' : /\ Len(found'[k].documents) <= MaxResults
                               /\ Range(found'[k].documents) \subseteq Document
  <2> SUFFICES ASSUME NEW k \in DOMAIN found'
               PROVE  /\ Len(found'[k].documents) <= MaxResults
                      /\ Range(found'[k].documents) \subseteq Document
    OBVIOUS
  <2> DEFINE d == found'[k].documents
  <2>1. d \in Seq(Document) /\ Len(d) <= MaxResults
    BY <1>5 DEF IsResult
  <2> HIDE DEF d
  <2>2. Range(d) \subseteq Document
    BY <2>1, LenProperties, ElementOfSeq DEF Range
  <2> QED
    BY <2>1, <2>2 DEF d
<1>8. web'.attempted = TRUE /\ web'.succeeded = result.success
  BY <1>1 DEF Observed
<1>9. TypeOK'
  <2>1. DOMAIN found' \subseteq {k \in DOMAIN parts' : NeedsRetrieval(k)'}
    BY <1>1, <1>2, <1>4, <1>6 DEF TypeInv, TypeOK
  <2>2. /\ web'.attempted \in BOOLEAN /\ (web'.succeeded => web'.attempted)
        /\ (web'.attempted => rt'.retrieval)
    BY <1>1, <1>2, <1>8
  <2> QED
    BY <1>2, <1>7, <2>1, <2>2 DEF TypeInv, TypeOK
<1>10. Shape'
  <2>1. stage = "searching" /\ answer = NoAnswer /\ ~NoAnswer.model
        /\ NoAnswer.path = "none"
    BY <1>1 DEF TypeInv, Shape, NoAnswer, Response
  <2> QED
    BY <1>2, <1>5, <2>1 DEF TypeInv, Shape
<1> QED
  BY <1>9, <1>10 DEF TypeInv

LEMMA TypePrepare ==
  ASSUME TypeInv, PrepareModel
  PROVE  TypeInv'
<1>1. /\ stage = "searching" /\ stage' = "prompted" /\ facts' = GroundedFacts
      /\ prompt'.evidence = RetrievedEvidence
      /\ transcript' = Remember(transcript, UserEntry(turn))
      /\ UNCHANGED <<rt, turn, text, parts, found, pending, web, health, answer,
                     called, unanswered>>
  BY DEF PrepareModel, Guarded, Searched, outside
<1>2. Lines(transcript', turn)
  BY <1>1, EntriesAre, ExchangeIs, RememberLines
<1>3. transcript' \in Seq(Line)
  BY <1>2 DEF Lines
<1>4. /\ Len(transcript') <= MaxEntries
      /\ \A e \in Range(transcript') : e.turn \in 1..turn
                                       /\ e.size \in Nat \ {0}
  BY <1>2, <1>3, LinesNow
<1>5. /\ DOMAIN facts' \subseteq {"user.location"}
      /\ \A k \in DOMAIN facts' : facts'[k].provenance = "user_asserted"
  BY <1>1 DEF GroundedFacts, SetUserFact, SetFact, TypeInv, TypeOK, Shape
<1>6. TypeOK'
  BY <1>1, <1>4, <1>5, SameRequest DEF TypeInv, TypeOK
<1>7. Shape'
  BY <1>1, <1>3, <1>5, SameRequest DEF TypeInv, Shape
<1> QED
  BY <1>6, <1>7 DEF TypeInv

LEMMA TypeModelFails ==
  ASSUME TypeInv, ModelFails
  PROVE  TypeInv'
<1>1. PICK after \in Calls, path \in {"failure", "exception"} :
        /\ Think(after) /\ stage' = "answered"
        /\ answer' = [Response("error", path) EXCEPT !.model = TRUE]
  BY DEF ModelFails, Answered
<1>2. /\ stage = "prompted" /\ unanswered' = unanswered \cup {turn}
      /\ UNCHANGED <<rt, turn, text, parts, found, transcript, facts, pending,
                     web, prompt>>
  BY DEF ModelFails, memory
<1>3. answer'.path = path /\ answer'.path # "model"
  BY <1>1 DEF Response
<1>4. health' \in [Provider -> Health] /\ called' \subseteq Configured
  BY <1>1, ThinkIs
<1>5. turn \in 1..turn
  BY <1>2, EntriesAre
<1>6. unanswered' \subseteq 1..turn
  BY <1>2, <1>5 DEF TypeInv, TypeOK
<1>7. TypeOK'
  BY <1>1, <1>2, <1>4, <1>6, SameRequest DEF TypeInv, TypeOK
<1>8. Shape'
  BY <1>1, <1>2, <1>3, SameRequest DEF TypeInv, Shape
<1> QED
  BY <1>7, <1>8 DEF TypeInv

\* What a model's answer consists of.
LEMMA AnswersIs ==
  ASSUME ModelAnswers
  PROVE  \E said \in Replies[Shown], after \in Calls :
           /\ stage = "prompted" /\ stage' = "answered"
           /\ Think(after) /\ Cardinality(Answering(after)) = 1
           /\ transcript' = Remember(transcript,
                ReplyEntry(turn, RuntimeCurrentTruth(said), ListedSources))
           /\ answer' = [Response("success", "model") EXCEPT
                          !.model = TRUE, !.body = RuntimeCurrentTruth(said),
                          !.claims = prompt.claims, !.sources = ListedSources,
                          !.evidence = EvidenceStatus]
           /\ UNCHANGED <<rt, turn, text, parts, found, facts, pending, web,
                          prompt, unanswered>>
BY DEF ModelAnswers, Answered

LEMMA TypeModelAnswers ==
  ASSUME TypeInv, ModelAnswers
  PROVE  TypeInv'
<1>1. PICK said \in Replies[Shown], after \in Calls :
        /\ stage = "prompted" /\ stage' = "answered"
        /\ Think(after) /\ Cardinality(Answering(after)) = 1
        /\ transcript' = Remember(transcript,
             ReplyEntry(turn, RuntimeCurrentTruth(said), ListedSources))
        /\ answer' = [Response("success", "model") EXCEPT
                       !.model = TRUE, !.body = RuntimeCurrentTruth(said),
                       !.claims = prompt.claims, !.sources = ListedSources,
                       !.evidence = EvidenceStatus]
        /\ UNCHANGED <<rt, turn, text, parts, found, facts, pending, web,
                       prompt, unanswered>>
  BY AnswersIs
<1>2. answer'.model = TRUE
  BY <1>1 DEF Response
<1>3. health' \in [Provider -> Health] /\ called' \subseteq Configured
  BY <1>1, ThinkIs
<1>4. Lines(transcript', turn)
  <2>1. RetrievedEvidence \in Seq(Document)
    BY <1>1, RetrievedIs DEF TypeInv
  <2>2. Len(ListedSources) \in Nat
    BY <2>1, ListedIs, LenProperties
  <2>3. stage # "answered"
    BY <1>1
  <2> QED
    BY <1>1, <2>2, <2>3, EntriesAre, ExchangeIs, RememberLines
<1>5. transcript' \in Seq(Line)
  BY <1>4 DEF Lines
<1>6. /\ Len(transcript') <= MaxEntries
      /\ \A e \in Range(transcript') : e.turn \in 1..turn
                                       /\ e.size \in Nat \ {0}
  BY <1>4, <1>5, LinesNow
<1>7. TypeOK'
  BY <1>1, <1>3, <1>6, SameRequest DEF TypeInv, TypeOK
<1>8. Shape'
  BY <1>1, <1>2, <1>5, SameRequest DEF TypeInv, Shape
<1> QED
  BY <1>7, <1>8 DEF TypeInv

LEMMA TypeStays ==
  ASSUME TypeInv, Shutdown \/ PassActions \/ UNCHANGED vars
  PROVE  TypeInv'
<1>1. /\ UNCHANGED <<rt, turn, text, parts, found, transcript, facts, pending,
                     web, health, prompt, called, unanswered>>
      /\ \/ stage = "received" /\ stage' = "stopped"
            /\ answer' = Response("success", "shutdown")
         \/ stage = "received" /\ stage' = "searching" /\ answer' = answer
         \/ stage' = stage /\ answer' = answer
  BY DEF Shutdown, PassActions, Asking, Talking, vars, memory, outside
<1>2. Response("success", "shutdown").path = "shutdown"
      /\ ~Response("success", "shutdown").model
  BY DEF Response
<1>3. TypeOK'
  BY <1>1, SameRequest DEF TypeInv, TypeOK
<1>4. Shape'
  BY <1>1, <1>2, SameRequest DEF TypeInv, Shape
<1> QED
  BY <1>3, <1>4 DEF TypeInv

LEMMA TypeStep ==
  ASSUME TypeInv, [Next]_vars
  PROVE  TypeInv'
<1>1. TypeOK
  BY DEF TypeInv
<1> QED
  BY <1>1, Moves, TypeReceive, TypeEnds, TypeTells, TypeLooks, TypePrepare,
     TypeModelFails, TypeModelAnswers, TypeStays

\* handle keeps its state within the bounds TypeOK names, whatever is said
\* and found and however many turns there are: transcript, facts and searches
\* never outgrow theirs, an action is pending only where actions are
\* executed, and only configured providers are called.
THEOREM TypeCorrect == Spec => []TypeOK
<1>1. Init => TypeInv
  BY TypeInit
<1>2. TypeInv /\ [Next]_vars => TypeInv'
  BY TypeStep
<1>3. TypeInv => TypeOK
  BY DEF TypeInv
<1> QED
  BY <1>1, <1>2, <1>3, PTL DEF Spec


-----------------------------------------------------------------------------
(* Evidence before the model.                                              *)

LEMMA SameActions ==
  ASSUME UNCHANGED <<rt, parts>>
  PROVE  \A i : IsAction(i)' <=> IsAction(i)
BY DEF IsAction

LEMMA NoActionsLeft ==
  ASSUME TypeInv, ActionEntry = {}
  PROVE  \A i \in DOMAIN parts : ~IsAction(i)
<1>1. Actions \in SUBSET Nat
  BY DEF Actions, TypeInv, Shape
<1>2. Actions = {}
  <2> SUFFICES ASSUME Actions # {}
               PROVE  FALSE
    OBVIOUS
  <2>1. PICK i \in Actions : \A j \in Actions : i <= j
    BY <1>1, Least
  <2> QED
    BY <2>1 DEF ActionEntry
<1> QED
  BY <1>2 DEF Actions

LEMMA GuardedInit ==
  ASSUME Init
  PROVE  GuardedInv /\ EvidenceBeforeModel
BY DEF Init, GuardedInv, EvidenceBeforeModel, NoAnswer, Response

LEMMA GuardedStep ==
  ASSUME TypeInv, GuardedInv, [Next]_vars
  PROVE  GuardedInv'
<1>1. CASE \E words \in Message : Receive(words)
  BY <1>1 DEF Receive, GuardedInv, NoAnswer, Response
<1>2. CASE Shutdown
  BY <1>2 DEF Shutdown, GuardedInv, Response
<1>3. CASE Ends
  BY <1>3 DEF Ends, GuardedInv
<1>4. CASE Tells
  BY <1>4 DEF Tells, GuardedInv, Response
<1>5. CASE PassActions
  <2>1. \A i \in DOMAIN parts : ~IsAction(i)
    BY <1>5, NoActionsLeft DEF PassActions
  <2>2. UNCHANGED <<rt, parts>>
    BY <1>5 DEF PassActions
  <2> QED
    BY <2>1, <2>2, SameActions DEF GuardedInv
<1>6. CASE Looks
  <2>1. stage = "searching" /\ UNCHANGED <<rt, parts>>
    BY <1>6, LooksIs
  <2> QED
    BY <2>1, SameActions DEF GuardedInv
<1>7. CASE PrepareModel \/ ModelFails \/ ModelAnswers
  <2>1. stage \in {"searching", "prompted"} /\ UNCHANGED <<rt, parts>>
    BY <1>7 DEF PrepareModel, Guarded, Searched, ModelFails, ModelAnswers
  <2> QED
    BY <2>1, SameActions DEF GuardedInv
<1>8. CASE UNCHANGED vars
  <2>1. UNCHANGED <<rt, parts, stage, answer>>
    BY <1>8 DEF vars
  <2> QED
    BY <2>1, SameActions DEF GuardedInv
<1>9. TypeOK
  BY DEF TypeInv
<1> QED
  BY <1>1, <1>2, <1>3, <1>4, <1>5, <1>6, <1>7, <1>8, <1>9, Moves

\* The parts are searched for in order, so that of those that need a search
\* none is left behind.
SearchedInOrder ==
  rt.retrieval =>
    \A i \in DOMAIN parts, k \in DOMAIN found :
      NeedsRetrieval(i) /\ i <= k => i \in DOMAIN found

LEMMA OrderedLooks ==
  ASSUME TypeInv, SearchedInOrder, Looks
  PROVE  SearchedInOrder'
<1>1. PICK i \in DOMAIN parts, result \in SearchResults \cup {NoDocuments} :
        /\ rt.retrieval /\ \A k \in Unsearched : i <= k
        /\ found' = Recorded(i, result) /\ UNCHANGED <<rt, parts>>
  BY LooksIs
<1>2. DOMAIN found' = DOMAIN found \cup {i} /\ DOMAIN parts' = DOMAIN parts
  BY <1>1 DEF Recorded
<1>3. DOMAIN parts \subseteq Nat /\ DOMAIN found \subseteq DOMAIN parts
  BY DEF TypeInv, TypeOK, Shape
<1>4. ASSUME NEW j \in DOMAIN parts, NeedsRetrieval(j), NEW k \in DOMAIN found',
             j <= k
      PROVE  j \in DOMAIN found'
  <2>1. CASE k \in DOMAIN found
    BY <1>1, <1>2, <1>4, <2>1 DEF SearchedInOrder
  <2>2. CASE k = i /\ j # i
    <3>1. j \notin Unsearched
      BY <1>1, <1>3, <1>4, <2>2
    <3>2. PICK m \in DOMAIN found : ~(m < j)
      BY <1>1, <1>4, <3>1 DEF Unsearched
    <3>3. j <= m
      BY <1>3, <3>2
    <3> QED
      BY <1>1, <1>2, <1>4, <3>3 DEF SearchedInOrder
  <2> QED
    BY <1>2, <2>1, <2>2
<1>5. \A j : NeedsRetrieval(j)' <=> NeedsRetrieval(j)
  BY <1>1 DEF NeedsRetrieval
<1> QED
  BY <1>2, <1>4, <1>5 DEF SearchedInOrder

LEMMA OrderedStep ==
  ASSUME TypeInv, SearchedInOrder, [Next]_vars
  PROVE  SearchedInOrder'
<1>1. CASE \E words \in Message : Receive(words)
  <2>1. DOMAIN found' = {}
    BY <1>1 DEF Receive
  <2> QED
    BY <2>1 DEF SearchedInOrder
<1>2. ASSUME UNCHANGED <<rt, parts, found>>
      PROVE  SearchedInOrder'
  BY <1>2, SameRequest DEF SearchedInOrder
<1>3. CASE Shutdown \/ Ends \/ Tells \/ PassActions \/ PrepareModel \/ ModelFails
             \/ ModelAnswers \/ UNCHANGED vars
  <2>1. UNCHANGED <<rt, parts, found>>
    BY <1>3 DEF Shutdown, Ends, Tells, PassActions, PrepareModel, ModelFails,
                ModelAnswers, vars
  <2> QED
    BY <1>2, <2>1
<1>4. TypeOK
  BY DEF TypeInv
<1> QED
  BY <1>1, <1>3, <1>4, OrderedLooks, Moves

LEMMA EvidencePrepare ==
  ASSUME TypeInv, GuardedInv, SearchedInOrder, PrepareModel
  PROVE  EvidenceBeforeModel'
<1>1. /\ stage = "searching" /\ Stale = {} /\ Unverified = {}
      /\ Unsearched = {} /\ prompt'.evidence = RetrievedEvidence
      /\ UNCHANGED <<rt, parts, found>>
  BY DEF PrepareModel, Guarded, Searched
<1>2. ASSUME NEW i \in DOMAIN parts
      PROVE  LET category == ActionRequested(parts[i]).category
             IN \/ category = "none"
                \/ /\ category = "web" /\ rt.retrieval
                   /\ i \in DOMAIN found \/ StatusKind(parts, i) # "none"
  <2> SUFFICES ASSUME ActionRequested(parts[i]).category # "none"
               PROVE  /\ ActionRequested(parts[i]).category = "web"
                      /\ rt.retrieval
                      /\ i \in DOMAIN found \/ StatusKind(parts, i) # "none"
    OBVIOUS
  <2>1. ActionRequested(parts[i]).category = "web" /\ rt.retrieval
    BY <1>1 DEF GuardedInv, IsAction
  <2>2. ASSUME StatusKind(parts, i) = "none"
        PROVE  i \in DOMAIN found
    <3>1. NeedsRetrieval(i)
      BY <2>1, <2>2 DEF NeedsRetrieval
    <3>2. PICK k \in DOMAIN found : ~(k < i)
      BY <1>1, <2>1, <3>1 DEF Unsearched
    <3>3. i <= k
      BY <3>2 DEF TypeInv, TypeOK, Shape
    <3> QED
      BY <2>1, <3>1, <3>3 DEF SearchedInOrder
  <2> QED
    BY <2>1, <2>2
<1>3. ASSUME NEW i \in DOMAIN parts,
             \/ RequiresFreshEvidence(parts[i])
             \/ /\ RequiresIndependentEvidence(parts[i])
                /\ StatusKind(parts, i) = "none"
      PROVE  /\ i \in DOMAIN found /\ found[i].documents # <<>>
             /\ Range(found[i].documents) \subseteq Range(RetrievedEvidence)
  <2>1. RetrievalSucceeded(i)
    BY <1>1, <1>3 DEF Stale, Unverified
  <2>2. i \in DOMAIN found /\ found[i].documents # <<>>
        /\ UrlsOf(i) = found[i].documents
    BY <2>1 DEF RetrievalSucceeded, Succeeded, UrlsOf
  <2>3. Range(UrlsOf(i)) \subseteq Range(RetrievedEvidence)
    BY <1>3, RetrievedIs DEF TypeInv
  <2> QED
    BY <2>2, <2>3
<1> QED
  BY <1>1, <1>2, <1>3 DEF EvidenceBeforeModel

LEMMA EvidenceStep ==
  ASSUME TypeInv, GuardedInv, SearchedInOrder, EvidenceBeforeModel,
         [Next]_vars
  PROVE  EvidenceBeforeModel'
<1>1. CASE \E words \in Message : Receive(words)
  BY <1>1 DEF Receive, EvidenceBeforeModel, NoAnswer, Response
<1>2. CASE Shutdown
  BY <1>2 DEF Shutdown, EvidenceBeforeModel, Response
<1>3. CASE Ends
  BY <1>3 DEF Ends, EvidenceBeforeModel
<1>4. CASE Tells
  BY <1>4 DEF Tells, EvidenceBeforeModel, Response
<1>5. CASE PassActions
  <2>1. ~answer.model /\ stage' = "searching" /\ answer' = answer
    BY <1>5 DEF PassActions, Asking, Talking, TypeInv, Shape, NoAnswer,
                Response
  <2> QED
    BY <2>1 DEF EvidenceBeforeModel
<1>6. CASE Looks
  <2>1. ~answer.model /\ stage' = "searching" /\ answer' = answer
    BY <1>6, LooksIs DEF TypeInv, Shape, NoAnswer, Response
  <2> QED
    BY <2>1 DEF EvidenceBeforeModel
<1>7. CASE PrepareModel
  BY <1>7, EvidencePrepare
<1>8. CASE ModelFails \/ ModelAnswers
  <2>1. stage = "prompted" /\ UNCHANGED <<rt, parts, found, prompt>>
    BY <1>8 DEF ModelFails, ModelAnswers
  <2> QED
    BY <2>1 DEF EvidenceBeforeModel
<1>9. CASE UNCHANGED vars
  <2>1. UNCHANGED <<rt, parts, found, prompt, stage, answer>>
    BY <1>9 DEF vars
  <2> QED
    BY <2>1 DEF EvidenceBeforeModel
<1>10. TypeOK
  BY DEF TypeInv
<1> QED
  BY <1>1, <1>2, <1>3, <1>4, <1>5, <1>6, <1>7, <1>8, <1>9, <1>10, Moves

\* The model is asked, and answers, only what holds no external action but web
\* requests that were searched for, and only with evidence of this turn for
\* every part that needs some: whatever was said, and in whatever parts it was
\* analyzed.
THEOREM EvidenceAlwaysFirst == Spec => []EvidenceBeforeModel
<1> DEFINE Inv == /\ TypeInv /\ GuardedInv /\ SearchedInOrder
                  /\ EvidenceBeforeModel
<1>1. Init => Inv
  <2>1. Init => SearchedInOrder
    BY DEF Init, SearchedInOrder
  <2> QED
    BY <2>1, TypeInit, GuardedInit
<1>2. Inv /\ [Next]_vars => Inv'
  BY TypeStep, GuardedStep, OrderedStep, EvidenceStep
<1>3. Inv => EvidenceBeforeModel
  OBVIOUS
<1> QED
  BY <1>1, <1>2, <1>3, PTL DEF Spec


-----------------------------------------------------------------------------
(* The transcript.                                                         *)

\* What Remember makes of a transcript of entries, position by position.
LEMMA Remembered ==
  ASSUME NEW t \in Seq(Line), Len(t) <= MaxEntries, NEW e \in Line
  PROVE  \E new \in Seq(Line), drop \in {0, 1} :
           /\ new = Remember(t, e) /\ Len(t) \in Nat
           /\ Len(new) \in Nat \ {0} /\ Len(new) = Len(t) + 1 - drop
           /\ new[Len(new)] = e
           /\ \A i \in 1..(Len(new) - 1) :
                i + drop \in 1..Len(t) /\ new[i] = t[i + drop]
<1> DEFINE new == Remember(t, e)
           drop == Len(t) + 1 - Len(new)
<1>1. Len(t) \in Nat /\ MaxEntries \in Nat
  BY LenProperties, MemoryAssumption
<1>2. /\ new \in Seq(Line) /\ Len(new) \in 1..MaxEntries /\ drop \in {0, 1}
      /\ new[Len(new)] = e
      /\ \A i \in 1..(Len(new) - 1) : new[i] = t[i + drop]
  BY RememberIs
<1> HIDE DEF new
<1>3. Len(new) \in Nat \ {0} /\ Len(new) = Len(t) + 1 - drop
  BY <1>1, <1>2
<1>4. \A i \in 1..(Len(new) - 1) : i + drop \in 1..Len(t)
  BY <1>1, <1>2
<1> QED
  BY <1>1, <1>2, <1>3, <1>4 DEF new

\* Words of a new turn are remembered in order, and still without a reply.
LEMMA WordsRemembered ==
  ASSUME NEW t \in Seq(Line), Len(t) <= MaxEntries, NEW e \in Line, NEW U,
         e.role = "user", e.turn \notin U, Ordered(t), Replied(t, U, FALSE),
         \A i \in 1..Len(t) : t[i].turn < e.turn
  PROVE  LET new == Remember(t, e)
         IN  /\ Ordered(new) /\ Replied(new, U, TRUE)
             /\ Len(new) # 0 /\ new[Len(new)] = e
             /\ \A i \in 1..(Len(new) - 1) : new[i].turn < e.turn
<1>1. PICK new \in Seq(Line), drop \in {0, 1} :
        /\ new = Remember(t, e) /\ Len(t) \in Nat
        /\ Len(new) \in Nat \ {0} /\ Len(new) = Len(t) + 1 - drop
        /\ new[Len(new)] = e
        /\ \A i \in 1..(Len(new) - 1) :
             i + drop \in 1..Len(t) /\ new[i] = t[i + drop]
  BY Remembered
<1> DEFINE n == Len(t)
           m == Len(new)
<1>2. n \in Nat /\ m \in Nat \ {0} /\ m = n + 1 - drop
  BY <1>1
<1>3. \A i \in 1..(m - 1) : i + drop \in 1..n /\ new[i] = t[i + drop]
  BY <1>1
<1> HIDE DEF n, m
<1>4. \A i \in 1..(m - 1) : new[i].turn < e.turn
  BY <1>3 DEF n
<1>5. \A i \in 2..m : i = m \/ (/\ i \in 2..(m - 1) /\ i \in 1..(m - 1)
                                /\ i - 1 \in 1..(m - 1)
                                /\ i + drop \in 2..n
                                /\ (i - 1) + drop = (i + drop) - 1)
  BY <1>2, <1>3
<1>6. ASSUME NEW i \in 2..m, new[i].role = "assistant"
      PROVE  new[i - 1].role = "user" /\ new[i - 1].turn = new[i].turn
  <2>1. i # m
    BY <1>1, <1>6 DEF m
  <2>2. new[i] = t[i + drop] /\ new[i - 1] = t[(i + drop) - 1]
    BY <1>3, <1>5, <2>1
  <2>3. i + drop \in 2..n
    BY <1>5, <2>1
  <2> QED
    BY <1>6, <2>2, <2>3 DEF Ordered, n
<1>7. ASSUME NEW i \in 2..m, new[i].role = "user"
      PROVE  new[i - 1].turn < new[i].turn
  <2>1. CASE i = m
    <3>1. i - 1 \in 1..(m - 1) /\ new[i] = e
      BY <1>1, <1>2, <2>1 DEF m
    <3> QED
      BY <1>4, <3>1
  <2>2. CASE i # m
    <3>1. new[i] = t[i + drop] /\ new[i - 1] = t[(i + drop) - 1]
      BY <1>3, <1>5, <2>2
    <3>2. i + drop \in 2..n
      BY <1>5, <2>2
    <3> QED
      BY <1>7, <3>1, <3>2 DEF Ordered, n
  <2> QED
    BY <2>1, <2>2
<1>8. Ordered(new)
  BY <1>6, <1>7 DEF Ordered, m
<1>9. ASSUME NEW i \in 1..m, new[i].role = "user"
      PROVE  (i = m \/ new[i + 1].role = "user")
               <=> (new[i].turn \in U \/ i = m)
  <2>1. CASE i = m
    BY <2>1
  <2>2. CASE i # m
    <3> DEFINE k == i + drop
    <3>1. i \in 1..(m - 1) /\ k \in 1..n /\ new[i] = t[k]
      BY <1>2, <1>3, <2>2
    <3>2. (k = n \/ t[k + 1].role = "user") <=> t[k].turn \in U
      BY <1>9, <3>1 DEF Replied, n
    <3>3. new[i + 1].role = "user" <=> (k = n \/ t[k + 1].role = "user")
      <4>1. CASE i + 1 = m
        <5>1. new[i + 1] = e /\ k = n
          BY <1>1, <1>2, <4>1 DEF m
        <5> QED
          BY <5>1
      <4>2. CASE i + 1 # m
        <5>1. i + 1 \in 1..(m - 1) /\ (i + 1) + drop = k + 1 /\ k # n
          BY <1>2, <3>1, <4>2
        <5> QED
          BY <1>3, <5>1
      <4> QED
        BY <4>1, <4>2
    <3> QED
      BY <2>2, <3>1, <3>2, <3>3
  <2> QED
    BY <2>1, <2>2
<1>10. Replied(new, U, TRUE)
  BY <1>9 DEF Replied, m
<1> QED
  BY <1>1, <1>4, <1>8, <1>10 DEF m

\* A reply is remembered behind the words it answers.
LEMMA ReplyRemembered ==
  ASSUME NEW t \in Seq(Line), Len(t) <= MaxEntries, NEW e \in Line, NEW U,
         e.role = "assistant", e.turn \notin U, Ordered(t),
         Replied(t, U, TRUE), Len(t) # 0, t[Len(t)].role = "user",
         t[Len(t)].turn = e.turn
  PROVE  LET new == Remember(t, e)
         IN  /\ Ordered(new) /\ Replied(new, U, FALSE)
             /\ Len(new) \in 1..Len(new) /\ new[Len(new)] = e
<1>1. PICK new \in Seq(Line), drop \in {0, 1} :
        /\ new = Remember(t, e) /\ Len(t) \in Nat
        /\ Len(new) \in Nat \ {0} /\ Len(new) = Len(t) + 1 - drop
        /\ new[Len(new)] = e
        /\ \A i \in 1..(Len(new) - 1) :
             i + drop \in 1..Len(t) /\ new[i] = t[i + drop]
  BY Remembered
<1> DEFINE n == Len(t)
           m == Len(new)
<1>2. n \in Nat \ {0} /\ m \in Nat \ {0} /\ m = n + 1 - drop
  BY <1>1
<1>3. \A i \in 1..(m - 1) : i + drop \in 1..n /\ new[i] = t[i + drop]
  BY <1>1
<1> HIDE DEF n, m
<1>4. \A i \in 2..m : i = m \/ (/\ i \in 2..(m - 1) /\ i \in 1..(m - 1)
                                /\ i - 1 \in 1..(m - 1)
                                /\ i + drop \in 2..n
                                /\ (i - 1) + drop = (i + drop) - 1)
  BY <1>2, <1>3
<1>5. ASSUME NEW i \in 2..m, new[i].role = "assistant"
      PROVE  new[i - 1].role = "user" /\ new[i - 1].turn = new[i].turn
  <2>1. CASE i = m
    <3>1. /\ i - 1 \in 1..(m - 1) /\ (i - 1) + drop = n
          /\ new[i] = e
      BY <1>1, <1>2, <2>1 DEF m
    <3>2. new[i - 1] = t[n]
      BY <1>3, <3>1
    <3> QED
      BY <3>1, <3>2 DEF n
  <2>2. CASE i # m
    <3>1. new[i] = t[i + drop] /\ new[i - 1] = t[(i + drop) - 1]
      BY <1>3, <1>4, <2>2
    <3>2. i + drop \in 2..n
      BY <1>4, <2>2
    <3> QED
      BY <1>5, <3>1, <3>2 DEF Ordered, n
  <2> QED
    BY <2>1, <2>2
<1>6. ASSUME NEW i \in 2..m, new[i].role = "user"
      PROVE  new[i - 1].turn < new[i].turn
  <2>1. i # m
    BY <1>1, <1>6 DEF m
  <2>2. new[i] = t[i + drop] /\ new[i - 1] = t[(i + drop) - 1]
    BY <1>3, <1>4, <2>1
  <2>3. i + drop \in 2..n
    BY <1>4, <2>1
  <2> QED
    BY <1>6, <2>2, <2>3 DEF Ordered, n
<1>7. Ordered(new)
  BY <1>5, <1>6 DEF Ordered, m
<1>8. ASSUME NEW i \in 1..m, new[i].role = "user"
      PROVE  (i = m \/ new[i + 1].role = "user") <=> new[i].turn \in U
  <2>1. i # m
    BY <1>1, <1>8 DEF m
  <2> DEFINE k == i + drop
  <2>2. i \in 1..(m - 1) /\ k \in 1..n /\ new[i] = t[k]
    BY <1>2, <1>3, <2>1
  <2>3. (k = n \/ t[k + 1].role = "user") <=> (t[k].turn \in U \/ k = n)
    BY <1>8, <2>2 DEF Replied, n
  <2>4. CASE i + 1 = m
    <3>1. new[i + 1] = e /\ k = n
      BY <1>1, <1>2, <2>4 DEF m
    <3>2. t[k].turn \notin U
      BY <3>1 DEF n
    <3> QED
      BY <2>1, <2>2, <3>1, <3>2
  <2>5. CASE i + 1 # m
    <3>1. i + 1 \in 1..(m - 1) /\ (i + 1) + drop = k + 1 /\ k # n
      BY <1>2, <2>2, <2>5
    <3>2. new[i + 1] = t[k + 1]
      BY <1>3, <3>1
    <3> QED
      BY <2>1, <2>2, <2>3, <3>1, <3>2
  <2> QED
    BY <2>4, <2>5
<1>9. Replied(new, U, FALSE)
  BY <1>8 DEF Replied, m
<1>10. m \in 1..m
  BY <1>2
<1> QED
  BY <1>1, <1>7, <1>9, <1>10 DEF m

\* Words whose model call failed stay without a reply.
LEMMA LeftUnanswered ==
  ASSUME NEW t \in Seq(Line), NEW U, NEW now, Replied(t, U, TRUE),
         Len(t) # 0, t[Len(t)].turn = now,
         \A i \in 1..(Len(t) - 1) : t[i].turn < now
  PROVE  Replied(t, U \cup {now}, FALSE)
<1>1. Len(t) \in Nat /\ \A i \in 1..Len(t) : t[i] \in Line
  BY LenProperties, ElementOfSeq
<1>2. \A i \in 1..Len(t) : t[i].turn \in Nat
  BY <1>1 DEF Line
<1>3. now \in Nat
  BY <1>1, <1>2
<1>4. ASSUME NEW i \in 1..Len(t)
      PROVE  t[i].turn \in U \cup {now} <=> (t[i].turn \in U \/ i = Len(t))
  <2>1. CASE i = Len(t)
    BY <2>1
  <2>2. CASE i # Len(t)
    <3>1. i \in 1..(Len(t) - 1)
      BY <1>1, <2>2
    <3>2. t[i].turn # now
      BY <1>2, <1>3, <3>1
    <3> QED
      BY <2>2, <3>2
  <2> QED
    BY <2>1, <2>2
<1> QED
  BY <1>4 DEF Replied

LEMMA MemoryInit ==
  ASSUME Init
  PROVE  MemoryInv
<1>1. /\ stage = "answered" /\ transcript = <<>> /\ answer.path = "none"
      /\ Len(<<>>) = 0 /\ 1..0 = {} /\ 2..0 = {}
  BY DEF Init, NoAnswer, Response
<1> QED
  BY <1>1 DEF MemoryInv, Ordered, Replied, ToldPaths

\* Before the model is asked, no entry is of this turn and every entry of
\* words without a reply is of a turn the model left unanswered.
LEMMA MemoryTells ==
  ASSUME TypeInv, MemoryInv, Tells
  PROVE  MemoryInv'
<1>1. /\ stage \in {"received", "searching"} /\ stage' = "answered"
      /\ transcript' = Exchange(<<>>)
      /\ answer'.path \in {"greeting", "status"}
      /\ UNCHANGED <<turn, unanswered>>
  BY DEF Tells, Response
<1> DEFINE u == UserEntry(turn)
           e == ReplyEntry(turn, <<>>, <<>>)
           t == Remember(transcript, u)
<1>2. /\ u \in Line /\ u.turn = turn /\ u.role = "user"
      /\ e \in Line /\ e.turn = turn /\ e.role = "assistant"
  <2>1. Len(<<>>) \in Nat
    OBVIOUS
  <2> QED
    BY <1>1, <2>1, EntriesAre
<1>3. transcript \in Seq(Line) /\ Len(transcript) <= MaxEntries
  BY DEF TypeInv, TypeOK, Shape
<1>4. t \in Seq(Line) /\ Len(t) <= MaxEntries
  BY <1>1, <1>2, EntriesAre, ExchangeIs, RememberLines DEF Lines
<1>5. transcript' = Remember(t, e)
  BY <1>1 DEF Exchange
<1>6. /\ Ordered(transcript) /\ Replied(transcript, unanswered, FALSE)
      /\ turn \notin unanswered
      /\ \A i \in 1..Len(transcript) : transcript[i].turn < turn
  BY <1>1 DEF MemoryInv
<1> HIDE DEF u, e
<1>7. /\ Ordered(t) /\ Replied(t, unanswered, TRUE)
      /\ Len(t) # 0 /\ t[Len(t)] = u
  BY <1>2, <1>3, <1>6, WordsRemembered
<1> HIDE DEF t
<1>8. /\ Ordered(transcript') /\ Replied(transcript', unanswered, FALSE)
      /\ Len(transcript') \in 1..Len(transcript')
      /\ transcript'[Len(transcript')] = e
  BY <1>2, <1>4, <1>5, <1>6, <1>7, ReplyRemembered
<1>9. \E i \in 1..Len(transcript') : transcript'[i].turn = turn
  BY <1>2, <1>8
<1> QED
  BY <1>1, <1>8, <1>9 DEF MemoryInv, ToldPaths

LEMMA MemoryPrepare ==
  ASSUME TypeInv, MemoryInv, PrepareModel
  PROVE  MemoryInv'
<1>1. /\ stage = "searching" /\ stage' = "prompted"
      /\ transcript' = Remember(transcript, UserEntry(turn))
      /\ UNCHANGED <<turn, unanswered>>
  BY DEF PrepareModel, Guarded, Searched
<1> DEFINE u == UserEntry(turn)
<1>2. u \in Line /\ u.turn = turn /\ u.role = "user"
  BY <1>1, EntriesAre
<1>3. transcript \in Seq(Line) /\ Len(transcript) <= MaxEntries
  BY DEF TypeInv, TypeOK, Shape
<1>4. /\ Ordered(transcript) /\ Replied(transcript, unanswered, FALSE)
      /\ turn \notin unanswered
      /\ \A i \in 1..Len(transcript) : transcript[i].turn < turn
  BY <1>1 DEF MemoryInv
<1>5. transcript' = Remember(transcript, u)
  BY <1>1
<1> HIDE DEF u
<1>6. /\ Ordered(transcript') /\ Replied(transcript', unanswered, TRUE)
      /\ Len(transcript') # 0 /\ transcript'[Len(transcript')] = u
      /\ \A i \in 1..(Len(transcript') - 1) : transcript'[i].turn < turn
  BY <1>2, <1>3, <1>4, <1>5, WordsRemembered
<1> QED
  BY <1>1, <1>2, <1>4, <1>6 DEF MemoryInv

LEMMA MemoryModelAnswers ==
  ASSUME TypeInv, MemoryInv, ModelAnswers
  PROVE  MemoryInv'
<1>1. PICK said \in Replies[Shown], after \in Calls :
        /\ stage = "prompted" /\ stage' = "answered"
        /\ Think(after) /\ Cardinality(Answering(after)) = 1
        /\ transcript' = Remember(transcript,
             ReplyEntry(turn, RuntimeCurrentTruth(said), ListedSources))
        /\ answer' = [Response("success", "model") EXCEPT
                       !.model = TRUE, !.body = RuntimeCurrentTruth(said),
                       !.claims = prompt.claims, !.sources = ListedSources,
                       !.evidence = EvidenceStatus]
        /\ UNCHANGED <<rt, turn, text, parts, found, facts, pending, web,
                       prompt, unanswered>>
  BY AnswersIs
<1> DEFINE e == ReplyEntry(turn, RuntimeCurrentTruth(said), ListedSources)
<1>2. e \in Line /\ e.turn = turn /\ e.role = "assistant"
  <2>1. RetrievedEvidence \in Seq(Document)
    BY <1>1, RetrievedIs DEF TypeInv
  <2>2. Len(ListedSources) \in Nat /\ stage # "answered"
    BY <1>1, <2>1, ListedIs, LenProperties
  <2> QED
    BY <2>2, EntriesAre
<1>3. transcript \in Seq(Line) /\ Len(transcript) <= MaxEntries
  BY DEF TypeInv, TypeOK, Shape
<1>4. /\ Ordered(transcript) /\ Replied(transcript, unanswered, TRUE)
      /\ turn \notin unanswered /\ Len(transcript) # 0
      /\ transcript[Len(transcript)].role = "user"
      /\ transcript[Len(transcript)].turn = turn
  BY <1>1 DEF MemoryInv
<1>5. transcript' = Remember(transcript, e)
  BY <1>1
<1>6. answer'.path = "model"
  BY <1>1 DEF Response
<1> HIDE DEF e
<1>7. /\ Ordered(transcript') /\ Replied(transcript', unanswered, FALSE)
      /\ Len(transcript') \in 1..Len(transcript')
      /\ transcript'[Len(transcript')] = e
  BY <1>2, <1>3, <1>4, <1>5, ReplyRemembered
<1>8. \E i \in 1..Len(transcript') : transcript'[i].turn = turn
  BY <1>2, <1>7
<1>9. stage' = "answered" /\ UNCHANGED <<turn, unanswered>>
  BY <1>1
<1> QED
  BY <1>6, <1>7, <1>8, <1>9 DEF MemoryInv, ToldPaths

LEMMA MemoryModelFails ==
  ASSUME TypeInv, MemoryInv, ModelFails
  PROVE  MemoryInv'
<1>1. PICK after \in Calls, path \in {"failure", "exception"} :
        answer' = [Response("error", path) EXCEPT !.model = TRUE]
  BY DEF ModelFails, Answered
<1>2. /\ stage = "prompted" /\ stage' = "answered"
      /\ unanswered' = unanswered \cup {turn}
      /\ UNCHANGED <<turn, transcript>>
  BY DEF ModelFails, Answered, memory
<1>3. answer'.path \in {"failure", "exception"}
  BY <1>1 DEF Response
<1>4. /\ Ordered(transcript) /\ Replied(transcript, unanswered, TRUE)
      /\ Len(transcript) # 0 /\ transcript[Len(transcript)].turn = turn
      /\ \A i \in 1..(Len(transcript) - 1) : transcript[i].turn < turn
  BY <1>2 DEF MemoryInv
<1>5. transcript \in Seq(Line)
  BY DEF TypeInv, Shape
<1>6. Replied(transcript, unanswered \cup {turn}, FALSE)
  BY <1>4, <1>5, LeftUnanswered
<1>7. \E i \in 1..Len(transcript) : transcript[i].turn = turn
  <2>1. Len(transcript) \in Nat
    BY <1>5, LenProperties
  <2>2. Len(transcript) \in 1..Len(transcript)
    BY <1>4, <2>1
  <2> QED
    BY <1>4, <2>2
<1> QED
  BY <1>2, <1>3, <1>4, <1>6, <1>7 DEF MemoryInv, ToldPaths

LEMMA MemoryReceive ==
  ASSUME TypeInv, MemoryInv, NEW words \in Message, Receive(words)
  PROVE  MemoryInv'
<1>1. /\ stage = "answered" /\ stage' = "received" /\ turn' = turn + 1
      /\ UNCHANGED <<transcript, unanswered>>
  BY DEF Receive, memory
<1>2. /\ turn \in Nat /\ unanswered \subseteq 1..turn
      /\ \A i \in 1..Len(transcript) : transcript[i].turn \in 1..turn
  <2>1. transcript \in Seq(Line)
    BY DEF TypeInv, Shape
  <2>2. Lines(transcript, turn)
    BY <2>1, LinesNow DEF TypeInv, TypeOK
  <2> QED
    BY <2>2, TurnAssumption DEF TypeInv, TypeOK, Lines
<1>3. /\ turn' \notin unanswered
      /\ \A i \in 1..Len(transcript) : transcript[i].turn < turn'
  BY <1>1, <1>2
<1>4. Ordered(transcript) /\ Replied(transcript, unanswered, FALSE)
  BY <1>1 DEF MemoryInv
<1> QED
  BY <1>1, <1>3, <1>4 DEF MemoryInv

\* Steps that add nothing to the transcript.
LEMMA MemoryKept ==
  ASSUME TypeInv, MemoryInv,
         Shutdown \/ Ends \/ PassActions \/ Looks \/ UNCHANGED vars
  PROVE  MemoryInv'
<1>1. CASE Shutdown
  <2>1. /\ stage = "received" /\ stage' = "stopped"
        /\ UNCHANGED <<turn, transcript, unanswered>>
    BY <1>1 DEF Shutdown, memory
  <2> QED
    BY <2>1 DEF MemoryInv
<1>2. CASE Ends
  <2>1. /\ stage \in {"received", "searching"} /\ stage' = "answered"
        /\ answer'.path \notin ToldPaths
        /\ UNCHANGED <<turn, transcript, unanswered>>
    BY <1>2 DEF Ends, memory, ToldPaths
  <2>2. turn \in Nat /\ \A i \in 1..Len(transcript) : transcript[i].turn < turn
    BY <2>1, EntriesAre DEF MemoryInv
  <2>3. ~ \E i \in 1..Len(transcript) : transcript[i].turn = turn
    BY <2>2
  <2> QED
    BY <2>1, <2>3 DEF MemoryInv
<1>3. CASE PassActions \/ Looks
  <2>1. /\ stage \in {"received", "searching"} /\ stage' = "searching"
        /\ UNCHANGED <<turn, transcript, unanswered>>
    BY <1>3, LooksIs DEF PassActions, Asking, Talking, memory
  <2> QED
    BY <2>1 DEF MemoryInv
<1>4. CASE UNCHANGED vars
  <2>1. UNCHANGED <<stage, turn, transcript, unanswered, answer>>
    BY <1>4 DEF vars, memory
  <2> QED
    BY <2>1 DEF MemoryInv
<1> QED
  BY <1>1, <1>2, <1>3, <1>4

LEMMA MemoryStep ==
  ASSUME TypeInv, MemoryInv, [Next]_vars
  PROVE  MemoryInv'
<1>1. TypeOK
  BY DEF TypeInv
<1> QED
  BY <1>1, Moves, MemoryReceive, MemoryKept, MemoryTells, MemoryPrepare,
     MemoryModelFails, MemoryModelAnswers

LEMMA MemoryGives ==
  ASSUME MemoryInv
  PROVE  TranscriptFaithful
BY DEF MemoryInv, Ordered, Replied, ToldPaths, TranscriptFaithful

\* After any number of turns, on a transcript of any bound, a reply directly
\* follows the words it answers, exactly the words whose model call failed
\* have none, and a turn that a guard or the bridge answered leaves nothing.
THEOREM TranscriptAlwaysFaithful == Spec => []TranscriptFaithful
<1> DEFINE Inv == TypeInv /\ MemoryInv
<1>1. Init => Inv
  BY TypeInit, MemoryInit
<1>2. Inv /\ [Next]_vars => Inv'
  BY TypeStep, MemoryStep
<1>3. Inv => TranscriptFaithful
  BY MemoryGives
<1> QED
  BY <1>1, <1>2, <1>3, PTL DEF Spec


-----------------------------------------------------------------------------
(* What the model is shown.                                                *)

\* Only PrepareModel sets the model to work.
LEMMA OnlyPrepared ==
  ASSUME TypeInv, [Next]_vars, stage' = "prompted"
  PROVE  PrepareModel \/ UNCHANGED vars
<1>1. ASSUME \E words \in Message : Receive(words)
      PROVE  FALSE
  BY <1>1 DEF Receive
<1>2. ASSUME Looks
      PROVE  FALSE
  BY <1>2, LooksIs
<1>3. ~ (Shutdown \/ Ends \/ Tells \/ PassActions \/ ModelFails \/ ModelAnswers)
  BY DEF Shutdown, Ends, Tells, PassActions, ModelFails, ModelAnswers, Answered
<1>4. TypeOK
  BY DEF TypeInv
<1> QED
  BY <1>1, <1>2, <1>3, <1>4, Moves

\* What the user says of his place replaces what he said before.
LEMMA FactStated ==
  ASSUME TypeInv, LocationIn(text) # 0
  PROVE  GroundedFacts["user.location"].value =
           SubSeq(text, 1, LocationIn(text))
<1> DEFINE key == "user.location"
           value == SubSeq(text, 1, LocationIn(text))
<1>1. key \in DOMAIN facts =>
        CanReplace(facts[key].provenance, "user_asserted")
  BY DEF TypeInv, Shape, CanReplace
<1>2. GroundedFacts =
        [k \in DOMAIN facts \cup {key} |->
           IF k = key THEN [value |-> value, provenance |-> "user_asserted"]
           ELSE facts[k]]
  BY <1>1 DEF GroundedFacts, SetUserFact, SetFact
<1> QED
  BY <1>2

LEMMA PromptPrepare ==
  ASSUME TypeInv, MemoryInv, PrepareModel
  PROVE  PromptFaithful'
<1>1. /\ stage = "searching"
      /\ prompt'.history = Rendered(transcript)
      /\ prompt'.facts = GroundedFacts
      /\ transcript' = Remember(transcript, UserEntry(turn))
      /\ UNCHANGED <<turn, text>>
  BY DEF PrepareModel, Guarded, Searched, PromptHistory
<1> DEFINE shown == Rendered(transcript)
           n == Len(transcript)
           m == Len(transcript')
<1>2. transcript \in Seq(Line) /\ n <= MaxEntries
  BY DEF TypeInv, TypeOK, Shape
<1>3. n \in Nat /\ DOMAIN transcript = 1..n
  BY <1>2, LenProperties
<1>4. /\ shown \in Seq(Line) /\ Range(shown) \subseteq Range(transcript)
      /\ transcript # <<>> => shown # <<>> /\ Last(shown) = transcript[n]
      /\ Len(shown) > 1 => LengthFrom(shown, 1) <= MaxContext
  BY <1>2, RenderedIs
<1> HIDE DEF shown
<1>5. \A e \in Range(shown) : e.turn < turn
  <2>1. \A e \in Range(transcript) : e.turn < turn
    BY <1>1, <1>3 DEF MemoryInv, Range
  <2> QED
    BY <1>4, <2>1
<1>6. m > 1 => shown # <<>> /\ Last(shown) = transcript'[m - 1]
  <2>1. UserEntry(turn) \in Line
    BY <1>1, EntriesAre
  <2>2. PICK new \in Seq(Line), drop \in {0, 1} :
          /\ new = Remember(transcript, UserEntry(turn))
          /\ Len(transcript) \in Nat
          /\ Len(new) \in Nat \ {0} /\ Len(new) = Len(transcript) + 1 - drop
          /\ new[Len(new)] = UserEntry(turn)
          /\ \A i \in 1..(Len(new) - 1) :
               i + drop \in 1..Len(transcript) /\ new[i] = transcript[i + drop]
    BY <1>2, <2>1, Remembered
  <2>3. m \in Nat /\ m = n + 1 - drop
        /\ \A i \in 1..(m - 1) : transcript'[i] = transcript[i + drop]
    BY <1>1, <2>2
  <2> HIDE DEF m, n
  <2>4. ASSUME m > 1
        PROVE  transcript # <<>> /\ transcript'[m - 1] = transcript[n]
    <3>1. m - 1 \in 1..(m - 1) /\ (m - 1) + drop = n /\ n # 0
      BY <1>3, <2>3, <2>4
    <3>2. transcript # <<>>
      BY <1>2, <3>1, EmptySeq DEF n
    <3> QED
      BY <2>3, <3>1, <3>2
  <2> QED
    BY <1>4, <2>4
<1>7. LocationIn(text) # 0 =>
        prompt'.facts["user.location"].value = SubSeq(text, 1, LocationIn(text))
  BY <1>1, FactStated
<1>8. prompt'.history = shown
  BY <1>1 DEF shown
<1>9. turn' = turn /\ text' = text
  BY <1>1
<1> QED
  BY <1>4, <1>5, <1>6, <1>7, <1>8, <1>9 DEF PromptFaithful

LEMMA PromptStep ==
  ASSUME TypeInv, MemoryInv, PromptFaithful, [Next]_vars
  PROVE  PromptFaithful'
<1>1. CASE PrepareModel
  BY <1>1, PromptPrepare
<1>2. CASE UNCHANGED vars
  <2>1. UNCHANGED <<stage, turn, text, transcript, prompt>>
    BY <1>2 DEF vars, memory
  <2> QED
    BY <2>1 DEF PromptFaithful
<1>3. CASE stage' # "prompted"
  BY <1>3 DEF PromptFaithful
<1> QED
  BY <1>1, <1>2, <1>3, OnlyPrepared

\* Whatever the bounds of transcript and context are, the model is shown the
\* history up to the entry before the user's words and never these, within
\* the context, and the place the user states in this turn.
THEOREM PromptAlwaysFaithful == Spec => []PromptFaithful
<1> DEFINE Inv == TypeInv /\ MemoryInv /\ PromptFaithful
<1>1. Init => Inv
  BY TypeInit, MemoryInit DEF Init, PromptFaithful
<1>2. Inv /\ [Next]_vars => Inv'
  BY TypeStep, MemoryStep, PromptStep
<1>3. Inv => PromptFaithful
  OBVIOUS
<1> QED
  BY <1>1, <1>2, <1>3, PTL DEF Spec

-----------------------------------------------------------------------------
(* The evidence and who is shown it.                                       *)

\* Retrieved evidence is synthesized by one provider, a local one of the best
\* health, whenever a local provider is eligible.
THEOREM EvidenceAlwaysLocal == Spec => EvidenceStaysLocal
<1> DEFINE A == stage = "prompted" /\ prompt.evidence # <<>>
                  /\ EligibleNow \cap Local # {} =>
                \E p \in EligibleNow \cap Local :
                  /\ called' = {p}
                  /\ \A q \in EligibleNow \cap Local :
                       Rank[health[p]] <= Rank[health[q]]
<1>1. TypeInv /\ [Next]_vars => [A]_vars
  <2> SUFFICES ASSUME TypeInv, [Next]_vars, ~ UNCHANGED vars,
                      stage = "prompted", prompt.evidence # <<>>,
                      EligibleNow \cap Local # {}
               PROVE  \E p \in EligibleNow \cap Local :
                        /\ called' = {p}
                        /\ \A q \in EligibleNow \cap Local :
                             Rank[health[p]] <= Rank[health[q]]
    OBVIOUS
  <2> DEFINE C == Eligible(Configured, health) \cap Local
  <2>1. EligibleNow \cap Local = C
    BY DEF EligibleNow
  <2>2. C \in SUBSET Provider /\ C # {}
    BY <2>1, TurnAssumption DEF Eligible
  <2>3. health \in [Provider -> Health]
    BY DEF TypeInv, TypeOK
  <2> DEFINE p == Best(C, health)
  <2> HIDE DEF C
  <2>4. p \in C /\ \A q \in C : Rank[health[p]] <= Rank[health[q]]
    BY <2>2, <2>3, BestIs
  <2>5. Synthesizer = p /\ p # NoProvider
    BY <2>2, <2>4, RouteAssumption DEF Synthesizer, LocalSynthesisProvider, C
  <2>6. PICK after \in Calls : Think(after)
    <3>1. ~ \E words \in Message : Receive(words)
      BY DEF Receive
    <3>2. ~ (Shutdown \/ Ends \/ Tells \/ PassActions \/ Looks \/ PrepareModel)
      BY DEF Shutdown, Ends, Tells, PassActions, Asking, Talking, Looks,
             Searching, PrepareModel, Guarded, Searched
    <3>3. ModelFails \/ ModelAnswers
      BY <3>1, <3>2, Moves DEF TypeInv
    <3> QED
      BY <3>3 DEF ModelFails, ModelAnswers
  <2> HIDE DEF p
  <2>7. called' = {p}
    BY <2>5, <2>6 DEF Think
  <2> QED
    BY <2>1, <2>4, <2>7
<1>2. TypeInv /\ [Next]_vars => TypeInv'
  BY TypeStep
<1>3. Init => TypeInv
  BY TypeInit
<1> QED
  BY <1>1, <1>2, <1>3, PTL DEF Spec, EvidenceStaysLocal


-----------------------------------------------------------------------------
(* What the response says.                                                 *)

LEMMA RuntimeTruths ==
  ASSUME NEW attached, NEW seen
  PROVE  Attached(attached) \in {"available", "not_connected"}
         /\ RetrievalTruth(attached, seen) # "eligible"
BY DEF Attached, RetrievalTruth

\* The snapshot claims no eligibility, and nothing of routes or identity; the
\* search and the providers it calls available have worked.
LEMMA SnapshotValues ==
  ASSUME TypeInv, NEW n \in DOMAIN SnapshotNow
  PROVE  /\ n # "routes" /\ SnapshotNow[n] # "eligible"
         /\ SnapshotNow[n] = "available" =>
              /\ n = "web_retrieval" => rt.retrieval /\ web.succeeded
              /\ n \in Provider => health[n] = "available"
<1>1. n \in RuntimeCapabilities \cup Provider \cup ActionCapabilities
  BY DEF SnapshotNow, Snapshot
<1>2. n # "routes"
  BY <1>1, RouteAssumption DEF RuntimeCapabilities, ActionCapabilities
<1>3. CASE n \in ActionCapabilities
  <2>1. SnapshotNow[n] = ActionTruth(rt, Tools, n)
    BY <1>3, SnapshotIs
  <2>2. n # "web_retrieval" /\ n \notin Provider
    BY <1>3, RouteAssumption DEF ActionCapabilities
  <2> QED
    BY <1>2, <2>1, <2>2 DEF ActionTruth
<1>4. CASE n \in RuntimeCapabilities
  <2> DEFINE fixed == [conversation |-> "available",
                       persistent_memory |-> "not_connected",
                       brain |-> Attached(rt.brain),
                       ai_routing |-> Attached(rt.router),
                       execution_actions |-> Attached(rt.execution),
                       tool_execution |-> Attached(rt.execution),
                       worker_execution |-> "not_connected",
                       voice |-> "not_connected",
                       web_retrieval |-> RetrievalTruth(rt.retrieval, web)]
  <2>1. SnapshotNow[n] = fixed[n]
    BY <1>4 DEF SnapshotNow, Snapshot
  <2>2. fixed[n] # "eligible"
    BY <1>4, RuntimeTruths DEF RuntimeCapabilities
  <2>3. n = "web_retrieval" => fixed[n] = RetrievalTruth(rt.retrieval, web)
    OBVIOUS
  <2> HIDE DEF fixed
  <2>4. n = "web_retrieval" /\ fixed[n] = "available" =>
          rt.retrieval /\ web.succeeded
    BY <2>3 DEF RetrievalTruth
  <2>5. n \notin Provider
    BY <1>4, RouteAssumption
  <2> QED
    BY <1>2, <2>1, <2>2, <2>4, <2>5
<1>5. CASE n \in Provider /\ n \notin RuntimeCapabilities
           /\ n \notin ActionCapabilities
  <2>1. SnapshotNow[n] = ProviderTruth(n, Configured, health)
    <3>1. rt.router
      BY <1>5 DEF SnapshotNow, Snapshot
    <3> QED
      BY <1>5, <3>1 DEF SnapshotNow, Snapshot
  <2>2. health[n] \in Health
    BY <1>5 DEF TypeInv, TypeOK
  <2>3. /\ ProviderTruth(n, Configured, health) # "eligible"
        /\ ProviderTruth(n, Configured, health) = "available" =>
             health[n] = "available"
    BY <2>2 DEF ProviderTruth, Health
  <2>4. n # "web_retrieval"
    BY <1>5 DEF RuntimeCapabilities
  <2> QED
    BY <1>2, <2>1, <2>3, <2>4
<1> QED
  BY <1>1, <1>3, <1>4, <1>5

\* A claim is borne out by what is attached, found and recorded now.
BorneOut(c) ==
  /\ c.is = "available" =>
       /\ c.of \in ActionCapabilities => Bound(Tools, c.of)
       /\ c.of = "web_retrieval" => rt.retrieval /\ web.succeeded
       /\ c.of \in Provider => health[c.of] = "available"
  /\ c.is = "eligible" => c.of \in EligibleNow
  /\ c.of = "routes" => EligibleNow = {}

LEMMA CapabilityClaim ==
  ASSUME TypeInv, NEW i, NEW c \in CapabilityClaims(parts[i], SnapshotNow)
  PROVE  BorneOut(c)
<1>1. CapabilitiesAsked(parts[i]) \subseteq DOMAIN SnapshotNow
  <2>1. "web_retrieval" \in DOMAIN SnapshotNow
    BY DEF SnapshotNow, Snapshot, RuntimeCapabilities
  <2>2. ActionCapabilities \subseteq DOMAIN SnapshotNow
    BY SnapshotIs
  <2>3. CapabilitiesAsked(parts[i]) \subseteq
          {"web_retrieval"} \cup ActionCapabilities
    BY DEF CapabilitiesAsked, ActionCapabilities
  <2> QED
    BY <2>1, <2>2, <2>3
<1>2. PICK n \in DOMAIN SnapshotNow : c = [of |-> n, is |-> SnapshotNow[n]]
  <2> DEFINE asked == CapabilitiesAsked(parts[i])
             told == IF asked # {} THEN asked
                     ELSE {n \in DOMAIN SnapshotNow :
                             n \notin Provider \/ SnapshotNow[n] = "available"}
  <2>1. CapabilityClaims(parts[i], SnapshotNow) =
          {[of |-> name, is |-> SnapshotNow[name]] : name \in told}
    BY DEF CapabilityClaims
  <2>2. told \subseteq DOMAIN SnapshotNow
    BY <1>1
  <2> HIDE DEF told
  <2> QED
    BY <2>1, <2>2
<1>3. c.of = n /\ c.is = SnapshotNow[n]
  BY <1>2
<1>4. /\ n # "routes" /\ SnapshotNow[n] # "eligible"
      /\ SnapshotNow[n] = "available" =>
           /\ n = "web_retrieval" => rt.retrieval /\ web.succeeded
           /\ n \in Provider => health[n] = "available"
  BY SnapshotValues
<1>5. n \in ActionCapabilities /\ SnapshotNow[n] = "available" =>
        Bound(Tools, n)
  BY SnapshotIs DEF ActionTruth
<1> QED
  BY <1>3, <1>4, <1>5 DEF BorneOut

LEMMA RuntimeClaim ==
  ASSUME TypeInv, NEW i, NEW c \in RuntimeClaims(parts[i], EligibleNow)
  PROVE  BorneOut(c)
<1>1. EligibleNow \subseteq Provider
  BY TurnAssumption DEF EligibleNow, Eligible
<1>2. \A p \in EligibleNow : p # "routes"
  BY <1>1, RouteAssumption
<1>3. \/ c = [of |-> "identity", is |-> "cauvis"]
      \/ c = [of |-> "routes", is |-> "none"] /\ EligibleNow = {}
      \/ \E p \in EligibleNow : c = [of |-> p, is |-> "eligible"]
  BY DEF RuntimeClaims
<1> QED
  BY <1>2, <1>3 DEF BorneOut

\* What Cauvis says of itself is so.
LEMMA ClaimsTrue ==
  ASSUME TypeInv, NEW c \in Claims
  PROVE  BorneOut(c)
<1>1. PICK i : \/ c \in CapabilityClaims(parts[i], SnapshotNow)
               \/ c \in RuntimeClaims(parts[i], EligibleNow)
  BY DEF Claims, StatusClaims
<1> QED
  BY <1>1, CapabilityClaim, RuntimeClaim

\* Nothing that was only found supports or contradicts a claim.
LEMMA EvidenceIs ==
  ASSUME TypeInv
  PROVE  EvidenceStatus \subseteq {"insufficient"}
<1> SUFFICES ASSUME NEW i \in DOMAIN found, RetrievalSucceeded(i)
             PROVE  Evaluate(RetrievalEvidence(found[i])) = "insufficient"
  BY DEF EvidenceStatus
<1> DEFINE d == found[i].documents
           ev == RetrievalEvidence(found[i])
<1>1. d # <<>> /\ d \in Seq(Document)
  BY DEF RetrievalSucceeded, Succeeded, TypeInv, Shape, IsResult
<1>2. ev = {[source |-> u, source_type |-> "retrieval", stance |-> "neutral"] :
              u \in Range(d)}
  BY DEF RetrievalEvidence
<1> HIDE DEF d
<1>3. Range(d) # {}
  <2>1. Len(d) \in Nat /\ Len(d) # 0 /\ DOMAIN d = 1..Len(d)
    BY <1>1, LenProperties, EmptySeq
  <2>2. 1 \in DOMAIN d
    BY <2>1
  <2> QED
    BY <2>2 DEF Range
<1>4. ev # {} /\ \A item \in ev : item.stance = "neutral"
  <2> DEFINE item(u) == [source |-> u, source_type |-> "retrieval",
                         stance |-> "neutral"]
  <2>1. ev = {item(u) : u \in Range(d)} /\ \A u : item(u).stance = "neutral"
    BY <1>2
  <2> HIDE DEF item, ev
  <2> QED
    BY <1>3, <2>1
<1> HIDE DEF ev
<1>5. ~ (\E item \in ev : Independent(item, "supports"))
      /\ ~ (\E item \in ev : Independent(item, "contradicts"))
  BY <1>4 DEF Independent
<1>6. Evaluate(ev) = "insufficient"
  BY <1>4, <1>5 DEF Evaluate
<1> QED
  BY <1>6 DEF ev

\* The list of sources names what was retrieved, each once.
LEMMA ListedRange ==
  ASSUME RetrievedEvidence \in Seq(Document)
  PROVE  Range(ListedSources) = Range(RetrievedEvidence)
<1> DEFINE e == RetrievedEvidence
           S == {i \in DOMAIN e : \A j \in 1..(i - 1) : e[j] # e[i]}
           listed == Picked(e, S)
<1>1. ListedSources = listed
  BY DEF ListedSources
<1>2. e \in Seq(Document) /\ Len(e) \in Nat /\ DOMAIN e = 1..Len(e)
  BY LenProperties
<1>3. \A i \in DOMAIN e : \E k \in S : e[k] = e[i]
  <2> SUFFICES ASSUME NEW i \in DOMAIN e
               PROVE  \E k \in S : e[k] = e[i]
    OBVIOUS
  <2> DEFINE same == {k \in DOMAIN e : e[k] = e[i]}
  <2>1. same \in SUBSET Nat /\ same # {}
    BY <1>2
  <2>2. PICK k \in same : \A j \in same : k <= j
    <3> HIDE DEF same
    <3> QED
      BY <2>1, Least
  <2>3. k \in DOMAIN e /\ e[k] = e[i]
    BY <2>2
  <2>4. ASSUME NEW j \in 1..(k - 1)
        PROVE  e[j] # e[k]
    <3>1. j \in DOMAIN e /\ ~ (k <= j)
      BY <1>2, <2>3
    <3> QED
      BY <2>2, <2>3, <3>1
  <2> QED
    BY <2>3, <2>4
<1>4. S \cap DOMAIN e = S
  OBVIOUS
<1> HIDE DEF e, S
<1>5. /\ \A k \in DOMAIN listed : \E i \in S : listed[k] = e[i]
      /\ \A i \in S : \E k \in DOMAIN listed : listed[k] = e[i]
  BY <1>2, <1>4, PickedFrom
<1>6. S \subseteq DOMAIN e
  BY <1>4
<1> HIDE DEF listed
<1>7. Range(listed) = Range(e)
  BY <1>3, <1>5, <1>6 DEF Range
<1> QED
  BY <1>1, <1>7 DEF e

\* Where no document was found twice the two lists are the same.
LEMMA ListedAll ==
  ASSUME RetrievedEvidence \in Seq(Document),
         Cardinality(Range(RetrievedEvidence)) = Len(RetrievedEvidence)
  PROVE  ListedSources = RetrievedEvidence
<1> DEFINE e == RetrievedEvidence
           S == {i \in DOMAIN e : \A j \in 1..(i - 1) : e[j] # e[i]}
           n == Len(e)
<1>1. ListedSources = Picked(e, S)
  BY DEF ListedSources
<1>2. e \in Seq(Document) /\ n \in Nat /\ DOMAIN e = 1..n
  BY LenProperties
<1>3. Cardinality(Range(e)) = n
  OBVIOUS
<1> HIDE DEF e
<1>4. e \in Surjection(1..n, Range(e))
  <2>1. e = [i \in 1..n |-> e[i]] /\ \A i \in 1..n : e[i] \in Range(e)
    <3>1. e \in [1..n -> Document]
      BY <1>2, LenProperties
    <3> QED
      BY <1>2, <3>1 DEF Range
  <2>2. e \in [1..n -> Range(e)]
    BY <2>1
  <2>3. \A x \in Range(e) : \E i \in 1..n : e[i] = x
    BY <1>2 DEF Range
  <2> QED
    BY <2>2, <2>3 DEF Surjection
<1>5. IsFiniteSet(1..n) /\ Cardinality(1..n) = n
  BY <1>2, UpToCount
<1>6. e \in Injection(1..n, Range(e))
  BY <1>3, <1>4, <1>5, FS_SurjSameCardinalityImpliesInj
<1>7. \A i, j \in 1..n : e[i] = e[j] => i = j
  BY <1>6 DEF Injection, IsInjective
<1>8. S = DOMAIN e
  <2>1. ASSUME NEW i \in 1..n, NEW j \in 1..(i - 1)
        PROVE  e[j] # e[i]
    <3>1. j \in 1..n /\ j # i
      BY <1>2
    <3> QED
      BY <1>7, <3>1
  <2> QED
    BY <1>2, <2>1
<1> HIDE DEF S
<1>9. Picked(e, DOMAIN e) = e
  BY <1>2, PickedAll
<1> QED
  BY <1>1, <1>8, <1>9 DEF e

\* An answer that claims nothing is truthful.
LEMMA NothingClaimed ==
  ASSUME answer'.performed = FALSE, answer'.sources = <<>>,
         answer'.evidence = {}, answer'.claims = {},
         answer'.path \notin {"model", "status"},
         stage' = "answered" /\ ~answer'.model => called' = {}
  PROVE  AnswerTruthful'
<1>1. Range(<<>>) = {}
  BY DEF Range
<1> QED
  BY <1>1 DEF AnswerTruthful

LEMMA TruthfulInit ==
  ASSUME Init
  PROVE  AnswerTruthful
<1>1. Range(<<>>) = {}
  BY DEF Range
<1> QED
  BY <1>1 DEF Init, AnswerTruthful, NoAnswer, Response

\* The bridge performs only what a bound tool is there for.
LEMMA TruthfulEnds ==
  ASSUME TypeInv, Ends
  PROVE  AnswerTruthful'
<1>1. /\ stage # "answered" /\ ~answer'.model
      /\ answer'.path \notin {"model", "status"}
      /\ answer'.sources = <<>> /\ answer'.evidence = {}
      /\ answer'.claims = {} /\ answer'.performed \in BOOLEAN
      /\ answer'.status = "blocked" => ~answer'.performed
      /\ answer'.performed => answer'.path \in {"pending", "execution"}
      /\ UNCHANGED <<rt, parts, called>>
  BY DEF Ends
<1>2. called' = {}
  BY <1>1 DEF TypeInv, Shape
<1>3. Range(<<>>) = {} /\ Tools' = Tools
  BY <1>1 DEF Range, Tools
<1>4. ASSUME answer'.performed, answer'.path = "execution"
      PROVE  \E i \in DOMAIN parts :
               LET action == ActionRequested(parts[i])
               IN /\ action.category # "none"
                  /\ Bound(Tools, RequiredCapability[action.category])
  <2>1. PICK i \in DOMAIN parts : Executable(ActionRequested(parts[i]))
    BY <1>4 DEF Ends
  <2> QED
    BY <2>1, ExecutableIs
<1> QED
  BY <1>1, <1>2, <1>3, <1>4 DEF AnswerTruthful

\* What is told of Cauvis is so.
LEMMA TruthfulTells ==
  ASSUME TypeInv, Tells
  PROVE  AnswerTruthful'
<1>1. /\ stage # "answered" /\ UNCHANGED <<rt, web, health, called>>
  BY DEF Tells, outside
<1>2. called' = {}
  BY <1>1 DEF TypeInv, Shape
<1>3. CASE answer' = Response("success", "greeting")
  BY <1>2, <1>3, NothingClaimed DEF Response
<1>4. CASE answer' = [Response("success", "status") EXCEPT !.claims = Claims]
  <2>1. /\ answer'.path = "status" /\ answer'.claims = Claims
        /\ answer'.performed = FALSE /\ answer'.sources = <<>>
        /\ answer'.evidence = {}
    BY <1>4 DEF Response
  <2>2. Range(<<>>) = {} /\ Tools' = Tools /\ EligibleNow' = EligibleNow
    BY <1>1 DEF Range, Tools, EligibleNow
  <2>3. \A c \in Claims : BorneOut(c)
    BY ClaimsTrue
  <2> QED
    BY <1>1, <1>2, <2>1, <2>2, <2>3 DEF AnswerTruthful, BorneOut
<1> QED
  BY <1>3, <1>4 DEF Tells

\* The sources of an answer are documents of a search that succeeded.
LEMMA SourcesFound ==
  ASSUME Shape, NEW u \in Range(ListedSources)
  PROVE  \E i \in DOMAIN found : RetrievalSucceeded(i) /\ u \in Range(UrlsOf(i))
<1>1. RetrievedEvidence \in Seq(Document)
  BY RetrievedIs
<1>2. u \in Range(RetrievedEvidence)
  BY <1>1, ListedRange
<1>3. PICK i \in DOMAIN parts : u \in Range(UrlsOf(i))
  BY <1>2, RetrievedIs
<1>4. Range(<<>>) = {}
  BY DEF Range
<1>5. RetrievalSucceeded(i)
  BY <1>3, <1>4 DEF UrlsOf
<1> QED
  BY <1>3, <1>5 DEF RetrievalSucceeded

\* What is told ahead of the model's answer was so when the model was asked.
ClaimsInv ==
  stage = "prompted" => \A c \in prompt.claims : BorneOut(c)

LEMMA ClaimsStep ==
  ASSUME TypeInv, ClaimsInv, [Next]_vars
  PROVE  ClaimsInv'
<1>1. CASE PrepareModel
  <2>1. prompt'.claims = Claims /\ UNCHANGED <<rt, web, health>>
    BY <1>1 DEF PrepareModel, outside
  <2>2. \A c : BorneOut(c)' <=> BorneOut(c)
    BY <2>1 DEF BorneOut, Tools, EligibleNow
  <2> QED
    BY <2>1, <2>2, ClaimsTrue DEF ClaimsInv
<1>2. CASE UNCHANGED vars
  <2>1. UNCHANGED <<rt, web, health, stage, prompt>>
    BY <1>2 DEF vars, outside
  <2>2. \A c : BorneOut(c)' <=> BorneOut(c)
    BY <2>1 DEF BorneOut, Tools, EligibleNow
  <2> QED
    BY <2>1, <2>2 DEF ClaimsInv
<1>3. ASSUME stage' # "prompted"
      PROVE  ClaimsInv'
  BY <1>3 DEF ClaimsInv
<1>4. CASE \/ \E words \in Message : Receive(words)
           \/ Shutdown \/ Ends \/ Tells \/ PassActions \/ Looks
           \/ ModelFails \/ ModelAnswers
  <2>1. stage' # "prompted"
    BY <1>4, LooksIs DEF Receive, Shutdown, Ends, Tells, PassActions,
                         ModelFails, ModelAnswers, Answered
  <2> QED
    BY <1>3, <2>1
<1>5. TypeOK
  BY DEF TypeInv
<1> QED
  BY <1>1, <1>2, <1>4, <1>5, Moves

\* It is so still, but for the providers called since.
LEMMA StillBorneOut ==
  ASSUME TypeInv, NEW after \in Calls, Think(after), Answering(after) # {},
         UNCHANGED <<rt, web>>, NEW c, BorneOut(c)
  PROVE  /\ c.is = "available" =>
              /\ c.of \in ActionCapabilities => Bound(Tools', c.of)
              /\ c.of = "web_retrieval" => rt'.retrieval /\ web'.succeeded
              /\ c.of \in Provider =>
                   health'[c.of] = "available" \/ c.of \in called'
         /\ c.is = "eligible" => c.of \in EligibleNow' \cup called'
         /\ c.of = "routes" => EligibleNow' = {}
<1>1. Tools' = Tools
  BY DEF Tools
<1>2. \A p \in Provider : health'[p] = health[p] \/ p \in called'
  BY DEF Think
<1>3. ASSUME c.is = "eligible"
      PROVE  c.of \in EligibleNow' \cup called'
  <2>1. c.of \in EligibleNow
    BY <1>3 DEF BorneOut
  <2>2. rt.router /\ c.of \in Configured /\ Rank[health[c.of]] < 3
    BY <2>1 DEF EligibleNow, Eligible
  <2>3. health'[c.of] = health[c.of] \/ c.of \in called'
    BY <1>2, <2>2, TurnAssumption
  <2> QED
    BY <2>2, <2>3 DEF EligibleNow, Eligible
<1>4. ASSUME c.of = "routes"
      PROVE  EligibleNow' = {}
  <2>1. EligibleNow = {}
    BY <1>4 DEF BorneOut
  <2>2. ASSUME rt.router
        PROVE  FALSE
    <3>1. Eligible(Configured, health) \cap Local = {}
      BY <2>1, <2>2 DEF EligibleNow
    <3>2. Synthesizer = NoProvider
      BY <3>1 DEF Synthesizer, LocalSynthesisProvider, Best
    <3>3. DOMAIN after = {}
      BY <2>1, <3>2 DEF Think
    <3> QED
      BY <3>3 DEF Answering
  <2> QED
    BY <2>2 DEF EligibleNow
<1> QED
  BY <1>1, <1>2, <1>3, <1>4 DEF BorneOut

LEMMA TruthfulModelAnswers ==
  ASSUME TypeInv, ClaimsInv, ModelAnswers
  PROVE  AnswerTruthful'
<1>1. PICK said \in Replies[Shown], after \in Calls :
        /\ stage = "prompted" /\ stage' = "answered"
        /\ Think(after) /\ Cardinality(Answering(after)) = 1
        /\ transcript' = Remember(transcript,
             ReplyEntry(turn, RuntimeCurrentTruth(said), ListedSources))
        /\ answer' = [Response("success", "model") EXCEPT
                       !.model = TRUE, !.body = RuntimeCurrentTruth(said),
                       !.claims = prompt.claims, !.sources = ListedSources,
                       !.evidence = EvidenceStatus]
        /\ UNCHANGED <<rt, turn, text, parts, found, facts, pending, web,
                       prompt, unanswered>>
  BY AnswersIs
<1>2. /\ answer'.model = TRUE /\ answer'.performed = FALSE
      /\ answer'.path = "model" /\ answer'.sources = ListedSources
      /\ answer'.evidence = EvidenceStatus /\ answer'.claims = prompt.claims
  BY <1>1 DEF Response
<1>7. Answering(after) # {}
  BY <1>1, FS_EmptySet
<1>3. called' # {}
  <2>1. called' = DOMAIN after
    BY <1>1, ThinkIs
  <2> QED
    BY <1>7, <2>1 DEF Answering
<1>8. \A c \in prompt.claims :
        /\ c.is = "available" =>
             /\ c.of \in ActionCapabilities => Bound(Tools', c.of)
             /\ c.of = "web_retrieval" => rt'.retrieval /\ web'.succeeded
             /\ c.of \in Provider =>
                  health'[c.of] = "available" \/ c.of \in called'
        /\ c.is = "eligible" => c.of \in EligibleNow' \cup called'
        /\ c.of = "routes" => EligibleNow' = {}
  BY <1>1, <1>7, StillBorneOut DEF ClaimsInv
<1>4. EvidenceStatus \subseteq {"insufficient"}
  BY EvidenceIs
<1>5. \A u \in Range(ListedSources) : \E i \in DOMAIN found :
        RetrievalSucceeded(i) /\ u \in Range(UrlsOf(i))
  BY SourcesFound DEF TypeInv
<1>6. \A u \in Range(answer'.sources) : \E i \in DOMAIN found' :
        RetrievalSucceeded(i)' /\ u \in Range(UrlsOf(i)')
  BY <1>1, <1>2, <1>5, SameRequest
<1> QED
  BY <1>2, <1>3, <1>4, <1>6, <1>8 DEF AnswerTruthful

LEMMA TruthfulStep ==
  ASSUME TypeInv, ClaimsInv, AnswerTruthful, [Next]_vars
  PROVE  AnswerTruthful'
<1>1. CASE \E words \in Message : Receive(words)
  <2>1. answer' = NoAnswer /\ stage' = "received"
    BY <1>1 DEF Receive
  <2> QED
    BY <2>1, NothingClaimed DEF NoAnswer, Response
<1>2. CASE Shutdown
  <2>1. answer' = Response("success", "shutdown") /\ stage' = "stopped"
    BY <1>2 DEF Shutdown
  <2> QED
    BY <2>1, NothingClaimed DEF Response
<1>3. CASE PassActions \/ Looks \/ PrepareModel
  <2>1. answer' = NoAnswer /\ stage' # "answered"
    BY <1>3, LooksIs DEF PassActions, Asking, Talking, PrepareModel, Guarded,
                         Searched, TypeInv, Shape
  <2> QED
    BY <2>1, NothingClaimed DEF NoAnswer, Response
<1>4. CASE ModelFails
  <2>1. PICK path \in {"failure", "exception"} :
          answer' = [Response("error", path) EXCEPT !.model = TRUE]
    BY <1>4 DEF ModelFails, Answered
  <2>2. /\ answer'.model = TRUE /\ answer'.performed = FALSE
        /\ answer'.path = path /\ answer'.sources = <<>>
        /\ answer'.evidence = {} /\ answer'.claims = {}
    BY <2>1 DEF Response
  <2> QED
    BY <2>2, NothingClaimed
<1>5. CASE UNCHANGED vars
  <2>1. UNCHANGED <<rt, stage, parts, found, web, health, answer, called>>
    BY <1>5 DEF vars, outside
  <2>2. Tools' = Tools /\ EligibleNow' = EligibleNow
    BY <2>1 DEF Tools, EligibleNow
  <2>3. /\ \A i : RetrievalSucceeded(i)' <=> RetrievalSucceeded(i)
        /\ \A i : UrlsOf(i)' = UrlsOf(i)
    BY <2>1, SameRequest
  <2> QED
    BY <2>1, <2>2, <2>3 DEF AnswerTruthful
<1>6. TypeOK
  BY DEF TypeInv
<1> QED
  BY <1>1, <1>2, <1>3, <1>4, <1>5, <1>6, TruthfulEnds, TruthfulTells,
     TruthfulModelAnswers, Moves

\* A CauvisResponse never claims more than the turn did, whatever is attached,
\* configured, said and found: a model only where one was called, an action
\* only where a tool is bound, sources only that were found in this turn, no
\* proof in what was only retrieved, and of Cauvis only what is so.
THEOREM AnswersTruthful == Spec => []AnswerTruthful
<1> DEFINE Inv == TypeInv /\ ClaimsInv /\ AnswerTruthful
<1>1. Init => Inv
  <2>1. Init => ClaimsInv
    BY DEF Init, ClaimsInv
  <2> QED
    BY <2>1, TypeInit, TruthfulInit
<1>2. Inv /\ [Next]_vars => Inv'
  BY TypeStep, ClaimsStep, TruthfulStep
<1>3. Inv => AnswerTruthful
  OBVIOUS
<1> QED
  BY <1>1, <1>2, <1>3, PTL DEF Spec

-----------------------------------------------------------------------------
(* The sources the user reads.                                             *)

\* Only ModelAnswers gives an answer that a model made.
LEMMA OnlyModel ==
  ASSUME TypeInv, [Next]_vars
  PROVE  ModelAnswers \/ answer'.path # "model" \/ UNCHANGED vars
<1>1. ASSUME \E words \in Message : Receive(words)
      PROVE  answer'.path # "model"
  BY <1>1 DEF Receive, NoAnswer, Response
<1>2. ASSUME PassActions \/ Looks \/ PrepareModel
      PROVE  answer'.path # "model"
  <2>1. answer' = NoAnswer
    BY <1>2, LooksIs DEF PassActions, Asking, Talking, PrepareModel, Guarded,
                         Searched, TypeInv, Shape
  <2> QED
    BY <2>1 DEF NoAnswer, Response
<1>3. ASSUME Shutdown \/ Ends \/ Tells \/ ModelFails
      PROVE  answer'.path # "model"
  BY <1>3 DEF Shutdown, Ends, Tells, ModelFails, Answered, Response
<1>4. TypeOK
  BY DEF TypeInv
<1> QED
  BY <1>1, <1>2, <1>3, <1>4, Moves

LEMMA CitationsStep ==
  ASSUME TypeInv, CitationsResolve, [Next]_vars
  PROVE  CitationsResolve'
<1>1. CASE ModelAnswers
  <2>1. /\ answer'.sources = ListedSources /\ UNCHANGED prompt
        /\ prompt.evidence = RetrievedEvidence
    BY <1>1, AnswersIs DEF Response, TypeInv, Shape
  <2>2. prompt.evidence \in Seq(Document)
    BY <2>1, RetrievedIs DEF TypeInv
  <2>3. Range(ListedSources) = Range(prompt.evidence)
    BY <2>1, <2>2, ListedRange
  <2>4. Cardinality(Range(prompt.evidence)) = Len(prompt.evidence) =>
          ListedSources = prompt.evidence
    BY <2>1, <2>2, ListedAll
  <2> QED
    BY <2>1, <2>3, <2>4 DEF CitationsResolve
<1>2. CASE UNCHANGED vars
  <2>1. UNCHANGED <<answer, prompt>>
    BY <1>2 DEF vars
  <2> QED
    BY <2>1 DEF CitationsResolve
<1>3. CASE answer'.path # "model"
  BY <1>3 DEF CitationsResolve
<1> QED
  BY <1>1, <1>2, <1>3, OnlyModel

\* Whatever was retrieved, the sources the user reads are the documents the
\* model was shown, and with the same numbers unless one was found twice.
THEOREM CitationsAlwaysResolve == Spec => []CitationsResolve
<1> DEFINE Inv == TypeInv /\ CitationsResolve
<1>1. Init => Inv
  <2>1. Init => answer.path # "model"
    BY DEF Init, NoAnswer, Response
  <2> QED
    BY <2>1, TypeInit DEF CitationsResolve
<1>2. Inv /\ [Next]_vars => Inv'
  BY TypeStep, CitationsStep
<1>3. Inv => CitationsResolve
  OBVIOUS
<1> QED
  BY <1>1, <1>2, <1>3, PTL DEF Spec

-----------------------------------------------------------------------------
(* Nothing internal is told.                                               *)

Hidden(t) == \A e \in Range(t) : ~e.exposed

LEMMA HiddenRemembered ==
  ASSUME NEW t \in Seq(Line), Len(t) <= MaxEntries, NEW e \in Line,
         ~e.exposed, Hidden(t)
  PROVE  Hidden(Remember(t, e))
<1>1. PICK new \in Seq(Line), drop \in {0, 1} :
        /\ new = Remember(t, e) /\ Len(t) \in Nat
        /\ Len(new) \in Nat \ {0} /\ Len(new) = Len(t) + 1 - drop
        /\ new[Len(new)] = e
        /\ \A i \in 1..(Len(new) - 1) :
             i + drop \in 1..Len(t) /\ new[i] = t[i + drop]
  BY Remembered
<1>2. DOMAIN t = 1..Len(t) /\ DOMAIN new = 1..Len(new)
  BY LenProperties
<1>3. ASSUME NEW i \in 1..Len(new)
      PROVE  ~new[i].exposed
  <2>1. CASE i = Len(new)
    BY <1>1, <2>1
  <2>2. CASE i # Len(new)
    <3>1. i \in 1..(Len(new) - 1)
      BY <1>1, <2>2
    <3>2. i + drop \in 1..Len(t) /\ new[i] = t[i + drop]
      BY <1>1, <3>1
    <3>3. t[i + drop] \in Range(t)
      BY <1>2, <3>2 DEF Range
    <3> QED
      BY <3>2, <3>3 DEF Hidden
  <2> QED
    BY <2>1, <2>2
<1> QED
  BY <1>1, <1>2, <1>3 DEF Hidden, Range

\* A clean body makes an entry that exposes nothing.
LEMMA CleanEntry ==
  ASSUME NEW body, NEW sources, Clean(body)
  PROVE  ~ReplyEntry(turn, body, sources).exposed
BY DEF Clean, ReplyEntry

LEMMA HiddenExchange ==
  ASSUME TypeInv, stage # "answered", Hidden(transcript)
  PROVE  Hidden(Exchange(<<>>))
<1> DEFINE u == UserEntry(turn)
           e == ReplyEntry(turn, <<>>, <<>>)
           t == Remember(transcript, u)
<1>1. transcript \in Seq(Line) /\ Len(transcript) <= MaxEntries
  BY DEF TypeInv, TypeOK, Shape
<1>2. u \in Line /\ u.turn = turn /\ turn \in 1..turn /\ ~u.exposed
  BY EntriesAre
<1>3. e \in Line
  <2>1. Len(<<>>) \in Nat
    OBVIOUS
  <2> QED
    BY <2>1, EntriesAre
<1>4. ~e.exposed
  BY CleanEntry DEF Clean
<1> HIDE DEF u, e
<1>5. t \in Seq(Line) /\ Len(t) <= MaxEntries
  BY <1>2, ExchangeIs, RememberLines DEF Lines
<1>6. Hidden(t)
  BY <1>1, <1>2, HiddenRemembered
<1> HIDE DEF t
<1>7. Hidden(Remember(t, e))
  BY <1>3, <1>4, <1>5, <1>6, HiddenRemembered
<1> QED
  BY <1>7 DEF t, u, e, Exchange

\* What is told of the model's words, or from the response in their place.
LEMMA BodyIs ==
  ASSUME NEW said \in Replies[Shown]
  PROVE  LET body == RuntimeCurrentTruth(said)
         IN  /\ body # <<>> /\ Clean(body) /\ Head(body) # Piece("label")
             /\ prompt.history # <<>> =>
                  Piece("formerSession") \notin Range(body)
<1>1. Shown \in SUBSET Range(InternalSections)
  BY DEF Shown
<1>2. Replies[Shown] = {ReplyBody(words, Shown) : words \in ModelWords(Shown)}
  BY <1>1 DEF Replies
<1>3. PICK words \in ModelWords(Shown) : said = ReplyBody(words, Shown)
  BY <1>2
<1>4. /\ said \in Seq(Pieces) /\ said # <<>> /\ Clean(said)
      /\ Head(said) # Piece("label")
      /\ "conversation_history" \in Shown =>
           Piece("formerSession") \notin Range(said)
  BY <1>3, PresentedIs
<1>5. prompt.history # <<>> => "conversation_history" \in Shown
  <2>1. "conversation_history" \in Range(InternalSections)
    BY FourSections DEF InternalSections, Section
  <2> QED
    BY <2>1 DEF Shown
<1>6. CASE RuntimeCurrentTruth(said) = said
  BY <1>4, <1>5, <1>6
<1>7. CASE RuntimeCurrentTruth(said) = <<Piece("runtimeTruth")>>
  <2> DEFINE body == <<Piece("runtimeTruth")>>
  <2>1. /\ body # <<>> /\ DOMAIN body = {1} /\ body[1] = Piece("runtimeTruth")
        /\ Head(body) = Piece("runtimeTruth")
    OBVIOUS
  <2>2. Range(body) = {Piece("runtimeTruth")}
    BY <2>1 DEF Range
  <2>3. /\ Piece("runtimeTruth").kind # "inner"
        /\ Piece("runtimeTruth") # Piece("label")
        /\ Piece("runtimeTruth") # Piece("formerSession")
    BY DEF Piece
  <2> HIDE DEF body
  <2>4. Clean(body)
    BY <2>1, <2>3 DEF Clean
  <2> QED
    BY <1>7, <2>1, <2>2, <2>3, <2>4 DEF body
<1> QED
  BY <1>6, <1>7 DEF RuntimeCurrentTruth

LEMMA InternalModelAnswers ==
  ASSUME TypeInv, NothingInternal, ModelAnswers
  PROVE  NothingInternal'
<1>1. PICK said \in Replies[Shown], after \in Calls :
        /\ stage = "prompted" /\ stage' = "answered"
        /\ Think(after) /\ Cardinality(Answering(after)) = 1
        /\ transcript' = Remember(transcript,
             ReplyEntry(turn, RuntimeCurrentTruth(said), ListedSources))
        /\ answer' = [Response("success", "model") EXCEPT
                       !.model = TRUE, !.body = RuntimeCurrentTruth(said),
                       !.claims = prompt.claims, !.sources = ListedSources,
                       !.evidence = EvidenceStatus]
        /\ UNCHANGED <<rt, turn, text, parts, found, facts, pending, web,
                       prompt, unanswered>>
  BY AnswersIs
<1> DEFINE body == RuntimeCurrentTruth(said)
           e == ReplyEntry(turn, body, ListedSources)
<1>2. /\ body # <<>> /\ Clean(body) /\ Head(body) # Piece("label")
      /\ prompt.history # <<>> => Piece("formerSession") \notin Range(body)
  BY BodyIs
<1>3. answer'.body = body /\ prompt' = prompt
      /\ transcript' = Remember(transcript, e)
  BY <1>1 DEF Response
<1> HIDE DEF body
<1>4. e \in Line /\ ~e.exposed
  <2>1. RetrievedEvidence \in Seq(Document)
    BY <1>1, RetrievedIs DEF TypeInv
  <2>2. Len(ListedSources) \in Nat /\ stage # "answered"
    BY <1>1, <2>1, ListedIs, LenProperties
  <2>3. e \in Line
    BY <2>2, EntriesAre
  <2>4. ~e.exposed
    BY <1>2, CleanEntry
  <2> QED
    BY <2>3, <2>4
<1> HIDE DEF e
<1>5. transcript \in Seq(Line) /\ Len(transcript) <= MaxEntries
  BY DEF TypeInv, TypeOK, Shape
<1>6. Hidden(transcript)
  BY DEF Hidden, NothingInternal
<1>7. Hidden(transcript')
  BY <1>3, <1>4, <1>5, <1>6, HiddenRemembered
<1> QED
  BY <1>2, <1>3, <1>7 DEF NothingInternal, Hidden, Clean

\* What a step may do to the transcript.
LEMMA TranscriptSteps ==
  ASSUME TypeInv, [Next]_vars
  PROVE  \/ ModelAnswers
         \/ /\ stage # "answered" /\ transcript' = Exchange(<<>>)
            /\ answer'.path # "model"
         \/ /\ stage # "answered" /\ answer'.path # "model"
            /\ transcript' = Remember(transcript, UserEntry(turn))
         \/ transcript' = transcript /\ answer'.path # "model"
         \/ UNCHANGED vars
<1>1. CASE \E words \in Message : Receive(words)
  BY <1>1 DEF Receive, NoAnswer, Response, memory
<1>2. CASE Shutdown \/ Ends
  BY <1>2 DEF Shutdown, Ends, Response, memory
<1>3. CASE Tells
  BY <1>3 DEF Tells, Response
<1>4. CASE PassActions \/ Looks
  <2>1. answer' = NoAnswer /\ transcript' = transcript
    BY <1>4, LooksIs DEF PassActions, Asking, Talking, TypeInv, Shape, memory
  <2> QED
    BY <2>1 DEF NoAnswer, Response
<1>5. CASE PrepareModel
  <2>1. /\ answer' = NoAnswer /\ stage # "answered"
        /\ transcript' = Remember(transcript, UserEntry(turn))
    BY <1>5 DEF PrepareModel, Guarded, Searched, TypeInv, Shape
  <2> QED
    BY <2>1 DEF NoAnswer, Response
<1>6. CASE ModelFails
  BY <1>6 DEF ModelFails, Answered, Response, memory
<1>7. TypeOK
  BY DEF TypeInv
<1> QED
  BY <1>1, <1>2, <1>3, <1>4, <1>5, <1>6, <1>7, Moves

LEMMA InternalStep ==
  ASSUME TypeInv, NothingInternal, [Next]_vars
  PROVE  NothingInternal'
<1>1. Hidden(transcript)
  BY DEF NothingInternal, Hidden
<1>2. CASE UNCHANGED vars
  <2>1. UNCHANGED <<transcript, answer, prompt>>
    BY <1>2 DEF vars, memory
  <2> QED
    BY <2>1 DEF NothingInternal
<1>3. CASE stage # "answered" /\ transcript' = Exchange(<<>>)
           /\ answer'.path # "model"
  <2>1. Hidden(transcript')
    BY <1>1, <1>3, HiddenExchange
  <2> QED
    BY <1>3, <2>1 DEF NothingInternal, Hidden
<1>4. CASE stage # "answered" /\ answer'.path # "model"
           /\ transcript' = Remember(transcript, UserEntry(turn))
  <2>1. transcript \in Seq(Line) /\ Len(transcript) <= MaxEntries
    BY DEF TypeInv, TypeOK, Shape
  <2>2. UserEntry(turn) \in Line /\ ~UserEntry(turn).exposed
    BY <1>4, EntriesAre
  <2>3. Hidden(transcript')
    BY <1>1, <1>4, <2>1, <2>2, HiddenRemembered
  <2> QED
    BY <1>4, <2>3 DEF NothingInternal, Hidden
<1>5. CASE transcript' = transcript /\ answer'.path # "model"
  BY <1>1, <1>5 DEF NothingInternal, Hidden
<1> QED
  BY <1>2, <1>3, <1>4, <1>5, InternalModelAnswers, TranscriptSteps

\* Whatever stretch of its prompt a model repeats, and however it is labelled,
\* none of the tagged content reaches the user, the transcript or, through it,
\* a later prompt, and no answer begins with a label or speaks of a former
\* session where this one has a history.
THEOREM NothingInternalTold == Spec => []NothingInternal
<1> DEFINE Inv == TypeInv /\ NothingInternal
<1>1. Init => Inv
  <2>1. Init => answer.path # "model" /\ transcript = <<>>
    BY DEF Init, NoAnswer, Response
  <2>2. Range(<<>>) = {}
    BY DEF Range
  <2> QED
    BY <2>1, <2>2, TypeInit DEF NothingInternal
<1>2. Inv /\ [Next]_vars => Inv'
  BY TypeStep, InternalStep
<1>3. Inv => NothingInternal
  OBVIOUS
<1> QED
  BY <1>1, <1>2, <1>3, PTL DEF Spec
=============================================================================
