------------------------------ MODULE Induction ------------------------------
(***************************************************************************)
(* Sequences, induction over natural numbers, and what it shows of Keep.   *)
(***************************************************************************)
EXTENDS Keep, FiniteSets, FiniteSetTheorems, WellFoundedInduction, TLAPS

\* Zenon proves the steps that name no prover.
USE ZenonT(20)

-----------------------------------------------------------------------------
(***************************************************************************)
(* What queues and logs are made of.                                       *)
(***************************************************************************)

\* A sequence is a function on its positions, and only the empty one has none.
LEMMA SeqIsFunction ==
  ASSUME NEW S, NEW s \in Seq(S)
  PROVE  /\ Len(s) \in Nat /\ DOMAIN s = 1..Len(s) /\ s \in [1..Len(s) -> S]
         /\ s # <<>> => Len(s) \in Nat \ {0}
  BY SMTT(30)

\* The empty sequence.
LEMMA SeqOfNothing ==
  ASSUME NEW S
  PROVE  <<>> \in Seq(S) /\ Len(<<>>) = 0
  BY SMTT(30)

\* push_back: one more position, the others as they were.
LEMMA SeqAppend ==
  ASSUME NEW S, NEW s \in Seq(S), NEW x \in S
  PROVE  /\ Append(s, x) \in Seq(S) /\ Append(s, x) # <<>>
         /\ Len(Append(s, x)) = Len(s) + 1 /\ Append(s, x)[Len(s) + 1] = x
         /\ \A i \in 1..Len(s) : Append(s, x)[i] = s[i]
  BY SMTT(30)

\* pop_front: the others move one position to the front.
LEMMA SeqTail ==
  ASSUME NEW S, NEW s \in Seq(S), s # <<>>
  PROVE  /\ Head(s) \in S /\ Tail(s) \in Seq(S)
         /\ Len(Tail(s)) = Len(s) - 1
         /\ \A i \in 1..Len(Tail(s)) : Tail(s)[i] = s[i + 1]
  BY SMTT(30)

\* A part of a sequence.
LEMMA SeqPart ==
  ASSUME NEW S, NEW s, NEW a \in Int, NEW b \in Int, \A i \in a..b : s[i] \in S
  PROVE  /\ SubSeq(s, a, b) \in Seq(S)
         /\ Len(SubSeq(s, a, b)) = IF a <= b THEN b - a + 1 ELSE 0
         /\ \A i \in 1..(b - a + 1) : SubSeq(s, a, b)[i] = s[a + i - 1]
  BY SMTT(30)

\* One sequence after the other.
LEMMA SeqJoin ==
  ASSUME NEW S, NEW s \in Seq(S), NEW t \in Seq(S)
  PROVE  /\ s \o t \in Seq(S) /\ Len(s \o t) = Len(s) + Len(t)
         /\ \A i \in 1..(Len(s) + Len(t)) :
              (s \o t)[i] = IF i <= Len(s) THEN s[i] ELSE t[i - Len(s)]
  BY SMTT(30)

-----------------------------------------------------------------------------
\* A set with 0 that is closed under successor has every natural number.
LEMMA NatInd ==
  ASSUME NEW T, 0 \in T, \A n \in Nat : n \in T => n + 1 \in T
  PROVE  Nat \subseteq T
  <1> SUFFICES ASSUME NEW k \in Nat, k \notin T
               PROVE  FALSE
    OBVIOUS
  <1> DEFINE U == {0..m : m \in Nat \ T}
  <1>1. U \subseteq FiniteSubsetsOf(Nat) /\ U # {}
    <2>1. \A m \in Nat : IsFiniteSet(0..m) /\ 0..m \subseteq Nat
      BY FS_Interval, SMTT(30)
    <2> QED
      BY <2>1 DEF FiniteSubsetsOf
  <1>2. PICK x \in U : \A y \in U : ~(<<y, x>> \in StrictSubsetOrdering(Nat))
    BY <1>1, FS_StrictSubsetOrderingWellFounded, WFMin
  <1>3. PICK m \in Nat \ T : x = 0..m
    OBVIOUS
  <1>4. m # 0 /\ m - 1 \in Nat \ T
    BY SMTT(30)
  <1>5. <<0..(m - 1), x>> \in StrictSubsetOrdering(Nat)
    <2>1. 0..(m - 1) \subseteq 0..m /\ 0..m \subseteq Nat /\ 0..(m - 1) # 0..m
      <3>1. m \in 0..m /\ m \notin 0..(m - 1)
        BY SMTT(30)
      <3> QED
        BY <3>1, SMTT(30)
    <2> QED
      BY <2>1, <1>3 DEF StrictSubsetOrdering
  <1> QED
    BY <1>2, <1>4, <1>5

\* A non-empty set of natural numbers has a least and, if bounded, a greatest.
LEMMA Least ==
  ASSUME NEW S \in SUBSET Nat, S # {}
  PROVE  \E m \in S : \A k \in S : m <= k
  <1> SUFFICES ASSUME \A m \in S : \E k \in S : k < m
               PROVE  FALSE
    BY SMTT(30)
  <1> DEFINE T == {n \in Nat : \A k \in 0..n : k \notin S}
  <1>1. 0 \in T
    BY SMTT(30)
  <1>2. \A n \in Nat : n \in T => n + 1 \in T
    BY SMTT(30)
  <1>3. Nat \subseteq T
    <2> HIDE DEF T
    <2> QED
      BY <1>1, <1>2, NatInd
  <1> PICK k \in S : TRUE
    OBVIOUS
  <1> k \in T /\ k \in 0..k
    BY <1>3, SMTT(30)
  <1> QED
    OBVIOUS

-----------------------------------------------------------------------------
\* A function that Keep defines: on prefixes of seq.
Filters(f, seq, S) ==
  /\ f[0] = <<>>
  /\ \A n \in 1..Len(seq) :
       f[n] = IF seq[n] \in S THEN Append(f[n - 1], seq[n]) ELSE f[n - 1]

\* The recursive function of Keep satisfies its defining equations.
LEMMA FiltersExists ==
  ASSUME NEW seq, Len(seq) \in Nat, NEW S
  PROVE  Filters(KeptOfPrefix(seq, S), seq, S)
  <1> DEFINE L == Len(seq)
             Step(f, n) == IF n = 0 THEN <<>>
                           ELSE IF seq[n] \in S THEN Append(f[n - 1], seq[n]) ELSE f[n - 1]
             T == {m \in Nat : \E f : f = [n \in 0..m |-> Step(f, n)]}
  <1>1. 0 \in T
    <2> DEFINE f == [n \in 0..0 |-> <<>>]
    <2>1. f = [n \in 0..0 |-> Step(f, n)]
      BY SMTT(30)
    <2> QED
      BY <2>1
  <1>2. ASSUME NEW m \in Nat, m \in T
        PROVE  m + 1 \in T
    <2> PICK f : f = [n \in 0..m |-> Step(f, n)]
      BY <1>2
    <2> DEFINE g == [n \in 0..(m + 1) |-> IF n = m + 1 THEN Step(f, n) ELSE f[n]]
    <2>1. ASSUME NEW n \in 0..(m + 1)
          PROVE  g[n] = Step(g, n)
      <3>1. CASE n = m + 1
        <4>1. g[n] = Step(f, n) /\ n # 0
          BY <3>1, SMTT(30)
        <4>2. g[n - 1] = f[n - 1]
          BY <3>1, SMTT(30)
        <4> HIDE DEF g
        <4> QED
          BY <4>1, <4>2
      <3>2. CASE n # m + 1
        <4>1. n \in 0..m /\ g[n] = f[n]
          BY <3>2, SMTT(30)
        <4>2. f[n] = Step(f, n)
          BY <4>1
        <4>3. n # 0 => g[n - 1] = f[n - 1]
          BY <4>1, SMTT(30)
        <4> HIDE DEF g
        <4> QED
          BY <4>1, <4>2, <4>3
      <3> QED
        BY <3>1, <3>2
    <2>2. g = [n \in 0..(m + 1) |-> g[n]]
      OBVIOUS
    <2> HIDE DEF g
    <2>3. g = [n \in 0..(m + 1) |-> Step(g, n)]
      BY <2>1, <2>2
    <2>4. \E h : h = [n \in 0..(m + 1) |-> Step(h, n)]
      <3> HIDE DEF Step
      <3> QED
        BY <2>3
    <2> HIDE DEF Step
    <2> QED
      BY <2>4, SMTT(30)
  <1>3. L \in T
    <2> HIDE DEF T
    <2>1. Nat \subseteq T
      BY <1>1, <1>2, NatInd
    <2> QED
      BY <2>1
  <1>4. PICK f : f = [n \in 0..L |-> Step(f, n)]
    BY <1>3
  <1> DEFINE k == KeptOfPrefix(seq, S)
  <1>5. k = [n \in 0..L |-> Step(k, n)]
    BY <1>4 DEF KeptOfPrefix
  <1> HIDE DEF k
  <1>6. \A n \in 0..L : k[n] = Step(k, n)
    <2> HIDE DEF Step
    <2> QED
      BY <1>5
  <1>7. k[0] = <<>> /\ \A n \in 1..L : k[n] = Step(k, n)
    BY <1>6, SMTT(30)
  <1> QED
    BY <1>7, SMTT(30) DEF Filters, k

\* Nothing is kept of nothing.
LEMMA KeepEmpty ==
  ASSUME NEW S
  PROVE  Keep(<<>>, S) = <<>>
  BY FiltersExists DEF Keep, Filters

\* One more element is kept or not; what came before stays as it was.
LEMMA KeepAppend ==
  ASSUME NEW X, NEW seq \in Seq(X), NEW x \in X, NEW S
  PROVE  Keep(Append(seq, x), S) =
           IF x \in S THEN Append(Keep(seq, S), x) ELSE Keep(seq, S)
  <1> DEFINE more == Append(seq, x)
             L == Len(seq)
             f == KeptOfPrefix(seq, S)
             g == KeptOfPrefix(more, S)
             T == {n \in Nat : n <= L => g[n] = f[n]}
  <1>1. /\ L \in Nat /\ Len(more) = L + 1
        /\ \A n \in 1..L : more[n] = seq[n]
        /\ more[L + 1] = x
    BY SeqAppend, SMTT(30)
  <1>2. Filters(f, seq, S) /\ Filters(g, more, S)
    <2>1. Len(seq) \in Nat /\ Len(more) \in Nat
      BY <1>1, SMTT(30)
    <2> HIDE DEF more
    <2> QED
      BY <2>1, FiltersExists
  <1> HIDE DEF f, g, more, L
  <1>3. /\ f[0] = <<>> /\ g[0] = <<>>
        /\ \A n \in 1..L :
             f[n] = IF seq[n] \in S THEN Append(f[n - 1], seq[n]) ELSE f[n - 1]
        /\ \A n \in 1..(L + 1) :
             g[n] = IF more[n] \in S THEN Append(g[n - 1], more[n]) ELSE g[n - 1]
    BY <1>1, <1>2 DEF Filters, L
  <1>4. 0 \in T
    BY <1>3
  <1>5. ASSUME NEW n \in Nat, n \in T
        PROVE  n + 1 \in T
    <2> SUFFICES ASSUME n + 1 <= L
                 PROVE  g[n + 1] = f[n + 1]
      BY <1>1, SMTT(30)
    <2>1. g[n] = f[n] /\ n + 1 \in 1..L /\ n + 1 \in 1..(L + 1) /\ (n + 1) - 1 = n
      BY <1>1, <1>5, SMTT(30)
    <2> QED
      BY <1>1, <1>3, <2>1
  <1>6. L \in T
    <2> HIDE DEF T
    <2>1. Nat \subseteq T
      BY <1>4, <1>5, NatInd
    <2> QED
      BY <1>1, <2>1
  <1>7. g[L] = f[L]
    BY <1>1, <1>6, SMTT(30)
  <1>8. g[L + 1] = IF x \in S THEN Append(g[L], x) ELSE g[L]
    <2>1. L + 1 \in 1..(L + 1) /\ (L + 1) - 1 = L
      BY <1>1, SMTT(30)
    <2> QED
      BY <1>1, <1>3, <2>1
  <1>9. Keep(seq, S) = f[L] /\ Keep(more, S) = g[L + 1]
    BY <1>1 DEF Keep, f, g, L
  <1> QED
    BY <1>7, <1>8, <1>9 DEF more

\* The elements of kept are those of seq that are in S.
SameElements(kept, seq, S) ==
  /\ \A i \in 1..Len(kept) : kept[i] \in S /\ \E j \in 1..Len(seq) : seq[j] = kept[i]
  /\ \A j \in 1..Len(seq) : seq[j] \in S => \E i \in 1..Len(kept) : kept[i] = seq[j]

\* What is kept are the elements that are in S, and only those.
LEMMA KeepElements ==
  ASSUME NEW X, NEW seq \in Seq(X), NEW S
  PROVE  Keep(seq, S) \in Seq(X) /\ SameElements(Keep(seq, S), seq, S)
  <1> DEFINE L == Len(seq)
             f == KeptOfPrefix(seq, S)
             Good(k, n) ==
               /\ k \in Seq(X)
               /\ \A i \in 1..Len(k) : k[i] \in S /\ \E j \in 1..n : seq[j] = k[i]
               /\ \A j \in 1..n : seq[j] \in S => \E i \in 1..Len(k) : k[i] = seq[j]
             T == {n \in Nat : n <= L => Good(f[n], n)}
  <1>1. L \in Nat /\ \A n \in 1..L : seq[n] \in X
    BY SMTT(30)
  <1>2. /\ f[0] = <<>>
        /\ \A n \in 1..L :
             f[n] = IF seq[n] \in S THEN Append(f[n - 1], seq[n]) ELSE f[n - 1]
    BY FiltersExists, SMTT(30) DEF Filters
  <1> HIDE DEF f, L
  <1>3. 0 \in T
    <2>1. Good(<<>>, 0)
      BY SMTT(30)
    <2> HIDE DEF Good
    <2> QED
      BY <1>2, <2>1
  <1>4. ASSUME NEW n \in Nat, n \in T
        PROVE  n + 1 \in T
    <2> SUFFICES ASSUME n + 1 <= L
                 PROVE  Good(f[n + 1], n + 1)
      BY SMTT(30)
    <2> DEFINE k == f[n]
               x == seq[n + 1]
    <2>1. Good(k, n)
      BY <1>1, <1>4, SMTT(30)
    <2>2. n + 1 \in 1..L /\ (n + 1) - 1 = n /\ x \in X
      BY <1>1, SMTT(30)
    <2>3. f[n + 1] = IF x \in S THEN Append(k, x) ELSE k
      BY <1>2, <2>2
    <2> HIDE DEF k
    <2>4. CASE x \in S
      <3> DEFINE m == Append(k, x)
      <3>1. /\ m \in Seq(X) /\ Len(m) = Len(k) + 1 /\ Len(k) \in Nat
            /\ \A i \in 1..Len(k) : m[i] = k[i]
            /\ m[Len(k) + 1] = x
        BY <2>1, <2>2, SeqAppend, SMTT(30)
      <3> HIDE DEF m
      <3>2. ASSUME NEW i \in 1..Len(m)
            PROVE  m[i] \in S /\ \E j \in 1..(n + 1) : seq[j] = m[i]
        <4>1. CASE i = Len(k) + 1
          <5>1. m[i] = x /\ n + 1 \in 1..(n + 1)
            BY <3>1, <4>1, SMTT(30)
          <5> QED
            BY <2>4, <5>1
        <4>2. CASE i # Len(k) + 1
          <5>1. i \in 1..Len(k)
            BY <3>1, <4>2, SMTT(30)
          <5>2. k[i] \in S /\ m[i] = k[i]
            BY <2>1, <3>1, <5>1
          <5>3. PICK j \in 1..n : seq[j] = k[i]
            BY <2>1, <5>1
          <5>4. j \in 1..(n + 1)
            BY SMTT(30)
          <5> QED
            BY <5>2, <5>3, <5>4
        <4> QED
          BY <4>1, <4>2
      <3>3. ASSUME NEW j \in 1..(n + 1), seq[j] \in S
            PROVE  \E i \in 1..Len(m) : m[i] = seq[j]
        <4>1. CASE j = n + 1
          <5>1. Len(k) + 1 \in 1..Len(m)
            BY <3>1, SMTT(30)
          <5> QED
            BY <3>1, <4>1, <5>1
        <4>2. CASE j # n + 1
          <5>1. j \in 1..n
            BY <4>2, SMTT(30)
          <5>2. PICK i \in 1..Len(k) : k[i] = seq[j]
            BY <2>1, <3>3, <5>1
          <5>3. i \in 1..Len(m) /\ m[i] = k[i]
            BY <3>1, SMTT(30)
          <5> QED
            BY <5>2, <5>3
        <4> QED
          BY <4>1, <4>2
      <3> QED
        BY <2>3, <2>4, <3>1, <3>2, <3>3, SMTT(30) DEF m
    <2>5. CASE x \notin S
      <3>1. Good(k, n + 1)
        BY <2>1, <2>5, SMTT(30)
      <3> QED
        BY <2>3, <2>5, <3>1
    <2> QED
      BY <2>4, <2>5
  <1>5. L \in T
    <2> HIDE DEF T
    <2>1. Nat \subseteq T
      BY <1>3, <1>4, NatInd
    <2> QED
      BY <1>1, <2>1
  <1>6. Keep(seq, S) = f[L]
    BY DEF Keep, f, L
  <1>7. Good(f[L], L)
    BY <1>1, <1>5, SMTT(30)
  <1> QED
    BY <1>6, <1>7 DEF L, SameElements

-----------------------------------------------------------------------------
(***************************************************************************)
(* Finite sets ordered by a key that tells their elements apart.           *)
(***************************************************************************)
Keyed(D, key) ==
  /\ IsFiniteSet(D)
  /\ \A a \in D : key[a] \in Nat
  /\ \A a, b \in D : key[a] = key[b] => a = b

Above(S, key, a) == {b \in S : key[b] > key[a]}

\* The n elements with the greatest keys.
Top(S, key, n) == {a \in S : Cardinality(Above(S, key, a)) < n}

\* m is below all others: without it there is one element less, and nothing
\* changes above the others.
IsBottom(S, key, m) ==
  /\ \A a \in S \ {m} : key[m] < key[a]
  /\ Keyed(S \ {m}, key)
  /\ Cardinality(S \ {m}) = Cardinality(S) - 1
  /\ Above(S, key, m) = S \ {m}
  /\ \A a \in S \ {m} : Above(S, key, a) = Above(S \ {m}, key, a)

\* A non-empty set has such an element.
LEMMA Bottom ==
  ASSUME NEW S, NEW key, Keyed(S, key), S # {}
  PROVE  \E m \in S : IsBottom(S, key, m)
  <1>1. IsFiniteSet(S)
    BY DEF Keyed
  <1>2. PICK m \in S : \A a \in S : key[m] <= key[a]
    <2> DEFINE K == {key[a] : a \in S}
    <2>1. K \in SUBSET Nat /\ K # {}
      BY <1>1 DEF Keyed
    <2>2. PICK k \in K : \A j \in K : k <= j
      BY <2>1, Least
    <2> QED
      BY <2>2
  <1>3. \A a \in S \ {m} : key[m] < key[a]
    BY <1>2, SMTT(30) DEF Keyed
  <1>4. IsFiniteSet(S \ {m}) /\ Cardinality(S \ {m}) = Cardinality(S) - 1
    BY <1>1, FS_RemoveElement
  <1>5. Keyed(S \ {m}, key)
    BY <1>4 DEF Keyed
  <1>6. Above(S, key, m) = S \ {m}
    BY <1>3, SMTT(30) DEF Above, Keyed
  <1>7. \A a \in S \ {m} : Above(S, key, a) = Above(S \ {m}, key, a)
    BY <1>3, SMTT(30) DEF Above, Keyed
  <1> QED
    BY <1>3, <1>4, <1>5, <1>6, <1>7 DEF IsBottom

\* The top n elements are at most n, and exactly n unless they are all.
LEMMA TopSize ==
  ASSUME NEW key, NEW n \in Nat, NEW D, Keyed(D, key)
  PROVE  /\ Cardinality(Top(D, key, n)) <= n
         /\ Top(D, key, n) = D \/ Cardinality(Top(D, key, n)) = n
  <1> DEFINE Good(S) == /\ Cardinality(Top(S, key, n)) <= n
                        /\ Top(S, key, n) = S \/ Cardinality(Top(S, key, n)) = n
             T == {c \in Nat : \A S : Keyed(S, key) /\ Cardinality(S) = c => Good(S)}
  <1>1. 0 \in T
    <2> SUFFICES ASSUME NEW S, Keyed(S, key), Cardinality(S) = 0
                 PROVE  Good(S)
      OBVIOUS
    <2>1. S = {}
      BY FS_EmptySet DEF Keyed
    <2>2. Top(S, key, n) = {} /\ Cardinality({}) = 0
      BY <2>1, FS_EmptySet DEF Top
    <2> QED
      BY <2>1, <2>2, SMTT(30)
  <1>2. ASSUME NEW c \in Nat, c \in T
        PROVE  c + 1 \in T
    <2> SUFFICES ASSUME NEW S, Keyed(S, key), Cardinality(S) = c + 1
                 PROVE  Good(S)
      BY SMTT(30)
    <2>0. S # {}
      BY FS_EmptySet, SMTT(30)
    <2> PICK m \in S : IsBottom(S, key, m)
      BY <2>0, Bottom
    <2> /\ \A a \in S \ {m} : key[m] < key[a]
        /\ Keyed(S \ {m}, key) /\ Cardinality(S \ {m}) = c
        /\ Above(S, key, m) = S \ {m}
        /\ \A a \in S \ {m} : Above(S, key, a) = Above(S \ {m}, key, a)
      BY SMTT(30) DEF IsBottom
    <2> DEFINE R == S \ {m}
    <2>1. Good(R)
      BY <1>2
    <2>2. CASE c < n
      <3>1. \A a \in S : Cardinality(Above(S, key, a)) < n
        <4>1. Cardinality(Above(S, key, m)) < n
          BY <2>2
        <4>2. ASSUME NEW a \in R
              PROVE  Cardinality(Above(S, key, a)) < n
          <5>1. Above(S, key, a) \in SUBSET R /\ IsFiniteSet(R)
            BY SMTT(30) DEF Above, Keyed
          <5>2. Cardinality(Above(S, key, a)) <= c /\ Cardinality(Above(S, key, a)) \in Nat
            BY <5>1, FS_Subset, FS_CardinalityType
          <5> QED
            BY <2>2, <5>2, SMTT(30)
        <4> QED
          BY <4>1, <4>2
      <3>2. Top(S, key, n) = S
        BY <3>1 DEF Top
      <3> QED
        BY <2>2, <3>2, SMTT(30)
    <2>3. CASE ~(c < n)
      <3>1. Top(S, key, n) = Top(R, key, n)
        BY <2>3 DEF Top
      <3>2. Cardinality(Top(R, key, n)) = n
        <4>1. Top(R, key, n) = R => Cardinality(Top(R, key, n)) = c
          OBVIOUS
        <4> HIDE DEF R
        <4> QED
          BY <2>1, <2>3, <4>1, SMTT(30)
      <3> QED
        BY <3>1, <3>2, SMTT(30)
    <2> QED
      BY <2>2, <2>3
  <1>3. Cardinality(D) \in Nat
    BY FS_CardinalityType DEF Keyed
  <1>4. Cardinality(D) \in T
    <2> HIDE DEF T
    <2> QED
      BY <1>1, <1>2, <1>3, NatInd
  <1> HIDE DEF Good
  <1>5. Good(D)
    BY <1>4
  <1> QED
    BY <1>5 DEF Good

\* A list of a set in the order of its key.
Ascending(seq, S, key) ==
  /\ seq \in [1..Cardinality(S) -> S]
  /\ \A i, j \in 1..Cardinality(S) : i < j => key[seq[i]] < key[seq[j]]

\* A finite set can be listed in ascending order.
LEMMA AscendingExists ==
  ASSUME NEW key, NEW D, Keyed(D, key)
  PROVE  \E seq : Ascending(seq, D, key)
  <1> DEFINE T == {c \in Nat : \A S : Keyed(S, key) /\ Cardinality(S) = c
                                        => \E seq : Ascending(seq, S, key)}
  <1>1. 0 \in T
    <2> SUFFICES ASSUME NEW S, Keyed(S, key), Cardinality(S) = 0
                 PROVE  \E seq : Ascending(seq, S, key)
      OBVIOUS
    <2> DEFINE seq == [i \in 1..0 |-> i]
    <2>1. Ascending(seq, S, key)
      BY SMTT(30) DEF Ascending
    <2> QED
      BY <2>1
  <1>2. ASSUME NEW c \in Nat, c \in T
        PROVE  c + 1 \in T
    <2> SUFFICES ASSUME NEW S, Keyed(S, key), Cardinality(S) = c + 1
                 PROVE  \E seq : Ascending(seq, S, key)
      BY SMTT(30)
    <2>0. S # {}
      BY FS_EmptySet, SMTT(30)
    <2> PICK m \in S : IsBottom(S, key, m)
      BY <2>0, Bottom
    <2> /\ \A a \in S \ {m} : key[m] < key[a]
        /\ Keyed(S \ {m}, key) /\ Cardinality(S \ {m}) = c
        /\ Above(S, key, m) = S \ {m}
        /\ \A a \in S \ {m} : Above(S, key, a) = Above(S \ {m}, key, a)
      BY SMTT(30) DEF IsBottom
    <2>1. PICK rest : Ascending(rest, S \ {m}, key)
      BY <1>2
    <2>2. /\ rest \in [1..c -> S \ {m}]
          /\ \A i, j \in 1..c : i < j => key[rest[i]] < key[rest[j]]
      BY <2>1 DEF Ascending
    <2> DEFINE seq == [i \in 1..(c + 1) |-> IF i = 1 THEN m ELSE rest[i - 1]]
    <2>3. seq \in [1..(c + 1) -> S]
      BY <2>2, SMTT(30)
    <2>4. ASSUME NEW i \in 1..(c + 1), NEW j \in 1..(c + 1), i < j
          PROVE  key[seq[i]] < key[seq[j]]
      <3>1. j - 1 \in 1..c /\ seq[j] = rest[j - 1] /\ rest[j - 1] \in S \ {m}
        BY <2>2, <2>4, SMTT(30)
      <3>2. CASE i = 1
        BY <3>1, <3>2
      <3>3. CASE i # 1
        <4>1. i - 1 \in 1..c /\ i - 1 < j - 1 /\ seq[i] = rest[i - 1]
          BY <2>4, <3>3, SMTT(30)
        <4> HIDE DEF seq
        <4> QED
          BY <2>2, <3>1, <4>1
      <3> QED
        BY <3>2, <3>3
    <2> HIDE DEF seq
    <2>5. Ascending(seq, S, key)
      BY <2>3, <2>4 DEF Ascending
    <2> QED
      BY <2>5
  <1>3. Cardinality(D) \in Nat
    BY FS_CardinalityType DEF Keyed
  <1>4. Cardinality(D) \in T
    <2> HIDE DEF T
    <2> QED
      BY <1>1, <1>2, <1>3, NatInd
  <1> QED
    BY <1>4

=============================================================================
