---------------------------- MODULE RoutingProofs ----------------------------
(***************************************************************************)
(* What BackendSelector promises, for every set of configurations and      *)
(* requests and every sequence of selections and reloads.                  *)
(***************************************************************************)
EXTENDS Routing, Induction

\* Zenon proves the steps that name no prover.
USE ZenonT(20)

-----------------------------------------------------------------------------
(***************************************************************************)
(* The inductive invariant.                                                *)
(***************************************************************************)

\* select goes on to look for candidates.
Routed(c, q) == q.model # None => has_route(c, q.model)

\* What select returns for q under c: an error without candidates, or all
\* candidates, rotated.
Found(c, q, s) ==
  /\ candidates(c, q) # <<>>
  /\ \E n \in 0..(Len(candidates(c, q)) - 1) :
       s = [request |-> q, error |-> None, candidates |-> rotate_left(candidates(c, q), n)]

NothingFound(c, q, s) ==
  /\ candidates(c, q) = <<>>
  /\ s = [request |-> q, error |-> selection_error(c, q), candidates |-> <<>>]

Answers(c, s) ==
  IF s.error = "not_asked" THEN s = NoSelection
  ELSE \E q \in Requests :
       \/ s = [request |-> q, error |-> "model_not_found", candidates |-> <<>>]
       \/ Routed(c, q) /\ (Found(c, q, s) \/ NothingFound(c, q, s))

\* The primaries that turn remembers are those of the counter's last values, as
\* far as the counter has not wrapped since.
Cycle(turn, counter) ==
  LET k == Len(turn.primaries)
  IN /\ k <= Len(turn.candidates)
     /\ \A i \in 1..k :
          counter >= k - i + 1 =>
            turn.primaries[i] = (counter - (k - i + 1)) % Len(turn.candidates)

Turn == [candidates : Seq(Candidate), primaries : Seq(Nat)]

RInv ==
  /\ config \in Configs
  /\ counters \in [Models \cup Paths -> 0..(CounterModulus - 1)]
  /\ Answers(config, selection)
  /\ turns \in [Models \cup Paths -> Turn]
  /\ \A key \in Models \cup Paths : Cycle(turns[key], counters[key])

-----------------------------------------------------------------------------
(***************************************************************************)
(* Remainders.                                                             *)
(***************************************************************************)

\* The index that a counter or a hash gives is one of the list.
LEMMA RemainderType ==
  ASSUME NEW x \in Nat, NEW L \in Nat \ {0}
  PROVE  x % L \in 0..(L - 1)
  BY SMTT(30)

\* Division with remainder.
LEMMA Division ==
  ASSUME NEW x \in Nat, NEW L \in Nat \ {0},
         NEW a, a = x \div L, NEW r, r = x % L
  PROVE  a \in Int /\ r \in 0..(L - 1) /\ x = L * a + r
  BY SMTT(30)

\* Remainders of numbers less than L apart differ.
LEMMA RemaindersDiffer ==
  ASSUME NEW L \in Nat \ {0}, NEW x \in Nat, NEW y \in Nat, x < y, y - x < L
  PROVE  x % L # y % L
  <1> SUFFICES ASSUME x % L = y % L
               PROVE  FALSE
    OBVIOUS
  <1>1. PICK a, b, r : a = x \div L /\ b = y \div L /\ r = x % L /\ r = y % L
    OBVIOUS
  <1>2. a \in Int /\ b \in Int /\ r \in 0..(L - 1) /\ x = L * a + r /\ y = L * b + r
    <2>1. a \in Int /\ r \in 0..(L - 1) /\ x = L * a + r
      BY <1>1, Division, SMTT(30)
    <2>2. b \in Int /\ y = L * b + r
      BY <1>1, Division, SMTT(30)
    <2> QED
      BY <2>1, <2>2
  <1>3. y - x = L * (b - a)
    BY <1>2, SMTT(30)
  <1>4. b - a >= 1 => L * (b - a) >= L
    BY <1>2, SMTT(30)
  <1>5. b - a <= 0 => L * (b - a) <= 0
    BY <1>2, SMTT(30)
  <1> QED
    BY <1>2, <1>3, <1>4, <1>5, SMTT(30)

\* Below twice L, the remainder is the number or L less.
LEMMA RemainderOnce ==
  ASSUME NEW L \in Nat \ {0}, NEW x \in 0..(2 * L - 1)
  PROVE  x % L = IF x < L THEN x ELSE x - L
  <1> DEFINE a == x \div L
             r == x % L
  <1>1. a \in Int /\ r \in 0..(L - 1) /\ x = L * a + r
    BY Division, SMTT(30)
  <1> HIDE DEF a, r
  <1>2. a >= 0
    <2>1. a <= -1 => L * a <= -L
      BY <1>1, SMTT(30)
    <2> QED
      BY <1>1, <2>1, SMTT(30)
  <1>3. a <= 1
    <2>1. a >= 2 => L * a >= 2 * L
      BY <1>1, SMTT(30)
    <2> QED
      BY <1>1, <2>1, SMTT(30)
  <1>4. a = 0 \/ a = 1
    BY <1>1, <1>2, <1>3, SMTT(30)
  <1> QED
    BY <1>1, <1>4, SMTT(30) DEF r

-----------------------------------------------------------------------------
(***************************************************************************)
(* Rotation.                                                               *)
(***************************************************************************)

\* t is seq, started n later and closed to a circle.
Rotated(t, seq, n) ==
  /\ Len(t) = Len(seq)
  /\ \A i \in 1..Len(seq) : t[i] = seq[((i + n - 1) % Len(seq)) + 1]

\* rotate_left starts n later and loses nothing.
LEMMA RotateLeft ==
  ASSUME NEW S, NEW seq \in Seq(S), NEW n \in 0..(Len(seq) - 1)
  PROVE  rotate_left(seq, n) \in Seq(S) /\ Rotated(rotate_left(seq, n), seq, n)
  <1> DEFINE L == Len(seq)
             a == SubSeq(seq, n + 1, L)
             b == SubSeq(seq, 1, n)
  <1>1. L \in Nat \ {0} /\ n \in Nat /\ n < L /\ \A i \in 1..L : seq[i] \in S
    BY SMTT(30)
  <1>2. /\ a \in Seq(S) /\ Len(a) = L - n
        /\ \A i \in 1..(L - n) : a[i] = seq[n + i]
    BY <1>1, SeqPart, SMTT(30)
  <1>3. /\ b \in Seq(S) /\ Len(b) = n
        /\ \A i \in 1..n : b[i] = seq[i]
    BY <1>1, SeqPart, SMTT(30)
  <1>4. rotate_left(seq, n) = a \o b
    BY DEF rotate_left
  <1> HIDE DEF a, b, L
  <1>5. /\ a \o b \in Seq(S) /\ Len(a \o b) = L
        /\ \A i \in 1..L : (a \o b)[i] = IF i <= L - n THEN a[i] ELSE b[i - (L - n)]
    <2>1. /\ a \o b \in Seq(S) /\ Len(a \o b) = Len(a) + Len(b)
          /\ \A i \in 1..(Len(a) + Len(b)) :
               (a \o b)[i] = IF i <= Len(a) THEN a[i] ELSE b[i - Len(a)]
      BY <1>2, <1>3, SeqJoin
    <2>2. Len(a) = L - n /\ Len(a) + Len(b) = L
      BY <1>1, <1>2, <1>3, SMTT(30)
    <2> QED
      BY <2>1, <2>2
  <1>6. ASSUME NEW i \in 1..L
        PROVE  (a \o b)[i] = seq[((i + n - 1) % L) + 1]
    <2>1. PICK x \in 0..(2 * L - 1) : x = i + n - 1
      BY <1>1, SMTT(30)
    <2>2. PICK r : r = x % L
      OBVIOUS
    <2>3. r = IF x < L THEN x ELSE x - L
      BY <1>1, <2>2, RemainderOnce
    <2>4. CASE i <= L - n
      <3>1. i \in 1..(L - n) /\ r + 1 = n + i
        BY <1>1, <2>1, <2>3, <2>4, SMTT(30)
      <3> QED
        BY <1>2, <1>5, <2>1, <2>2, <2>4, <3>1
    <2>5. CASE ~(i <= L - n)
      <3>1. i - (L - n) \in 1..n /\ r + 1 = i - (L - n)
        BY <1>1, <2>1, <2>3, <2>5, SMTT(30)
      <3> QED
        BY <1>3, <1>5, <2>1, <2>2, <2>5, <3>1
    <2> QED
      BY <2>4, <2>5
  <1> QED
    BY <1>4, <1>5, <1>6 DEF Rotated, L

-----------------------------------------------------------------------------
(***************************************************************************)
(* Weights.                                                                *)
(***************************************************************************)

\* A function of the sums of the first n weights.
Sums(f, seq) ==
  /\ f[0] = 0
  /\ \A n \in 1..Len(seq) : f[n] = f[n - 1] + seq[n].weight

\* The recursive function of cumulative satisfies its defining equations.
LEMMA SumsExist ==
  ASSUME NEW seq, Len(seq) \in Nat
  PROVE  Sums(cumulative(seq), seq)
  <1> DEFINE L == Len(seq)
             Step(f, n) == IF n = 0 THEN 0 ELSE f[n - 1] + seq[n].weight
             T == {m \in Nat : \E f : f = [n \in 0..m |-> Step(f, n)]}
  <1>1. 0 \in T
    <2> DEFINE f == [n \in 0..0 |-> 0]
    <2>1. f = [n \in 0..0 |-> Step(f, n)]
      BY SMTT(30)
    <2> HIDE DEF Step, f
    <2> QED
      BY <2>1
  <1>2. ASSUME NEW m \in Nat, m \in T
        PROVE  m + 1 \in T
    <2> PICK f : f = [n \in 0..m |-> Step(f, n)]
      BY <1>2
    <2> DEFINE g == [n \in 0..(m + 1) |-> IF n = m + 1 THEN Step(f, n) ELSE f[n]]
    <2>1. ASSUME NEW n \in 0..(m + 1)
          PROVE  g[n] = Step(g, n)
      <3>1. CASE n = m + 1
        <4>1. g[n] = Step(f, n) /\ n # 0
          BY <3>1, SMTT(30)
        <4>2. g[n - 1] = f[n - 1]
          BY <3>1, SMTT(30)
        <4> HIDE DEF g
        <4> QED
          BY <4>1, <4>2
      <3>2. CASE n # m + 1
        <4>1. n \in 0..m /\ g[n] = f[n]
          BY <3>2, SMTT(30)
        <4>2. f[n] = Step(f, n)
          BY <4>1
        <4>3. n # 0 => g[n - 1] = f[n - 1]
          BY <4>1, SMTT(30)
        <4> HIDE DEF g
        <4> QED
          BY <4>1, <4>2, <4>3
      <3> QED
        BY <3>1, <3>2
    <2>2. g = [n \in 0..(m + 1) |-> g[n]]
      OBVIOUS
    <2> HIDE DEF g
    <2>3. g = [n \in 0..(m + 1) |-> Step(g, n)]
      BY <2>1, <2>2
    <2>4. \E h : h = [n \in 0..(m + 1) |-> Step(h, n)]
      <3> HIDE DEF Step
      <3> QED
        BY <2>3
    <2> HIDE DEF Step
    <2> QED
      BY <2>4, SMTT(30)
  <1>3. L \in T
    <2> HIDE DEF T
    <2>1. Nat \subseteq T
      BY <1>1, <1>2, NatInd
    <2> QED
      BY <2>1
  <1>4. PICK f : f = [n \in 0..L |-> Step(f, n)]
    BY <1>3
  <1> DEFINE k == cumulative(seq)
  <1>5. k = [n \in 0..L |-> Step(k, n)]
    BY <1>4 DEF cumulative
  <1> HIDE DEF k
  <1>6. \A n \in 0..L : k[n] = Step(k, n)
    <2> HIDE DEF Step
    <2> QED
      BY <1>5
  <1>7. k[0] = 0 /\ \A n \in 1..L : k[n] = Step(k, n)
    BY <1>6, SMTT(30)
  <1> QED
    BY <1>7, SMTT(30) DEF Sums, k

\* Sums of positive weights grow.
LEMMA SumsGrow ==
  ASSUME NEW seq \in Seq(Candidate), NEW f, Sums(f, seq)
  PROVE  /\ \A i \in 0..Len(seq) : f[i] \in Nat
         /\ \A i, j \in 0..Len(seq) : i < j => f[i] < f[j]
  <1> DEFINE L == Len(seq)
             T == {m \in Nat : m <= L => /\ \A i \in 0..m : f[i] \in Nat
                                         /\ \A i \in 0..(m - 1) : f[i] < f[m]}
             w(n) == seq[n].weight
  <1>1. /\ L \in Nat /\ f[0] = 0
        /\ \A n \in 1..L : f[n] = f[n - 1] + w(n) /\ w(n) \in Nat \ {0}
    <2>1. L \in Nat /\ \A n \in 1..L : seq[n] \in Candidate
      BY SMTT(30)
    <2>2. \A x \in Candidate : x.weight \in Nat \ {0}
      BY DEF Candidate
    <2> QED
      BY <2>1, <2>2 DEF Sums
  <1> HIDE DEF L, w
  <1>2. 0 \in T
    BY <1>1, SMTT(30)
  <1>3. ASSUME NEW m \in Nat, m \in T
        PROVE  m + 1 \in T
    <2> SUFFICES ASSUME m + 1 <= L
                 PROVE  (\A i \in 0..(m + 1) : f[i] \in Nat) /\ \A i \in 0..m : f[i] < f[m + 1]
      BY SMTT(30)
    <2>1. (\A i \in 0..m : f[i] \in Nat) /\ \A i \in 0..(m - 1) : f[i] < f[m]
      BY <1>1, <1>3, SMTT(30)
    <2>2. f[m + 1] = f[m] + w(m + 1) /\ w(m + 1) \in Nat \ {0}
      BY <1>1, SMTT(30)
    <2> QED
      BY <2>1, <2>2, SMTT(30)
  <1>4. Nat \subseteq T
    <2> HIDE DEF T
    <2> QED
      BY <1>2, <1>3, NatInd
  <1>5. \A i \in 0..L : f[i] \in Nat
    BY <1>1, <1>4, SMTT(30)
  <1>6. \A i, j \in 0..L : i < j => f[i] < f[j]
    BY <1>1, <1>4, SMTT(30)
  <1> QED
    BY <1>5, <1>6 DEF L

\* The sums of the weights of seq, which are positive.
Grows(f, seq) ==
  /\ Len(seq) \in Nat \ {0} /\ f[0] = 0
  /\ \A i \in 0..Len(seq) : f[i] \in Nat
  /\ \A i, j \in 0..Len(seq) : i < j => f[i] < f[j]
  /\ \A i \in 1..Len(seq) : seq[i].weight \in Nat /\ f[i] = f[i - 1] + seq[i].weight

\* cumulative gives the sums of the weights.
LEMMA CumulativeGrows ==
  ASSUME NEW seq \in Seq(Candidate), seq # <<>>, NEW f, f = cumulative(seq)
  PROVE  Grows(f, seq)
  <1>1. Len(seq) \in Nat \ {0} /\ \A n \in 1..Len(seq) : seq[n] \in Candidate
    BY SMTT(30)
  <1>2. \A x \in Candidate : x.weight \in Nat
    BY DEF Candidate
  <1>3. Sums(f, seq)
    BY <1>1, SumsExist
  <1>4. /\ \A i \in 0..Len(seq) : f[i] \in Nat
        /\ \A i, j \in 0..Len(seq) : i < j => f[i] < f[j]
    BY <1>3, SumsGrow
  <1> QED
    BY <1>1, <1>2, <1>3, <1>4 DEF Grows, Sums

\* The pick falls to the candidate k, and to no other.
Picks(f, L, pick, k) ==
  /\ k \in 1..L /\ f[k - 1] <= pick /\ pick < f[k]
  /\ \A i \in 1..L : f[i - 1] <= pick /\ pick < f[i] => i = k

\* Every pick of weighted_rotate below the total falls to one candidate.
LEMMA WeightedIndex ==
  ASSUME NEW seq \in Seq(Candidate), seq # <<>>, NEW f, f = cumulative(seq),
         NEW pick \in 0..(f[Len(seq)] - 1)
  PROVE  \E k : Picks(f, Len(seq), pick, k) /\ weighted_index(seq, pick) = k - 1
  <1> DEFINE L == Len(seq)
             hits == {i \in DOMAIN seq : pick < f[i]}
             least(i) == \A j \in hits : i <= j
             m == CHOOSE i \in hits : least(i)
  <1>1. /\ L \in Nat \ {0} /\ f[0] = 0
        /\ \A i \in 0..L : f[i] \in Nat
        /\ \A i, j \in 0..L : i < j => f[i] < f[j]
    BY CumulativeGrows DEF Grows
  <1>2. hits = {i \in 1..L : pick < f[i]}
    BY SMTT(30)
  <1>3. weighted_index(seq, pick) = m - 1
    BY DEF weighted_index
  <1> HIDE DEF L, hits
  <1>4. \E i \in hits : least(i)
    <2>1. hits \in SUBSET Nat /\ L \in hits
      BY <1>1, <1>2, SMTT(30) DEF L
    <2> HIDE DEF hits
    <2> QED
      BY <2>1, Least
  <1>5. m \in hits /\ least(m)
    <2> HIDE DEF least
    <2> QED
      BY <1>4
  <1>6. m \in 1..L /\ pick < f[m] /\ \A j \in 1..L : pick < f[j] => m <= j
    <2> HIDE DEF m
    <2> QED
      BY <1>2, <1>5
  <1> HIDE DEF m
  <1>7. pick \in Nat
    BY <1>1, SMTT(30) DEF L
  <1>8. f[m - 1] <= pick
    BY <1>1, <1>6, <1>7, SMTT(30)
  <1>9. ASSUME NEW i \in 1..L, f[i - 1] <= pick, pick < f[i]
        PROVE  i = m
    BY <1>1, <1>6, <1>7, <1>9, SMTT(30)
  <1>10. Picks(f, L, pick, m)
    BY <1>6, <1>8, <1>9 DEF Picks
  <1> QED
    BY <1>3, <1>10 DEF L

\* Each candidate is the primary for as many picks as its weight.
LEMMA Share ==
  ASSUME NEW seq \in Seq(Candidate), seq # <<>>, NEW f, f = cumulative(seq),
         NEW i \in 1..Len(seq)
  PROVE  seq[i].weight =
           Cardinality({pick \in 0..(f[Len(seq)] - 1) : weighted_index(seq, pick) = i - 1})
  <1> DEFINE L == Len(seq)
             w == seq[i].weight
             share == {pick \in 0..(f[L] - 1) : weighted_index(seq, pick) = i - 1}
  <1>1. /\ L \in Nat \ {0} /\ f[0] = 0 /\ w \in Nat /\ f[i] = f[i - 1] + w
        /\ \A j \in 0..L : f[j] \in Nat
        /\ \A j, k \in 0..L : j < k => f[j] < f[k]
    BY CumulativeGrows DEF Grows
  <1>3. share = f[i - 1]..(f[i] - 1)
    <2>1. f[i - 1] \in Nat /\ f[i] \in Nat /\ f[L] \in Nat /\ f[i] <= f[L]
      BY <1>1, SMTT(30)
    <2>2. ASSUME NEW pick \in 0..(f[L] - 1)
          PROVE  weighted_index(seq, pick) = i - 1 <=> f[i - 1] <= pick /\ pick < f[i]
      <3>1. PICK k : Picks(f, L, pick, k) /\ weighted_index(seq, pick) = k - 1
        BY WeightedIndex
      <3>2. k = i <=> f[i - 1] <= pick /\ pick < f[i]
        BY <3>1 DEF Picks
      <3>3. k \in Int /\ (k - 1 = i - 1 <=> k = i)
        BY <3>1, SMTT(30) DEF Picks
      <3> QED
        BY <3>1, <3>2, <3>3
    <2> QED
      BY <2>1, <2>2, SMTT(30)
  <1>4. Cardinality(f[i - 1]..(f[i] - 1)) = w
    <2> HIDE DEF w
    <2>1. PICK a \in Nat, b \in Nat : a = f[i - 1] /\ b = f[i] /\ b = a + w /\ w \in Nat /\ a < b
      BY <1>1, SMTT(30)
    <2>2. a \in Int /\ b - 1 \in Int /\ ~(a > b - 1) /\ (b - 1) - a + 1 = w
      BY <2>1, SMTT(30)
    <2>3. Cardinality(a..(b - 1)) = IF a > b - 1 THEN 0 ELSE (b - 1) - a + 1
      BY <2>2, FS_Interval
    <2> QED
      BY <2>1, <2>2, <2>3
  <1> QED
    BY <1>3, <1>4
-----------------------------------------------------------------------------
(***************************************************************************)
(* Candidates.                                                             *)
(***************************************************************************)

\* One of the configured backends.
Configured(c, backend) == \E j \in 1..Len(c.backends) : backend = c.backends[j]

\* A configured backend is found by its id.
LEMMA BackendOf ==
  ASSUME NEW c \in Configs, NEW backend, Configured(c, backend)
  PROVE  backend_of(c, backend.id) = backend
  <1>1. PICK j \in 1..Len(c.backends) : backend = c.backends[j]
    BY DEF Configured
  <1>2. /\ c.backends \in Seq(Backend)
        /\ \A i, k \in DOMAIN c.backends : c.backends[i].id = c.backends[k].id => i = k
    BY LoadedAssumption DEF IsConfig
  <1>3. j \in DOMAIN c.backends
    BY <1>2, SMTT(30)
  <1> DEFINE k == CHOOSE i \in DOMAIN c.backends : c.backends[i].id = backend.id
  <1>4. k \in DOMAIN c.backends /\ c.backends[k].id = backend.id
    BY <1>1, <1>3
  <1>5. k = j
    BY <1>1, <1>2, <1>3, <1>4
  <1>6. backend_of(c, backend.id) = c.backends[k]
    BY DEF backend_of
  <1> QED
    BY <1>1, <1>5, <1>6

\* The backends that a route binds are configured.
LEMMA RouteFor ==
  ASSUME NEW c \in Configs, NEW key, has_route(c, key)
  PROVE  LET bound == route_for(c, key).backends
         IN /\ bound \in Seq(BackendIds)
            /\ \A k \in 1..Len(bound) :
                 \E j \in 1..Len(c.backends) : c.backends[j].id = bound[k]
  <1> DEFINE r == CHOOSE i \in DOMAIN c.routes : c.routes[i].key = key
             bound == route_for(c, key).backends
  <1>1. /\ c.backends \in Seq(Backend) /\ c.routes \in Seq(Route)
        /\ \A i \in DOMAIN c.routes : \A k \in DOMAIN c.routes[i].backends :
             \E j \in DOMAIN c.backends : c.backends[j].id = c.routes[i].backends[k]
    BY LoadedAssumption DEF IsConfig
  <1>2. r \in DOMAIN c.routes
    BY DEF has_route
  <1>3. bound = c.routes[r].backends
    BY DEF route_for
  <1> HIDE DEF r, bound
  <1>4. c.routes[r] \in Route
    BY <1>1, <1>2, SMTT(30)
  <1>5. bound \in Seq(BackendIds)
    BY <1>3, <1>4 DEF Route
  <1>6. DOMAIN bound = 1..Len(bound) /\ DOMAIN c.backends = 1..Len(c.backends)
    BY <1>1, <1>5, SMTT(30)
  <1>7. \A k \in 1..Len(bound) : \E j \in 1..Len(c.backends) : c.backends[j].id = bound[k]
    BY <1>1, <1>2, <1>3, <1>6
  <1> QED
    BY <1>5, <1>7 DEF bound

\* select looks at configured backends only.
LEMMA Considered ==
  ASSUME NEW c \in Configs, NEW q, Routed(c, q)
  PROVE  LET seq == considered(c, q)
         IN seq \in Seq(Backend) /\ \A i \in 1..Len(seq) : Configured(c, seq[i])
  <1>1. c.backends \in Seq(Backend)
    BY LoadedAssumption DEF IsConfig
  <1>2. CASE q.model # None
    <2> DEFINE bound == route_for(c, q.model).backends
               seq == [i \in DOMAIN bound |-> backend_of(c, bound[i])]
    <2>1. considered(c, q) = seq
      BY <1>2 DEF considered
    <2>2. /\ bound \in Seq(BackendIds)
          /\ \A k \in 1..Len(bound) :
               \E j \in 1..Len(c.backends) : c.backends[j].id = bound[k]
      BY <1>2, RouteFor DEF Routed
    <2> HIDE DEF bound
    <2>3. ASSUME NEW i \in 1..Len(bound)
          PROVE  Configured(c, backend_of(c, bound[i]))
      <3>1. PICK j \in 1..Len(c.backends) : c.backends[j].id = bound[i]
        BY <2>2
      <3>2. Configured(c, c.backends[j])
        BY DEF Configured
      <3>3. backend_of(c, bound[i]) = c.backends[j]
        BY <3>1, <3>2, BackendOf
      <3> QED
        BY <3>2, <3>3
    <2>4. \A backend : Configured(c, backend) => backend \in Backend
      BY <1>1, SMTT(30) DEF Configured
    <2>5. DOMAIN bound = 1..Len(bound) /\ Len(bound) \in Nat
      BY <2>2, SMTT(30)
    <2>6. /\ seq \in Seq(Backend) /\ Len(seq) = Len(bound)
          /\ \A i \in 1..Len(bound) : seq[i] = backend_of(c, bound[i])
      BY <2>3, <2>4, <2>5, SMTT(30)
    <2> HIDE DEF seq
    <2> QED
      BY <2>1, <2>3, <2>6
  <1>3. CASE q.model = None
    <2> DEFINE S == {backend \in Range(c.backends) :
                       has_route(c, q.path) => backend.id \in Range(route_for(c, q.path).backends)}
    <2>1. considered(c, q) = Keep(c.backends, S)
      BY <1>3 DEF considered
    <2> HIDE DEF S
    <2>2. /\ Keep(c.backends, S) \in Seq(Backend)
          /\ SameElements(Keep(c.backends, S), c.backends, S)
      BY <1>1, KeepElements
    <2>3. \A i \in 1..Len(Keep(c.backends, S)) : Configured(c, Keep(c.backends, S)[i])
      BY <2>2 DEF SameElements, Configured
    <2> QED
      BY <2>1, <2>2, <2>3
  <1> QED
    BY <1>2, <1>3

\* A mode is one of the five, or None.
LEMMA ModeType ==
  ASSUME NEW q, NEW backend, NEW expose
  PROVE  mode(q, backend, expose) \in RequestMode \cup {None}
  <1> DEFINE m == request_mode_for_path(q.path, backend.supports, expose)
  <1>1. request_mode_for_responses(backend.supports, expose) \in RequestMode \cup {None}
    BY DEF request_mode_for_responses, RequestMode
  <1>2. request_mode_for_chat_completions(backend.supports, expose) \in RequestMode \cup {None}
    BY DEF request_mode_for_chat_completions, RequestMode
  <1>3. request_mode_for_messages(backend.supports, expose) \in RequestMode \cup {None}
    BY DEF request_mode_for_messages, RequestMode
  <1>4. m \in RequestMode \cup {None}
    <2>1. CASE q.path = "/v1/responses"
      BY <1>1, <2>1 DEF request_mode_for_path
    <2>2. CASE q.path = "/v1/chat/completions"
      BY <1>2, <2>2 DEF request_mode_for_path
    <2>3. CASE q.path = "/v1/messages"
      BY <1>3, <2>3 DEF request_mode_for_path
    <2>4. CASE q.path \notin Dialects
      <3>1. q.path # "/v1/responses" /\ q.path # "/v1/chat/completions" /\ q.path # "/v1/messages"
        BY <2>4 DEF Dialects
      <3> QED
        BY <3>1 DEF request_mode_for_path, RequestMode
    <2> QED
      BY <2>1, <2>2, <2>3, <2>4 DEF Dialects
  <1> HIDE DEF m
  <1> QED
    BY <1>4 DEF mode, m

\* The candidate that backend is for q.
CandidateOf(c, q, backend, candidate) ==
  /\ Configured(c, backend)
  /\ is_eligible(q, backend, expose_of(c, q))
  /\ candidate = build_candidate(q, backend, expose_of(c, q))

\* The candidates are those of the eligible backends among the considered ones.
LEMMA Candidates ==
  ASSUME NEW c \in Configs, NEW q, Routed(c, q)
  PROVE  LET seq == candidates(c, q)
         IN /\ seq \in Seq(Candidate)
            /\ \A i \in 1..Len(seq) : \E backend : CandidateOf(c, q, backend, seq[i])
            /\ seq # <<>> <=> \E backend \in Range(considered(c, q)) :
                                is_eligible(q, backend, expose_of(c, q))
  <1> DEFINE expose == expose_of(c, q)
             looked == considered(c, q)
             S == {backend \in Range(looked) : is_eligible(q, backend, expose)}
             eligible == Keep(looked, S)
             seq == [i \in DOMAIN eligible |-> build_candidate(q, eligible[i], expose)]
  <1>1. candidates(c, q) = seq
    BY DEF candidates
  <1>2. looked \in Seq(Backend) /\ \A i \in 1..Len(looked) : Configured(c, looked[i])
    BY Considered
  <1> HIDE DEF expose, looked
  <1>3. \A backend : backend \in Range(looked) <=> \E i \in 1..Len(looked) : looked[i] = backend
    BY <1>2, SMTT(30) DEF Range
  <1>4. eligible \in Seq(Backend) /\ SameElements(eligible, looked, S)
    <2> HIDE DEF S
    <2> QED
      BY <1>2, KeepElements
  <1>5. ASSUME NEW i \in 1..Len(eligible)
        PROVE  Configured(c, eligible[i]) /\ is_eligible(q, eligible[i], expose)
    <2>1. eligible[i] \in S
      BY <1>4 DEF SameElements
    <2> QED
      BY <1>2, <1>3, <2>1
  <1>6. DOMAIN eligible = 1..Len(eligible) /\ Len(eligible) \in Nat
    BY <1>4, SMTT(30)
  <1>7. ASSUME NEW i \in 1..Len(eligible)
        PROVE  build_candidate(q, eligible[i], expose) \in Candidate
    <2>1. eligible[i] \in Backend
      BY <1>4, SMTT(30)
    <2>2. eligible[i].id \in BackendIds /\ eligible[i].weight \in Nat \ {0}
      BY <2>1 DEF Backend
    <2>3. mode(q, eligible[i], expose) \in RequestMode
      BY <1>5, ModeType DEF is_eligible
    <2> QED
      BY <2>2, <2>3 DEF build_candidate, Candidate
  <1>8. eligible # <<>> <=> \E backend \in Range(looked) : is_eligible(q, backend, expose)
    <2>1. ASSUME eligible # <<>>
          PROVE  \E backend \in Range(looked) : is_eligible(q, backend, expose)
      <3>1. 1 \in 1..Len(eligible)
        BY <1>4, <2>1, SMTT(30)
      <3> QED
        BY <1>4, <3>1 DEF SameElements
    <2>2. ASSUME NEW backend \in Range(looked), is_eligible(q, backend, expose)
          PROVE  eligible # <<>>
      <3>1. PICK i \in 1..Len(eligible) : eligible[i] = backend
        BY <1>3, <1>4, <2>2 DEF SameElements
      <3> QED
        BY <1>4, SMTT(30)
    <2> QED
      BY <2>1, <2>2
  <1> HIDE DEF eligible
  <1>9. /\ seq \in Seq(Candidate) /\ Len(seq) = Len(eligible)
        /\ \A i \in 1..Len(eligible) : seq[i] = build_candidate(q, eligible[i], expose)
    BY <1>6, <1>7, SMTT(30)
  <1>10. seq # <<>> <=> eligible # <<>>
    BY <1>4, <1>9, SMTT(30)
  <1>11. \A i \in 1..Len(seq) : \E backend : CandidateOf(c, q, backend, seq[i])
    BY <1>5, <1>9 DEF CandidateOf, expose
  <1> HIDE DEF seq
  <1> QED
    BY <1>1, <1>8, <1>9, <1>10, <1>11 DEF expose, looked

-----------------------------------------------------------------------------
(***************************************************************************)
(* The invariant holds.                                                    *)
(***************************************************************************)

\* What a request has in it.
LEMMA RequestFields ==
  ASSUME NEW q \in Requests
  PROVE  /\ q \in Request /\ key_of(q) \in Models \cup Paths /\ q.sticky \in Nat
         /\ q.model \in Models \cup {None} /\ q.path \in Paths /\ q.tools \in BOOLEAN
  <1>1. q \in Request
    BY RequestsAssumption
  <1>2. /\ q.sticky \in Nat /\ q.model \in Models \cup {None} /\ q.path \in Paths
        /\ q.tools \in BOOLEAN
    BY <1>1 DEF Request
  <1> QED
    BY <1>1, <1>2 DEF key_of

\* Every strategy rotates by less than the number of candidates.
LEMMA Rotations ==
  ASSUME RInv, NEW q \in Requests, NEW seq \in Seq(Candidate), seq # <<>>,
         NEW n \in rotations(q, seq)
  PROVE  n \in 0..(Len(seq) - 1)
  <1> DEFINE L == Len(seq)
             f == cumulative(seq)
  <1>1. L \in Nat \ {0}
    BY SMTT(30)
  <1>2. config.strategy \in {"priority", "sticky", "round_robin", "weighted_random"}
    BY LoadedAssumption DEF RInv, IsConfig
  <1>3. q.sticky \in Nat /\ counters[key_of(q)] \in Nat
    <2>1. counters[key_of(q)] \in 0..(CounterModulus - 1)
      BY RequestFields DEF RInv
    <2> QED
      BY <2>1, RequestFields, ModulusAssumption, SMTT(30)
  <1>4. CASE config.strategy = "priority"
    <2>1. n = 0
      BY <1>4 DEF rotations
    <2> QED
      BY <1>1, <2>1, SMTT(30)
  <1>5. CASE config.strategy = "sticky"
    <2>1. n = q.sticky % L
      BY <1>5 DEF rotations
    <2> HIDE DEF L
    <2>2. n \in 0..(L - 1)
      BY <1>1, <1>3, <2>1, RemainderType
    <2> QED
      BY <2>2 DEF L
  <1>6. CASE config.strategy = "round_robin"
    <2>1. n = counters[key_of(q)] % L
      BY <1>6 DEF rotations
    <2> HIDE DEF L
    <2>2. n \in 0..(L - 1)
      BY <1>1, <1>3, <2>1, RemainderType
    <2> QED
      BY <2>2 DEF L
  <1>7. CASE config.strategy = "weighted_random"
    <2>1. PICK pick \in 0..(f[Len(seq)] - 1) : n = weighted_index(seq, pick)
      BY <1>7 DEF rotations
    <2> HIDE DEF f
    <2>2. PICK k : Picks(f, Len(seq), pick, k) /\ n = k - 1
      BY <2>1, WeightedIndex DEF f
    <2> QED
      BY <1>1, <2>2, SMTT(30) DEF Picks
  <1> QED
    BY <1>2, <1>4, <1>5, <1>6, <1>7

\* One more turn of a key, the counter's.
LEMMA AnotherTurn ==
  ASSUME NEW turn \in Turn, NEW counter \in 0..(CounterModulus - 1), Cycle(turn, counter),
         NEW seq \in Seq(Candidate), seq # <<>>, NEW n, n = counter % Len(seq),
         NEW next, next = (counter + 1) % CounterModulus
  PROVE  /\ another_turn(turn, seq, n) \in Turn
         /\ Cycle(another_turn(turn, seq, n), next)
  <1> DEFINE L == Len(seq)
             p == turn.primaries
             k == Len(p)
             t == another_turn(turn, seq, n)
  <1>1. L \in Nat \ {0} /\ CounterModulus \in Nat \ {0} /\ counter \in Nat
    BY ModulusAssumption, SMTT(30)
  <1>2. n \in Nat
    <2> HIDE DEF L
    <2>1. n \in 0..(L - 1)
      BY <1>1, RemainderType DEF L
    <2> QED
      BY <1>1, <2>1, SMTT(30)
  <1>3. turn.candidates \in Seq(Candidate) /\ p \in Seq(Nat)
    BY DEF Turn
  <1>4. next = 0 \/ next = counter + 1
    <2>1. PICK x \in 0..(2 * CounterModulus - 1) : x = counter + 1 /\ x <= CounterModulus
      BY <1>1, SMTT(30)
    <2>2. next = x % CounterModulus
      BY <2>1
    <2>3. next = IF x < CounterModulus THEN x ELSE x - CounterModulus
      BY <1>1, <2>2, RemainderOnce
    <2> QED
      BY <1>1, <2>1, <2>3, SMTT(30)
  <1>5. CASE turn.candidates # seq
    <2>1. t = [candidates |-> seq, primaries |-> <<n>>]
      BY <1>5 DEF another_turn
    <2> DEFINE s == <<n>>
    <2>a. s \in Seq(Nat) /\ Len(s) = 1 /\ s[1] = n
      BY <1>2, SMTT(30)
    <2>b. t = [candidates |-> seq, primaries |-> s]
      BY <2>1
    <2> HIDE DEF s, t
    <2>2. t \in Turn /\ t.candidates = seq /\ t.primaries = s
      BY <2>a, <2>b DEF Turn
    <2>3. Len(t.primaries) = 1 /\ t.primaries[1] = n
      BY <2>2, <2>a
    <2>4. next >= 1 => n = (next - 1) % L
      <3>1. next >= 1 => next - 1 = counter
        BY <1>1, <1>4, SMTT(30)
      <3> QED
        BY <3>1
    <2> HIDE DEF L
    <2>5. \A i \in 1..1 : i = 1 /\ 1 - i + 1 = 1
      BY SMTT(30)
    <2>6. 1 <= L
      BY <1>1, SMTT(30)
    <2>7. Cycle(t, next)
      BY <2>2, <2>3, <2>4, <2>5, <2>6 DEF Cycle, L
    <2> QED
      BY <2>2, <2>7 DEF t
  <1>6. CASE turn.candidates = seq
    <2> DEFINE o == IF k < L THEN p ELSE Tail(p)
    <2>1. t = [turn EXCEPT !.primaries = Append(o, n)]
      BY <1>6 DEF another_turn
    <2>2. t = [candidates |-> seq, primaries |-> Append(o, n)]
      BY <1>6, <2>1 DEF Turn
    <2>3. /\ k \in Nat /\ k <= L
          /\ \A i \in 1..k : counter >= k - i + 1 => p[i] = (counter - (k - i + 1)) % L
      <3>1. k \in Nat
        BY <1>3, SMTT(30)
      <3> QED
        BY <1>6, <3>1 DEF Cycle
    <2> DEFINE d == IF k < L THEN 0 ELSE 1
    <2>4. /\ o \in Seq(Nat) /\ Len(o) = k - d
          /\ \A i \in 1..(k - d) : o[i] = p[i + d]
      <3>1. CASE k < L
        BY <1>3, <2>3, <3>1, SMTT(30)
      <3>2. CASE ~(k < L)
        <4>1. o = Tail(p) /\ p # <<>> /\ d = 1
          BY <1>1, <1>3, <2>3, <3>2, SMTT(30)
        <4>2. /\ Tail(p) \in Seq(Nat) /\ Len(Tail(p)) = k - 1
              /\ \A i \in 1..Len(Tail(p)) : Tail(p)[i] = p[i + 1]
          BY <1>3, <4>1, SeqTail
        <4> HIDE DEF o, d
        <4> QED
          BY <4>1, <4>2
      <3> QED
        BY <3>1, <3>2
    <2>5. k - d \in Nat /\ d \in {0, 1} /\ (k - d) + 1 <= L
      BY <1>1, <2>3, SMTT(30)
    <2> HIDE DEF o, d, t, L, k, p
    <2> DEFINE s == Append(o, n)
               h == (k - d) + 1
    <2>6. /\ s \in Seq(Nat) /\ Len(s) = h /\ s[h] = n
          /\ \A i \in 1..(k - d) : s[i] = p[i + d]
      BY <1>2, <2>4, <2>5, SeqAppend, SMTT(30)
    <2> HIDE DEF s
    <2>7. ASSUME NEW i \in 1..h, next >= h - i + 1
          PROVE  s[i] = (next - (h - i + 1)) % L
      <3>1. next = counter + 1
        BY <1>1, <1>4, <2>5, <2>7, SMTT(30)
      <3>2. CASE i = h
        <4>1. next - (h - i + 1) = counter
          <5>1. h - i + 1 = 1
            BY <2>5, <3>2, SMTT(30)
          <5> QED
            BY <1>1, <3>1, <5>1, SMTT(30)
        <4> QED
          BY <2>6, <3>2, <4>1 DEF L
      <3>3. CASE i # h
        <4>1. /\ i \in 1..(k - d) /\ i + d \in 1..k /\ counter >= k - (i + d) + 1
              /\ next - (h - i + 1) = counter - (k - (i + d) + 1)
          <5>1. i \in Nat /\ 1 <= i /\ i <= k - d /\ k \in Nat /\ d \in Nat
            BY <2>3, <2>5, <3>3, SMTT(30)
          <5>2. counter + 1 >= h - i + 1 /\ counter \in Nat
            BY <1>1, <2>7, <3>1
          <5> QED
            BY <3>1, <5>1, <5>2, SMTT(30)
        <4>2. p[i + d] = (counter - (k - (i + d) + 1)) % L
          BY <2>3, <4>1
        <4> QED
          BY <2>6, <4>1, <4>2
      <3> QED
        BY <3>2, <3>3
    <2>8. t.candidates = seq /\ t.primaries = s /\ t \in Turn
      BY <2>2, <2>6 DEF Turn, s
    <2>9. Cycle(t, next)
      BY <2>5, <2>6, <2>7, <2>8 DEF Cycle, L
    <2> QED
      BY <2>8, <2>9 DEF t
  <1> QED
    BY <1>5, <1>6

\* The invariant holds when the process starts.
LEMMA InitInv ==
  ASSUME Init
  PROVE  RInv
  <1> DEFINE K == Models \cup Paths
  <1>1. config \in Configs
    BY DEF Init
  <1>2. counters = [key \in K |-> 0] /\ 0 \in 0..(CounterModulus - 1)
    BY ModulusAssumption, SMTT(30) DEF Init
  <1>3. counters \in [K -> 0..(CounterModulus - 1)]
    <2> HIDE DEF K
    <2> QED
      BY <1>2
  <1>4. Answers(config, selection)
    BY DEF Init, Answers, NoSelection
  <1>5. NoTurns \in Turn /\ \A counter : Cycle(NoTurns, counter)
    <2>1. NoTurns.candidates = <<>> /\ NoTurns.primaries = <<>>
      BY DEF NoTurns
    <2>2. \A S : <<>> \in Seq(S)
      BY SMTT(30)
    <2>3. Len(<<>>) <= Len(<<>>) /\ 1..Len(<<>>) = {}
      BY SMTT(30)
    <2> QED
      BY <2>1, <2>2, <2>3 DEF Turn, Cycle, NoTurns
  <1>6. turns = [key \in K |-> NoTurns]
    BY DEF Init
  <1> HIDE DEF K
  <1>7. turns \in [K -> Turn] /\ \A key \in K : Cycle(turns[key], counters[key])
    BY <1>5, <1>6
  <1> QED
    BY <1>1, <1>3, <1>4, <1>7 DEF RInv, K

\* A selection keeps it.
LEMMA SelectInv ==
  ASSUME RInv, NEW q \in Requests, Select(q)
  PROVE  RInv'
  <1> DEFINE seq == candidates(config, q)
             key == key_of(q)
             K == Models \cup Paths
  <1>1. Routed(config, q) /\ seq # <<>> /\ config' = config
    BY DEF Select, Routed
  <1>2. PICK n \in rotations(q, seq) :
          /\ selection' = [request |-> q, error |-> None, candidates |-> rotate_left(seq, n)]
          /\ IF config.strategy = "round_robin"
             THEN /\ next_index(q)
                  /\ turns' = [turns EXCEPT ![key] = another_turn(@, seq, n)]
             ELSE UNCHANGED <<counters, turns>>
    BY DEF Select
  <1>3. seq \in Seq(Candidate)
    BY <1>1, Candidates DEF RInv
  <1>4. n \in 0..(Len(seq) - 1)
    BY <1>1, <1>3, Rotations
  <1>5. Found(config, q, selection')
    BY <1>1, <1>2, <1>4 DEF Found
  <1>6. Answers(config, selection')
    <2>1. selection'.error # "not_asked"
      BY <1>2 DEF None
    <2> QED
      BY <1>1, <1>5, <2>1 DEF Answers
  <1>7. CASE config.strategy = "round_robin"
    <2> HIDE DEF seq, key
    <2> DEFINE c == counters[key]
               t == another_turn(turns[key], seq, n)
               x == (c + 1) % CounterModulus
    <2>1. /\ key \in K /\ counters \in [K -> 0..(CounterModulus - 1)] /\ turns \in [K -> Turn]
          /\ \A k \in K : Cycle(turns[k], counters[k])
      BY RequestFields DEF RInv, key
    <2>2. n = c % Len(seq)
      BY <1>2, <1>7 DEF rotations, key
    <2>3. c \in 0..(CounterModulus - 1) /\ turns[key] \in Turn /\ Cycle(turns[key], c)
      BY <2>1
    <2>4. t \in Turn /\ Cycle(t, x)
      BY <1>1, <1>3, <2>2, <2>3, AnotherTurn
    <2>5. x \in 0..(CounterModulus - 1)
      <3>1. CounterModulus \in Nat \ {0} /\ c + 1 \in Nat
        BY <2>3, ModulusAssumption, SMTT(30)
      <3> QED
        BY <3>1, RemainderType
    <2>6. counters' = [counters EXCEPT ![key] = x] /\ turns' = [turns EXCEPT ![key] = t]
      BY <1>2, <1>7 DEF next_index, key
    <2> HIDE DEF x, t, c, K
    <2>7. counters' \in [K -> 0..(CounterModulus - 1)] /\ turns' \in [K -> Turn]
      BY <2>1, <2>4, <2>5, <2>6
    <2>8. \A k \in K : Cycle(turns'[k], counters'[k])
      BY <2>1, <2>4, <2>6
    <2> QED
      BY <1>1, <1>6, <2>7, <2>8 DEF RInv, K
  <1>8. CASE config.strategy # "round_robin"
    BY <1>1, <1>2, <1>6, <1>8 DEF RInv
  <1> QED
    BY <1>7, <1>8

\* An answer without candidates, a reload and a stuttering step keep it too.
LEMMA NextInv ==
  ASSUME RInv, [Next]_vars
  PROVE  RInv'
  <1>1. ASSUME NEW q \in Requests, ModelNotFound(q)
        PROVE  RInv'
    <2>1. /\ selection' = [request |-> q, error |-> "model_not_found", candidates |-> <<>>]
          /\ UNCHANGED <<config, counters, turns>>
      BY <1>1 DEF ModelNotFound, Fail
    <2>2. Answers(config, selection')
      BY <2>1 DEF Answers
    <2> QED
      BY <2>1, <2>2 DEF RInv
  <1>2. ASSUME NEW q \in Requests, NoCandidate(q)
        PROVE  RInv'
    <2>1. /\ Routed(config, q) /\ NothingFound(config, q, selection')
          /\ UNCHANGED <<config, counters, turns>>
      BY <1>2 DEF NoCandidate, Fail, Routed, NothingFound
    <2>2. selection'.error # "not_asked"
      BY <2>1 DEF NothingFound, selection_error
    <2>3. Answers(config, selection')
      BY <2>1, <2>2 DEF Answers
    <2> QED
      BY <2>1, <2>3 DEF RInv
  <1>3. ASSUME Reload
        PROVE  RInv'
    <2>1. config' \in Configs /\ selection' = NoSelection /\ UNCHANGED <<counters, turns>>
      BY <1>3, LoadedAssumption DEF Reload
    <2>2. Answers(config', selection')
      BY <2>1 DEF Answers, NoSelection
    <2> QED
      BY <2>1, <2>2 DEF RInv
  <1>4. ASSUME UNCHANGED vars
        PROVE  RInv'
    BY <1>4 DEF RInv, vars
  <1> QED
    BY <1>1, <1>2, <1>3, <1>4, SelectInv DEF Next

\* The invariant holds in every state.
LEMMA Inductive ==
  Spec => []RInv
  BY InitInv, NextInv, PTL DEF Spec

-----------------------------------------------------------------------------
(***************************************************************************)
(* What it says of a selection.                                            *)
(***************************************************************************)

\* A selection that succeeded has all candidates of its request, rotated.
Selected(q) ==
  /\ q \in Requests /\ Routed(config, q)
  /\ selection.request = q /\ selection.error = None
  /\ candidates(config, q) \in Seq(Candidate) /\ candidates(config, q) # <<>>
  /\ selection.candidates \in Seq(Candidate)
  /\ \E n \in 0..(Len(candidates(config, q)) - 1) :
       Rotated(selection.candidates, candidates(config, q), n)

\* One that failed has none.
Failed(q) ==
  /\ q \in Requests
  /\ selection.request = q /\ selection.candidates = <<>>
  /\ \/ selection.error = "model_not_found"
     \/ /\ Routed(config, q) /\ candidates(config, q) = <<>>
        /\ selection.error = selection_error(config, q)

\* There was no selection yet under this configuration, or it is one of these.
LEMMA Selections ==
  ASSUME RInv
  PROVE  \/ selection = NoSelection
         \/ \E q : Selected(q) \/ Failed(q)
  <1>1. CASE selection.error = "not_asked"
    BY <1>1 DEF RInv, Answers
  <1>2. CASE selection.error # "not_asked"
    <2>1. PICK q \in Requests :
            \/ selection = [request |-> q, error |-> "model_not_found", candidates |-> <<>>]
            \/ /\ Routed(config, q)
               /\ Found(config, q, selection) \/ NothingFound(config, q, selection)
      BY <1>2 DEF RInv, Answers
    <2>2. CASE selection = [request |-> q, error |-> "model_not_found", candidates |-> <<>>]
      BY <2>2 DEF Failed
    <2>3. CASE Routed(config, q) /\ NothingFound(config, q, selection)
      BY <2>3 DEF Failed, NothingFound
    <2>4. CASE Routed(config, q) /\ Found(config, q, selection)
      <3> DEFINE seq == candidates(config, q)
      <3>1. seq \in Seq(Candidate)
        BY <2>4, Candidates DEF RInv
      <3>2. PICK n \in 0..(Len(seq) - 1) :
              selection = [request |-> q, error |-> None, candidates |-> rotate_left(seq, n)]
        BY <2>4 DEF Found
      <3>3. /\ rotate_left(seq, n) \in Seq(Candidate)
            /\ Rotated(rotate_left(seq, n), seq, n)
        BY <3>1, RotateLeft
      <3>4. /\ selection.request = q /\ selection.error = None
            /\ selection.candidates = rotate_left(seq, n)
        BY <3>2
      <3> QED
        BY <2>4, <3>1, <3>3, <3>4 DEF Selected, Found
    <2> QED
      BY <2>1, <2>2, <2>3, <2>4
  <1> QED
    BY <1>1, <1>2

\* Every candidate that select returned is that of an eligible backend.
LEMMA SelectedCandidate ==
  ASSUME RInv, NEW q, Selected(q), NEW i \in DOMAIN selection.candidates
  PROVE  /\ selection.candidates[i] \in Candidate
         /\ \E backend : CandidateOf(config, q, backend, selection.candidates[i])
  <1> DEFINE seq == candidates(config, q)
             L == Len(seq)
  <1>1. PICK n \in 0..(L - 1) : Rotated(selection.candidates, seq, n)
    BY DEF Selected
  <1>2. /\ seq \in Seq(Candidate) /\ selection.candidates \in Seq(Candidate)
        /\ \A j \in 1..L : \E backend : CandidateOf(config, q, backend, seq[j])
    BY Candidates DEF RInv, Selected
  <1>3. L \in Nat /\ i \in 1..L /\ selection.candidates[i] \in Candidate
    <2>1. Len(selection.candidates) = L
      BY <1>1 DEF Rotated
    <2> QED
      BY <1>2, <2>1, SMTT(30)
  <1> HIDE DEF L
  <1>4. ((i + n - 1) % L) + 1 \in 1..L
    <2>1. PICK x \in Nat : x = i + n - 1
      BY <1>3, SMTT(30)
    <2>2. x % L \in 0..(L - 1)
      <3>1. L \in Nat \ {0}
        BY <1>3, SMTT(30)
      <3> QED
        BY <3>1, RemainderType
    <2>3. \A r \in 0..(L - 1) : r + 1 \in 1..L
      BY <1>3, SMTT(30)
    <2> QED
      BY <2>1, <2>2, <2>3
  <1>5. selection.candidates[i] = seq[((i + n - 1) % L) + 1]
    BY <1>1, <1>3 DEF Rotated, L
  <1> QED
    BY <1>2, <1>3, <1>4, <1>5

\* Without a selection there is nothing to say.
LEMMA NotAsked ==
  ASSUME selection = NoSelection
  PROVE  selection.error = "not_asked" /\ selection.candidates = <<>> /\ DOMAIN <<>> = {}
  <1>1. selection.error = "not_asked" /\ selection.candidates = <<>>
    BY DEF NoSelection
  <1> QED
    BY <1>1, SMTT(30)

\* The state has its types, and a counter wraps.
THEOREM TypeCorrect == Spec => []TypeOK
  <1>1. ASSUME RInv
        PROVE  TypeOK
    <2>1. IsConfig(config) /\ counters \in [Models \cup Paths -> 0..(CounterModulus - 1)]
      BY <1>1, LoadedAssumption DEF RInv
    <2>2. CASE selection = NoSelection
      BY <2>1, <2>2, NotAsked DEF TypeOK
    <2>3. ASSUME NEW q, Selected(q)
          PROVE  TypeOK
      BY <1>1, <2>1, <2>3, SelectedCandidate DEF TypeOK, Selected
    <2>4. ASSUME NEW q, Failed(q)
          PROVE  TypeOK
      <3>1. DOMAIN <<>> = {}
        BY SMTT(30)
      <3> QED
        BY <2>1, <2>4, <3>1 DEF TypeOK, Failed
    <2> QED
      BY <1>1, <2>2, <2>3, <2>4, Selections
  <1> QED
    BY <1>1, Inductive, PTL

\* Whatever the strategy, every candidate is returned once, in its cyclic order.
THEOREM FallbacksKept == Spec => []SelectionKeepsFallbacks
  <1>1. ASSUME RInv
        PROVE  SelectionKeepsFallbacks
    <2>1. CASE selection = NoSelection
      BY <2>1, NotAsked DEF SelectionKeepsFallbacks
    <2>2. ASSUME NEW q, Selected(q)
          PROVE  SelectionKeepsFallbacks
      <3> DEFINE seq == candidates(config, q)
      <3>1. PICK n \in 0..(Len(seq) - 1) : Rotated(selection.candidates, seq, n)
        BY <2>2 DEF Selected
      <3>2. seq \in Seq(Candidate) /\ selection.request = q
        BY <2>2 DEF Selected
      <3>3. DOMAIN seq = 1..Len(seq)
        <4> HIDE DEF seq
        <4> QED
          BY <3>2, SMTT(30)
      <3> QED
        BY <3>1, <3>2, <3>3 DEF SelectionKeepsFallbacks, Rotated
    <2>3. ASSUME NEW q, Failed(q)
          PROVE  SelectionKeepsFallbacks
      BY <2>3 DEF SelectionKeepsFallbacks, Failed
    <2> QED
      BY <1>1, <2>1, <2>2, <2>3, Selections
  <1> QED
    BY <1>1, Inductive, PTL

-----------------------------------------------------------------------------
(***************************************************************************)
(* Translated dialects.                                                    *)
(***************************************************************************)
Responses(markers) == markers \cap {"responses", "response", "all"} # {}
Chat(markers) == markers \cap {"chat", "chat_completions", "completions", "all"} # {}
Messages(markers) == markers \cap {"messages", "all"} # {}

\* Markers stand for a dialect by one of its names or by "all".
LEMMA Markers ==
  ASSUME NEW markers
  PROVE  /\ supports_responses(markers) <=> Responses(markers)
         /\ supports_chat_compat(markers) <=> Chat(markers)
         /\ supports_messages(markers) <=> Messages(markers)
  <1>1. supports_responses(markers) <=> Responses(markers)
    BY DEF supports_responses, supports_candidates, has_capability, Responses
  <1>2. supports_chat_compat(markers) <=> Chat(markers)
    BY DEF supports_chat_compat, supports_candidates, has_capability, Chat
  <1>3. supports_messages(markers) <=> Messages(markers)
    BY DEF supports_messages, has_capability, Messages
  <1> QED
    BY <1>1, <1>2, <1>3

\* The translation m is asked for, possible and needed.
Explicit(path, supports, expose, m) ==
  LET native(markers) == IF path = "/v1/responses" THEN Responses(markers) ELSE Chat(markers)
  IN /\ IF expose = {} THEN m \in supports ELSE m \in expose
     /\ \/ m = "responses_via_chat_completions" /\ Chat(supports)
        \/ m = "chat_completions_via_responses" /\ Responses(supports)
        \/ m = "chat_completions_via_messages" /\ Messages(supports)
     /\ ~(native(supports) /\ (expose = {} \/ native(expose)))

\* The mode of a backend is native or explicit.
LEMMA ModeExplicit ==
  ASSUME NEW q, NEW backend, NEW expose, NEW m, m = mode(q, backend, expose), m # None,
         m \notin {"native", "anthropic_messages_native"}
  PROVE  Explicit(q.path, backend.supports, expose, m)
  <1> DEFINE s == backend.supports
  <1>0. m = request_mode_for_path(q.path, s, expose)
    BY DEF mode
  <1>1. CASE q.path = "/v1/responses"
    <2>1. m = request_mode_for_responses(s, expose)
      BY <1>0, <1>1 DEF request_mode_for_path
    <2>2. /\ m = "responses_via_chat_completions" /\ supports_chat_compat(s)
          /\ ~(supports_responses(s) /\ (expose = {} \/ supports_responses(expose)))
          /\ m \in IF expose # {} THEN expose ELSE s
      BY <2>1 DEF request_mode_for_responses, route_supports_compat_marker
    <2> QED
      BY <1>1, <2>2, Markers DEF Explicit
  <1>2. CASE q.path = "/v1/chat/completions"
    <2>1. m = request_mode_for_chat_completions(s, expose)
      BY <1>0, <1>2 DEF request_mode_for_path
    <2>2. /\ \/ m = "chat_completions_via_responses" /\ supports_responses(s)
             \/ m = "chat_completions_via_messages" /\ supports_messages(s)
          /\ ~(supports_chat_compat(s) /\ (expose = {} \/ supports_chat_compat(expose)))
          /\ m \in IF expose # {} THEN expose ELSE s
      BY <2>1 DEF request_mode_for_chat_completions, route_supports_compat_marker
    <2> QED
      BY <1>2, <2>2, Markers DEF Explicit
  <1>3. q.path # "/v1/messages"
    BY <1>0 DEF request_mode_for_path, request_mode_for_messages
  <1>4. CASE q.path # "/v1/responses" /\ q.path # "/v1/chat/completions"
    BY <1>0, <1>3, <1>4 DEF request_mode_for_path
  <1> QED
    BY <1>1, <1>2, <1>4

\* request_mode_for_path picks a translation only where the route's expose names its
\* marker (or the backend does, when expose is empty), the backend serves the
\* dialect translated to, and backend and route do not serve the request natively.
THEOREM TranslationIsExplicit == Spec => []CompatIsExplicit
  <1>1. ASSUME RInv
        PROVE  CompatIsExplicit
    <2>1. CASE selection = NoSelection
      BY <2>1, NotAsked DEF CompatIsExplicit
    <2>2. ASSUME NEW q, Failed(q)
          PROVE  CompatIsExplicit
      <3>1. DOMAIN <<>> = {}
        BY SMTT(30)
      <3> QED
        BY <2>2, <3>1 DEF CompatIsExplicit, Failed
    <2>3. ASSUME NEW q, Selected(q)
          PROVE  CompatIsExplicit
      <3> DEFINE x(i) == selection.candidates[i]
                 expose == expose_of(config, q)
      <3>1. ASSUME NEW i \in DOMAIN selection.candidates,
                   x(i).request_mode \notin {"native", "anthropic_messages_native"}
            PROVE  Explicit(q.path, backend_of(config, x(i).backend_id).supports, expose,
                            x(i).request_mode)
        <4>1. PICK backend : CandidateOf(config, q, backend, x(i))
          BY <1>1, <2>3, SelectedCandidate
        <4>2. /\ x(i).backend_id = backend.id
              /\ x(i).request_mode = mode(q, backend, expose)
              /\ mode(q, backend, expose) # None
          <5>1. x(i) = build_candidate(q, backend, expose) /\ is_eligible(q, backend, expose)
            BY <4>1 DEF CandidateOf
          <5>2. /\ build_candidate(q, backend, expose).backend_id = backend.id
                /\ build_candidate(q, backend, expose).request_mode = mode(q, backend, expose)
            BY DEF build_candidate
          <5>3. mode(q, backend, expose) # None
            BY <5>1 DEF is_eligible
          <5> QED
            BY <5>1, <5>2, <5>3
        <4>3. backend_of(config, x(i).backend_id) = backend
          BY <1>1, <4>1, <4>2, BackendOf DEF CandidateOf, RInv
        <4> QED
          BY <3>1, <4>2, <4>3, ModeExplicit
      <3>2. selection.request = q
        BY <2>3 DEF Selected
      <3> QED
        BY <3>1, <3>2 DEF CompatIsExplicit, Explicit, Responses, Chat, Messages
    <2> QED
      BY <1>1, <2>1, <2>2, <2>3, Selections
  <1> QED
    BY <1>1, Inductive, PTL

-----------------------------------------------------------------------------
(***************************************************************************)
(* Errors, turns and odds.                                                 *)
(***************************************************************************)

\* Without its tools, a request looks at the same backends in the same modes.
LEMMA WithoutTools ==
  ASSUME NEW c, NEW q \in Request, NEW p, p = [q EXCEPT !.tools = FALSE]
  PROVE  /\ considered(c, p) = considered(c, q) /\ expose_of(c, p) = expose_of(c, q)
         /\ Routed(c, p) <=> Routed(c, q)
         /\ \A backend, expose : is_eligible(p, backend, expose) <=>
                                   mode(q, backend, expose) # None
  <1>1. /\ p.path = q.path /\ p.model = q.model /\ p.stream = q.stream
        /\ p.tools = FALSE
    BY DEF Request
  <1>2. considered(c, p) = considered(c, q)
    <2> DEFINE F(model, path) ==
                 IF model # None
                 THEN LET bound == route_for(c, model).backends
                      IN [i \in DOMAIN bound |-> backend_of(c, bound[i])]
                 ELSE Keep(c.backends, {backend \in Range(c.backends) :
                        has_route(c, path) => backend.id \in Range(route_for(c, path).backends)})
    <2>1. considered(c, p) = F(p.model, p.path) /\ considered(c, q) = F(q.model, q.path)
      BY DEF considered
    <2> HIDE DEF F
    <2> QED
      BY <1>1, <2>1
  <1>3. expose_of(c, p) = expose_of(c, q)
    <2> DEFINE F(key) == IF has_route(c, key) THEN route_for(c, key).expose ELSE {}
    <2>1. expose_of(c, p) = F(key_of(p)) /\ expose_of(c, q) = F(key_of(q))
      BY DEF expose_of
    <2>2. key_of(p) = key_of(q)
      BY <1>1 DEF key_of
    <2> HIDE DEF F
    <2> QED
      BY <2>1, <2>2
  <1>4. Routed(c, p) <=> Routed(c, q)
    BY <1>1 DEF Routed
  <1>5. ASSUME NEW backend, NEW expose
        PROVE  mode(p, backend, expose) = mode(q, backend, expose)
    <2> DEFINE F(stream, path) ==
                 IF stream /\ ~has_capability(backend.supports, "streaming") THEN None
                 ELSE request_mode_for_path(path, backend.supports, expose)
    <2>1. /\ mode(p, backend, expose) = F(p.stream, p.path)
          /\ mode(q, backend, expose) = F(q.stream, q.path)
      BY DEF mode
    <2> HIDE DEF F
    <2> QED
      BY <1>1, <2>1
  <1> QED
    BY <1>1, <1>2, <1>3, <1>4, <1>5 DEF is_eligible

\* An empty list of candidates is blamed on the tools if there were some without.
LEMMA ErrorBlames ==
  ASSUME NEW c \in Configs, NEW q \in Requests, Routed(c, q), candidates(c, q) = <<>>
  PROVE  selection_error(c, q) = "tools_unsupported" <=>
           q.tools /\ candidates(c, [q EXCEPT !.tools = FALSE]) # <<>>
  <1>1. PICK p : p = [q EXCEPT !.tools = FALSE]
    OBVIOUS
  <1>2. /\ considered(c, p) = considered(c, q) /\ expose_of(c, p) = expose_of(c, q)
        /\ Routed(c, p)
        /\ \A backend, expose : is_eligible(p, backend, expose) <=>
                                  mode(q, backend, expose) # None
    BY <1>1, RequestFields, WithoutTools
  <1>3. candidates(c, p) # <<>> <=> \E backend \in Range(considered(c, p)) :
                                      is_eligible(p, backend, expose_of(c, p))
    BY <1>2, Candidates
  <1>4. candidates(c, p) # <<>> <=> \E backend \in Range(considered(c, q)) :
                                      mode(q, backend, expose_of(c, q)) # None
    BY <1>2, <1>3
  <1> QED
    BY <1>1, <1>4 DEF selection_error

\* The tools are blamed exactly when the request has candidates without them.
THEOREM ToolsBlamedRightly == Spec => []ToolsErrorIsAboutTools
  <1>1. ASSUME RInv
        PROVE  ToolsErrorIsAboutTools
    <2>1. CASE selection = NoSelection
      BY <2>1, NotAsked DEF ToolsErrorIsAboutTools
    <2>2. ASSUME NEW q, Selected(q)
          PROVE  ToolsErrorIsAboutTools
      <3>1. /\ selection.request = q /\ candidates(config, q) # <<>>
            /\ selection.error # "tools_unsupported"
        BY <2>2 DEF Selected, None
      <3> QED
        BY <3>1 DEF ToolsErrorIsAboutTools
    <2>3. ASSUME NEW q, Failed(q)
          PROVE  ToolsErrorIsAboutTools
      <3>1. CASE selection.error = "model_not_found"
        BY <3>1 DEF ToolsErrorIsAboutTools
      <3>2. CASE /\ Routed(config, q) /\ candidates(config, q) = <<>>
                 /\ selection.error = selection_error(config, q)
        <4>1. selection_error(config, q) = "tools_unsupported" <=>
                q.tools /\ candidates(config, [q EXCEPT !.tools = FALSE]) # <<>>
          BY <1>1, <2>3, <3>2, ErrorBlames DEF RInv, Failed
        <4>2. selection.request = q
          BY <2>3 DEF Failed
        <4> QED
          BY <3>2, <4>1, <4>2 DEF ToolsErrorIsAboutTools
      <3> QED
        BY <2>3, <3>1, <3>2 DEF Failed
    <2> QED
      BY <1>1, <2>1, <2>2, <2>3, Selections
  <1> QED
    BY <1>1, Inductive, PTL

\* As long as the candidates of a key stay the same, they take turns.
THEOREM RoundRobinTakesTurns == Spec => []RoundRobinCycles
  <1>1. ASSUME RInv
        PROVE  RoundRobinCycles
    <2> SUFFICES ASSUME NEW key \in Models \cup Paths,
                        counters[key] >= Len(turns[key].primaries)
                 PROVE  IsInjective(turns[key].primaries)
      BY <1>1 DEF RInv, RoundRobinCycles
    <2> DEFINE t == turns[key]
               c == counters[key]
               p == t.primaries
               k == Len(p)
               L == Len(t.candidates)
    <2>1. t \in Turn /\ c \in 0..(CounterModulus - 1) /\ Cycle(t, c)
      BY <1>1 DEF RInv
    <2>2. p \in Seq(Nat) /\ t.candidates \in Seq(Candidate)
      BY <2>1 DEF Turn
    <2>3. k \in Nat /\ L \in Nat /\ c \in Nat /\ c >= k /\ DOMAIN p = 1..k
      <3> HIDE DEF t
      <3> QED
        BY <2>1, <2>2, ModulusAssumption, SMTT(30) DEF t
    <2>4. /\ k <= L
          /\ \A i \in 1..k : c >= k - i + 1 => p[i] = (c - (k - i + 1)) % L
      BY <2>1 DEF Cycle
    <2> HIDE DEF t, c, p, k, L
    <2>5. ASSUME NEW i \in 1..k, NEW j \in 1..k, i < j
          PROVE  p[i] # p[j]
      <3>1. PICK x, y : x = c - (k - i + 1) /\ y = c - (k - j + 1)
        OBVIOUS
      <3>2. /\ x \in Nat /\ y \in Nat /\ x < y /\ y - x < L /\ L \in Nat \ {0}
            /\ c >= k - i + 1 /\ c >= k - j + 1
        BY <2>3, <2>4, <2>5, <3>1, SMTT(30)
      <3>3. p[i] = x % L /\ p[j] = y % L
        BY <2>4, <3>1, <3>2
      <3>4. x % L # y % L
        BY <3>2, RemaindersDiffer
      <3> QED
        BY <3>3, <3>4
    <2>6. \A i, j \in 1..k : i = j \/ i < j \/ j < i
      BY <2>3, SMTT(30)
    <2>7. \A i, j \in 1..k : p[i] = p[j] => i = j
      BY <2>5, <2>6
    <2> QED
      BY <2>3, <2>7 DEF IsInjective, p, t
  <1> QED
    BY <1>1, Inductive, PTL

\* The odds of weighted_rotate are the weights.
THEOREM OddsAreWeights == Spec => []WeightedShare
  <1>1. ASSUME RInv
        PROVE  WeightedShare
    <2> SUFFICES ASSUME selection.error = None
                 PROVE  WeightedShare
      BY DEF WeightedShare
    <2> DEFINE seq == selection.candidates
    <2>1. seq \in Seq(Candidate) /\ seq # <<>>
      <3>1. selection # NoSelection
        BY NotAsked DEF None
      <3>2. \A q : ~Failed(q)
        BY DEF Failed, None, selection_error
      <3>3. PICK q : Selected(q)
        BY <1>1, <3>1, <3>2, Selections
      <3>4. /\ candidates(config, q) \in Seq(Candidate) /\ candidates(config, q) # <<>>
            /\ seq \in Seq(Candidate) /\ Len(seq) = Len(candidates(config, q))
        BY <3>3 DEF Selected, Rotated
      <3> HIDE DEF seq
      <3> QED
        BY <3>4, SMTT(30)
    <2> HIDE DEF seq
    <2>2. DOMAIN seq = 1..Len(seq)
      BY <2>1, SMTT(30)
    <2>3. PICK f : f = cumulative(seq)
      OBVIOUS
    <2>4. \A i \in 1..Len(seq) :
            seq[i].weight =
              Cardinality({pick \in 0..(f[Len(seq)] - 1) : weighted_index(seq, pick) = i - 1})
      BY <2>1, <2>3, Share
    <2> QED
      BY <2>2, <2>3, <2>4 DEF WeightedShare, seq
  <1> QED
    BY <1>1, Inductive, PTL

=============================================================================
