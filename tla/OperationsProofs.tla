--------------------------- MODULE OperationsProofs ---------------------------
(***************************************************************************)
(* What the operator sees of a backend is what was observed of it, for     *)
(* every threshold and window, any number of backends, requests and        *)
(* probes, and every way their observations and the clock interleave; and  *)
(* no edit of the configuration file is lost.                              *)
(***************************************************************************)
EXTENDS Operations, Induction

\* Zenon proves the steps that name no prover.
USE ZenonT(20)

-----------------------------------------------------------------------------
(***************************************************************************)
(* The inductive invariant.                                                *)
(***************************************************************************)

\* BackendHealthRecord.
HealthRecord == [successes : [Sources -> Nat], failures : [Sources -> Nat],
                 recent_failures : Seq(Nat), observed : BOOLEAN]

\* Observations come in the order of the clock.
InTime(seen, time) ==
  /\ \A i \in 1..Len(seen) : seen[i].time <= time
  /\ \A i, j \in 1..Len(seen) : i <= j => seen[i].time <= seen[j].time

\* recent_failures has the times of the last observations as long as they failed
\* within the window of the very last one: all of these, and no others.
Recent(recent, seen) ==
  LET n == Len(seen)
      k == Len(recent)
  IN /\ k <= n
     /\ \A i \in 1..k : /\ recent[i] = seen[n - k + i].time
                        /\ ~seen[n - k + i].ok
                        /\ recent[i] + FailureWindow >= seen[n].time
     /\ k < n => seen[n - k].ok \/ seen[n - k].time + FailureWindow < seen[n].time

\* Every observation is counted for its source.
Counted(record, seen) ==
  \A source \in Sources : /\ record.successes[source] = Count(seen, source, TRUE)
                          /\ record.failures[source] = Count(seen, source, FALSE)

\* The record of a backend and what was seen of it.
FromHistory(record, seen, backend, time) ==
  /\ record \in HealthRecord
  /\ seen \in Seq(Observations(backend))
  /\ record.observed <=> seen # <<>>
  /\ InTime(seen, time)
  /\ Recent(record.recent_failures, seen)
  /\ Counted(record, seen)

\* The inductive invariant: every backend, the clock and the log.
HInv ==
  /\ now \in Nat
  /\ log \in Seq(Range(log))
  /\ health \in [Backends -> HealthRecord]
  /\ \A b \in Backends : FromHistory(health[b], Of(b), b, now)

-----------------------------------------------------------------------------
(***************************************************************************)
(* Keep on a sequence whose elements in S come last, as the failures that  *)
(* are still recent do: it cuts off a prefix.                              *)
(***************************************************************************)
\* seq without its first m elements.
Cut(seq, m) == [i \in 1..(Len(seq) - m) |-> seq[i + m]]

\* Such a sequence has a place where S begins.
LEMMA Boundary ==
  ASSUME NEW X, NEW seq \in Seq(X), NEW S,
         \A i, j \in 1..Len(seq) : i <= j /\ seq[i] \in S => seq[j] \in S
  PROVE  \E m \in 0..Len(seq) : \A i \in 1..Len(seq) : seq[i] \in S <=> i > m
  <1> DEFINE N == {n \in Nat : \A i \in 1..Len(seq) : i > n => seq[i] \in S}
  <1>1. Len(seq) \in Nat /\ Len(seq) \in N
    BY SMTT(30)
  <1>2. PICK m \in N : \A k \in N : m <= k
    <2>1. N \in SUBSET Nat /\ N # {}
      BY <1>1
    <2> HIDE DEF N
    <2> QED
      BY <2>1, Least
  <1>3. m \in 0..Len(seq)
    BY <1>1, <1>2, SMTT(30)
  <1>4. ASSUME m # 0
        PROVE  m \in 1..Len(seq) /\ seq[m] \notin S
    <2>1. m - 1 \in Nat /\ m - 1 \notin N
      BY <1>2, <1>4, SMTT(30)
    <2>2. PICK i \in 1..Len(seq) : i > m - 1 /\ seq[i] \notin S
      BY <2>1
    <2>3. ~(i > m)
      BY <1>2, <2>2
    <2> QED
      BY <1>1, <2>2, <2>3, SMTT(30)
  <1> QED
    BY <1>1, <1>2, <1>3, <1>4, SMTT(30)
\* There Keep cuts.
LEMMA KeepSuffix ==
  ASSUME NEW X, NEW seq \in Seq(X), NEW S,
         \A i, j \in 1..Len(seq) : i <= j /\ seq[i] \in S => seq[j] \in S
  PROVE  \E m \in 0..Len(seq) : /\ \A i \in 1..Len(seq) : seq[i] \in S <=> i > m
                                /\ Keep(seq, S) = Cut(seq, m)
  <1>1. PICK m \in 0..Len(seq) : \A i \in 1..Len(seq) : seq[i] \in S <=> i > m
    BY Boundary
  <1> DEFINE L == Len(seq)
             f == KeptOfPrefix(seq, S)
             Good(k, n) ==
               /\ k \in Seq(X) /\ Len(k) = IF n <= m THEN 0 ELSE n - m
               /\ \A i \in 1..Len(k) : k[i] = seq[i + m]
             T == {n \in Nat : n <= L => Good(f[n], n)}
  <1>2. L \in Nat /\ m \in 0..L /\ \A n \in 1..L : seq[n] \in X
    BY SMTT(30)
  <1>3. /\ f[0] = <<>>
        /\ \A n \in 1..L :
             f[n] = IF seq[n] \in S THEN Append(f[n - 1], seq[n]) ELSE f[n - 1]
    BY FiltersExists, SMTT(30) DEF Filters
  <1>4. Keep(seq, S) = f[L]
    BY DEF Keep
  <1> HIDE DEF f
  <1>5. 0 \in T
    <2>1. Good(<<>>, 0)
      BY <1>2, SMTT(30)
    <2> HIDE DEF Good
    <2> QED
      BY <1>3, <2>1
  <1>6. ASSUME NEW n \in Nat, n \in T
        PROVE  n + 1 \in T
    <2> SUFFICES ASSUME n + 1 <= L
                 PROVE  Good(f[n + 1], n + 1)
      BY SMTT(30)
    <2> DEFINE k == f[n]
               x == seq[n + 1]
    <2>1. Good(k, n)
      BY <1>2, <1>6, SMTT(30)
    <2>2. n + 1 \in 1..L /\ (n + 1) - 1 = n /\ x \in X
      BY <1>2, SMTT(30)
    <2>3. f[n + 1] = IF x \in S THEN Append(k, x) ELSE k
      BY <1>3, <2>2
    <2>4. x \in S <=> n + 1 > m
      BY <1>1, <2>2
    <2> HIDE DEF k
    <2>5. CASE n + 1 > m
      <3> DEFINE more == Append(k, x)
      <3>1. /\ more \in Seq(X) /\ Len(more) = Len(k) + 1 /\ Len(k) \in Nat
            /\ \A i \in 1..Len(k) : more[i] = k[i]
            /\ more[Len(k) + 1] = x
        BY <2>1, <2>2, SeqAppend, SMTT(30)
      <3> HIDE DEF more
      <3>2. Len(k) = n - m /\ Len(more) = (n + 1) - m
        BY <1>2, <2>1, <2>5, <3>1, SMTT(30)
      <3>3. \A i \in 1..Len(more) : more[i] = seq[i + m]
        <4> SUFFICES ASSUME NEW i \in 1..Len(more)
                     PROVE  more[i] = seq[i + m]
          OBVIOUS
        <4>1. CASE i = Len(k) + 1
          <5>1. i + m = n + 1
            BY <1>2, <3>2, <4>1, SMTT(30)
          <5> QED
            BY <3>1, <4>1, <5>1
        <4>2. CASE i # Len(k) + 1
          BY <2>1, <3>1, <4>2, SMTT(30)
        <4> QED
          BY <4>1, <4>2
      <3>4. f[n + 1] = more
        BY <2>3, <2>4, <2>5 DEF more
      <3> QED
        BY <1>2, <2>5, <3>1, <3>2, <3>3, <3>4, SMTT(30)
    <2>6. CASE ~(n + 1 > m)
      <3>1. f[n + 1] = k
        BY <2>3, <2>4, <2>6
      <3> QED
        BY <1>2, <2>1, <2>6, <3>1, SMTT(30)
    <2> QED
      BY <2>5, <2>6
  <1>7. Good(f[L], L)
    <2>1. Nat \subseteq T
      <3> HIDE DEF T
      <3> QED
        BY <1>5, <1>6, NatInd
    <2> HIDE DEF Good
    <2> QED
      BY <1>2, <2>1, SMTT(30)
  <1>8. Keep(seq, S) = Cut(seq, m)
    <2> DEFINE kept == f[L]
    <2>1. kept \in Seq(X) /\ Len(kept) = L - m /\ \A i \in 1..Len(kept) : kept[i] = seq[i + m]
      BY <1>2, <1>7, SMTT(30)
    <2> HIDE DEF kept
    <2>2. kept \in [1..Len(kept) -> X]
      BY <2>1, SeqIsFunction
    <2>3. kept = Cut(seq, m)
      BY <2>1, <2>2 DEF Cut
    <2> QED
      BY <1>4, <2>3 DEF kept
  <1> QED
    BY <1>1, <1>8

-----------------------------------------------------------------------------
(***************************************************************************)
(* One more observation.                                                   *)
(***************************************************************************)

\* The fields of an observation.
LEMMA ObservationFields ==
  ASSUME NEW b, NEW o \in Observations(b)
  PROVE  o.backend = b /\ o.source \in Sources /\ o.ok \in BOOLEAN /\ o.time \in Nat
  BY DEF Observations

\* It is the last one, and none is later.
Follows(more, seen, o, time) ==
  /\ Len(more) = Len(seen) + 1 /\ Len(seen) \in Nat
  /\ \A i \in 1..Len(seen) : more[i] = seen[i]
  /\ more[Len(seen) + 1] = o
  /\ InTime(more, time)
  /\ \A i \in 1..Len(more) : more[i].time \in Nat /\ more[i].ok \in BOOLEAN

\* Appended to the log of its backend, it follows what was seen.
LEMMA MoreSeen ==
  ASSUME NEW b, NEW seen \in Seq(Observations(b)), NEW time \in Nat, InTime(seen, time),
         NEW o \in Observations(b), o.time = time
  PROVE  /\ Append(seen, o) \in Seq(Observations(b))
         /\ Follows(Append(seen, o), seen, o, time)
  <1> DEFINE more == Append(seen, o)
  <1>1. /\ more \in Seq(Observations(b)) /\ Len(more) = Len(seen) + 1 /\ Len(seen) \in Nat
        /\ \A i \in 1..Len(seen) : more[i] = seen[i]
        /\ more[Len(seen) + 1] = o
    BY SeqAppend, SMTT(30)
  <1> HIDE DEF more
  <1>2. \A i \in 1..Len(more) : more[i].time \in Nat /\ more[i].ok \in BOOLEAN
    <2>1. \A i \in 1..Len(more) : more[i] \in Observations(b)
      BY <1>1, SMTT(30)
    <2> QED
      BY <2>1, ObservationFields
  <1>3. InTime(more, time)
    BY <1>1, <1>2, SMTT(30) DEF InTime
  <1>4. more \in Seq(Observations(b)) /\ Follows(more, seen, o, time)
    BY <1>1, <1>2, <1>3 DEF Follows
  <1> QED
    BY <1>4 DEF more

\* record_failure_with_source: the failures that are too old by now come first,
\* and the window of the new one begins after them.
LEMMA RecentAfterFailure ==
  ASSUME NEW b, NEW seen \in Seq(Observations(b)), NEW time \in Nat, InTime(seen, time),
         NEW recent \in Seq(Nat), Recent(recent, seen),
         NEW o \in Observations(b), o.time = time, ~o.ok, NEW more, more = Append(seen, o),
         NEW kept, kept = Keep(Append(recent, time), {t \in Nat : t + FailureWindow >= time})
  PROVE  kept \in Seq(Nat) /\ Recent(kept, more)
  <1> DEFINE n == Len(seen)
             k == Len(recent)
             all == Append(recent, time)
             S == {t \in Nat : t + FailureWindow >= time}
  <1>1. /\ Len(more) = n + 1 /\ n \in Nat
        /\ \A i \in 1..n : more[i] = seen[i]
        /\ more[n + 1] = o
        /\ InTime(more, time)
        /\ \A i \in 1..Len(more) : more[i].time \in Nat /\ more[i].ok \in BOOLEAN
    <2>1. Follows(more, seen, o, time)
      BY MoreSeen
    <2> QED
      BY <2>1 DEF Follows
  <1>2. /\ all \in Seq(Nat) /\ Len(all) = k + 1 /\ k \in Nat
        /\ \A i \in 1..k : all[i] = recent[i]
        /\ all[k + 1] = time
    BY SeqAppend, SMTT(30)
  <1>3. FailureWindow \in Nat
    BY HealthAssumption
  <1>4. /\ k <= n
        /\ \A i \in 1..k : recent[i] = seen[n - k + i].time /\ ~seen[n - k + i].ok
        /\ k < n => seen[n - k].ok \/ seen[n - k].time + FailureWindow < seen[n].time
    BY DEF Recent
  <1> HIDE DEF n, k, all
  <1>5. \A i \in 1..(k + 1) : /\ n - k + i \in 1..Len(more)
                              /\ all[i] = more[n - k + i].time /\ ~more[n - k + i].ok
    <2> SUFFICES ASSUME NEW i \in 1..(k + 1)
                 PROVE  /\ n - k + i \in 1..Len(more)
                        /\ all[i] = more[n - k + i].time /\ ~more[n - k + i].ok
      OBVIOUS
    <2>1. CASE i = k + 1
      <3>1. n - k + i = n + 1 /\ n + 1 \in 1..Len(more)
        BY <1>1, <1>2, <2>1, SMTT(30)
      <3>2. all[i] = more[n + 1].time
        BY <1>1, <1>2, <2>1
      <3>3. ~more[n + 1].ok
        BY <1>1
      <3> QED
        BY <3>1, <3>2, <3>3
    <2>2. CASE i # k + 1
      <3>1. i \in 1..k /\ n - k + i \in 1..n /\ n - k + i \in 1..Len(more)
        BY <1>1, <1>2, <1>4, <2>2, SMTT(30)
      <3>2. more[n - k + i] = seen[n - k + i] /\ all[i] = recent[i]
        BY <1>1, <1>2, <3>1
      <3>3. recent[i] = seen[n - k + i].time /\ ~seen[n - k + i].ok
        BY <1>4, <3>1
      <3> QED
        BY <3>1, <3>2, <3>3
    <2> QED
      BY <2>1, <2>2
  <1>6. \A i, j \in 1..Len(all) : i <= j => all[i] <= all[j] /\ all[i] \in Nat /\ all[j] \in Nat
    <2> SUFFICES ASSUME NEW i \in 1..(k + 1), NEW j \in 1..(k + 1), i <= j
                 PROVE  all[i] <= all[j] /\ all[i] \in Nat /\ all[j] \in Nat
      BY <1>2
    <2>1. all[i] = more[n - k + i].time /\ all[j] = more[n - k + j].time
      BY <1>5
    <2>2. /\ n - k + i \in 1..Len(more) /\ n - k + j \in 1..Len(more)
          /\ n - k + i <= n - k + j
      BY <1>1, <1>2, <1>5, SMTT(30)
    <2>3. more[n - k + i].time <= more[n - k + j].time
      BY <1>1, <2>2 DEF InTime
    <2> QED
      BY <1>1, <2>1, <2>2, <2>3
  <1>7. PICK m \in 0..Len(all) : /\ \A i \in 1..Len(all) : all[i] \in S <=> i > m
                                 /\ Keep(all, S) = Cut(all, m)
    <2>1. \A i, j \in 1..Len(all) : i <= j /\ all[i] \in S => all[j] \in S
      BY <1>3, <1>6, SMTT(30)
    <2> HIDE DEF S
    <2> QED
      BY <1>2, <2>1, KeepSuffix
  <1>8. /\ m \in 0..k
        /\ \A i \in 1..(k + 1) : i > m => all[i] + FailureWindow >= time
        /\ \A i \in 1..(k + 1) : i <= m => all[i] + FailureWindow < time
    <2>1. time \in S /\ \A i \in 1..(k + 1) : all[i] \in S <=> all[i] + FailureWindow >= time
      BY <1>2, <1>3, <1>6, SMTT(30)
    <2> HIDE DEF S
    <2>2. k + 1 > m
      BY <1>2, <1>7, <2>1, SMTT(30)
    <2>3. ASSUME NEW i \in 1..(k + 1), i <= m
          PROVE  all[i] + FailureWindow < time
      <3>1. ~(all[i] + FailureWindow >= time) /\ all[i] \in Nat
        BY <1>2, <1>6, <1>7, <2>1, <2>3, SMTT(30)
      <3> QED
        BY <1>3, <3>1, SMTT(30)
    <2> QED
      BY <1>2, <1>7, <2>1, <2>2, <2>3, SMTT(30)
  <1> DEFINE r == (k + 1) - m
  <1>9. /\ r \in Nat /\ kept \in Seq(Nat) /\ Len(kept) = r
        /\ \A i \in 1..r : kept[i] = all[i + m] /\ i + m \in 1..(k + 1)
    <2>1. r \in Nat /\ \A i \in 1..r : i + m \in 1..(k + 1)
      BY <1>2, <1>8, SMTT(30)
    <2>2. kept = Keep(all, S)
      BY DEF all
    <2> HIDE DEF S
    <2>3. kept = [i \in 1..r |-> all[i + m]]
      BY <1>2, <1>7, <2>2 DEF Cut
    <2>4. \A i \in 1..(k + 1) : all[i] \in Nat
      BY <1>2, <1>6, SMTT(30)
    <2> HIDE DEF r
    <2>5. \A i \in 1..r : all[i + m] \in Nat
      BY <2>1, <2>4
    <2>6. kept \in [1..r -> Nat]
      BY <2>3, <2>5
    <2>7. kept \in Seq(Nat) /\ Len(kept) = r
      BY <2>1, <2>6, SMTT(30)
    <2>8. \A i \in 1..r : kept[i] = all[i + m]
      BY <2>3
    <2> QED
      BY <2>1, <2>7, <2>8
  <1>10. ASSUME NEW i \in 1..r
         PROVE  /\ kept[i] = more[(n + 1) - r + i].time
                /\ ~more[(n + 1) - r + i].ok
                /\ kept[i] + FailureWindow >= more[n + 1].time
    <2>1. (n + 1) - r + i = n - k + (i + m)
      BY <1>1, <1>2, <1>8, SMTT(30)
    <2>2. i + m > m /\ i + m \in 1..(k + 1) /\ kept[i] = all[i + m]
      BY <1>8, <1>9, SMTT(30)
    <2> HIDE DEF r
    <2> QED
      BY <1>1, <1>5, <1>8, <2>1, <2>2
  <1>11. ASSUME r < n + 1
         PROVE  \/ more[(n + 1) - r].ok
                \/ more[(n + 1) - r].time + FailureWindow < more[n + 1].time
    <2>1. CASE m = 0
      <3>1. (n + 1) - r = n - k /\ k < n /\ n - k \in 1..n /\ n \in 1..n
        BY <1>1, <1>2, <1>4, <1>11, <2>1, SMTT(30)
      <3>2. seen[n].time <= time
        BY <3>1 DEF InTime, n
      <3> HIDE DEF r
      <3> QED
        BY <1>1, <1>3, <1>4, <3>1, <3>2, SMTT(30)
    <2>2. CASE m # 0
      <3>1. (n + 1) - r = n - k + m /\ m \in 1..(k + 1) /\ m <= m
        BY <1>1, <1>2, <1>8, <2>2, SMTT(30)
      <3>2. all[m] = more[n - k + m].time /\ all[m] + FailureWindow < time
        BY <1>5, <1>8, <3>1
      <3>3. more[n + 1].time = time
        BY <1>1
      <3> HIDE DEF r
      <3>4. more[(n + 1) - r].time = all[m]
        BY <3>1, <3>2
      <3> QED
        BY <3>2, <3>3, <3>4
    <2> HIDE DEF r
    <2> QED
      BY <2>1, <2>2
  <1>12. r <= n + 1
    BY <1>1, <1>2, <1>4, <1>8, SMTT(30)
  <1> HIDE DEF r
  <1>13. Len(more) = n + 1 /\ Len(kept) = r
    BY <1>1, <1>9
  <1>14. Recent(kept, more)
    BY <1>10, <1>11, <1>12, <1>13, ZenonT(60) DEF Recent
  <1> QED
    BY <1>9, <1>14

\* An observation is counted once.
CountsOne(more, seen, o, source, ok) ==
  Count(more, source, ok) = IF o.source = source /\ o.ok = ok THEN Count(seen, source, ok) + 1
                            ELSE Count(seen, source, ok)

\* For its source and result, and for no other.
LEMMA CountMore ==
  ASSUME NEW b, NEW seen \in Seq(Observations(b)), NEW o \in Observations(b),
         NEW source, NEW ok
  PROVE  Count(seen, source, ok) \in Nat /\ CountsOne(Append(seen, o), seen, o, source, ok)
  <1> DEFINE n == Len(seen)
             more == Append(seen, o)
             Those(s) == {i \in DOMAIN s : s[i].source = source /\ s[i].ok = ok}
  <1>1. /\ n \in Nat /\ DOMAIN seen = 1..n /\ DOMAIN more = 1..(n + 1)
        /\ \A i \in 1..n : more[i] = seen[i]
        /\ more[n + 1] = o
    BY SeqAppend, SeqIsFunction, SMTT(30)
  <1> HIDE DEF n, more
  <1>2. IsFiniteSet(Those(seen)) /\ Cardinality(Those(seen)) \in Nat
    <2>1. Those(seen) \subseteq 1..n
      BY <1>1
    <2>2. IsFiniteSet(1..n)
      BY <1>1, FS_Interval, SMTT(30)
    <2> HIDE DEF Those
    <2> QED
      BY <2>1, <2>2, FS_Subset, FS_CardinalityType
  <1>3. CASE o.source = source /\ o.ok = ok
    <2>1. Those(more) = Those(seen) \cup {n + 1} /\ n + 1 \notin Those(seen)
      BY <1>1, <1>3, SMTT(30)
    <2> HIDE DEF Those
    <2>2. Cardinality(Those(more)) = Cardinality(Those(seen)) + 1
      BY <1>2, <2>1, FS_AddElement
    <2> QED
      BY <1>2, <1>3, <2>2 DEF CountsOne, Count, Those, more
  <1>4. CASE ~(o.source = source /\ o.ok = ok)
    <2>1. Those(more) = Those(seen)
      BY <1>1, <1>4, SMTT(30)
    <2> QED
      BY <1>2, <1>4, <2>1 DEF CountsOne, Count, more
  <1> QED
    BY <1>3, <1>4

\* The fields of a record after a success.
LEMMA SuccessFields ==
  ASSUME NEW record \in HealthRecord, NEW counts, NEW new,
         new = [record EXCEPT !.successes = counts, !.recent_failures = <<>>, !.observed = TRUE]
  PROVE  new = [successes |-> counts, failures |-> record.failures,
                recent_failures |-> <<>>, observed |-> TRUE]
  BY DEF HealthRecord

\* After a failure.
LEMMA FailureFields ==
  ASSUME NEW record \in HealthRecord, NEW counts, NEW recent, NEW new,
         new = [record EXCEPT !.failures = counts, !.observed = TRUE,
                              !.recent_failures = recent]
  PROVE  new = [successes |-> record.successes, failures |-> counts,
                recent_failures |-> recent, observed |-> TRUE]
  BY DEF HealthRecord

\* One count grows by one.
LEMMA CountedMore ==
  ASSUME NEW b, NEW seen \in Seq(Observations(b)), NEW o \in Observations(b), NEW ok \in BOOLEAN,
         NEW counts \in [Sources -> Nat], NEW new,
         \A source \in Sources : counts[source] = Count(seen, source, ok),
         new = IF o.ok = ok THEN Incremented(counts, o.source) ELSE counts
  PROVE  /\ new \in [Sources -> Nat]
         /\ \A source \in Sources : new[source] = Count(Append(seen, o), source, ok)
  <1>1. o.source \in Sources
    BY ObservationFields
  <1>2. new \in [Sources -> Nat]
    BY <1>1, SMTT(30) DEF Incremented
  <1>3. ASSUME NEW source \in Sources
        PROVE  new[source] = Count(Append(seen, o), source, ok)
    <2>1. CountsOne(Append(seen, o), seen, o, source, ok)
      BY CountMore
    <2>2. new[source] = IF o.source = source /\ o.ok = ok THEN counts[source] + 1
                        ELSE counts[source]
      BY <1>1 DEF Incremented
    <2> QED
      BY <2>1, <2>2 DEF CountsOne
  <1> QED
    BY <1>2, <1>3

\* The record goes on saying what was seen.
LEMMA ObserveSuccess ==
  ASSUME NEW record, NEW seen, NEW b, NEW time \in Nat, FromHistory(record, seen, b, time),
         NEW o \in Observations(b), o.time = time, o.ok
  PROVE  FromHistory(record_success_with_source(record, o.source), Append(seen, o), b, time)
  <1> DEFINE new == record_success_with_source(record, o.source)
             more == Append(seen, o)
  <1>1. /\ record \in HealthRecord /\ seen \in Seq(Observations(b)) /\ InTime(seen, time)
        /\ Counted(record, seen)
    BY DEF FromHistory
  <1>2. new = [successes |-> Incremented(record.successes, o.source),
               failures |-> record.failures, recent_failures |-> <<>>, observed |-> TRUE]
    BY <1>1, SuccessFields DEF record_success_with_source
  <1>3. /\ record.successes \in [Sources -> Nat] /\ record.failures \in [Sources -> Nat]
        /\ \A source \in Sources : record.successes[source] = Count(seen, source, TRUE)
        /\ \A source \in Sources : record.failures[source] = Count(seen, source, FALSE)
    <2>1. record.successes \in [Sources -> Nat] /\ record.failures \in [Sources -> Nat]
      BY <1>1 DEF HealthRecord
    <2> QED
      BY <1>1, <2>1 DEF Counted
  <1>4. /\ Incremented(record.successes, o.source) \in [Sources -> Nat]
        /\ \A source \in Sources :
             Incremented(record.successes, o.source)[source] = Count(more, source, TRUE)
    <2>1. o.ok = TRUE
      BY ObservationFields
    <2> QED
      BY <1>1, <1>3, <2>1, CountedMore
  <1>5. \A source \in Sources : record.failures[source] = Count(more, source, FALSE)
    <2>1. ~(o.ok = FALSE)
      OBVIOUS
    <2> QED
      BY <1>1, <1>3, <2>1, CountedMore
  <1>6. more \in Seq(Observations(b)) /\ Follows(more, seen, o, time)
    BY <1>1, MoreSeen
  <1> HIDE DEF new, more
  <1>7. new \in HealthRecord
    BY <1>2, <1>3, <1>4, SMTT(30) DEF HealthRecord
  <1>8. Counted(new, more)
    <2>1. /\ new.successes = Incremented(record.successes, o.source)
          /\ new.failures = record.failures
      BY <1>2
    <2> QED
      BY <1>4, <1>5, <2>1 DEF Counted
  <1>9. InTime(more, time) /\ Len(more) = Len(seen) + 1 /\ Len(seen) \in Nat /\ more[Len(more)] = o
    BY <1>6 DEF Follows
  <1>10. Recent(new.recent_failures, more)
    <2>1. new.recent_failures = <<>> /\ Len(<<>>) = 0
      BY <1>2
    <2>2. Len(more) - 0 = Len(more) /\ 0 <= Len(more) /\ 1..0 = {}
      BY <1>9, SMTT(30)
    <2> QED
      BY <1>9, <2>1, <2>2 DEF Recent
  <1>11. new.observed = TRUE /\ more # <<>>
    BY <1>2, <1>9, SMTT(30)
  <1>12. FromHistory(new, more, b, time)
    BY <1>6, <1>7, <1>8, <1>9, <1>10, <1>11 DEF FromHistory
  <1> QED
    BY <1>12 DEF new, more

\* After a failure, too.
LEMMA ObserveFailure ==
  ASSUME NEW record, NEW seen, NEW b, NEW time \in Nat, FromHistory(record, seen, b, time),
         NEW o \in Observations(b), o.time = time, ~o.ok
  PROVE  FromHistory(record_failure_with_source(record, o.source, time), Append(seen, o),
                     b, time)
  <1> DEFINE new == record_failure_with_source(record, o.source, time)
             more == Append(seen, o)
             kept == Keep(Append(record.recent_failures, time),
                          {t \in Nat : t + FailureWindow >= time})
  <1>1. /\ record \in HealthRecord /\ seen \in Seq(Observations(b)) /\ InTime(seen, time)
        /\ Counted(record, seen) /\ Recent(record.recent_failures, seen)
    BY DEF FromHistory
  <1>2. new = [successes |-> record.successes,
               failures |-> Incremented(record.failures, o.source),
               recent_failures |-> kept, observed |-> TRUE]
    <2>1. new = [record EXCEPT !.failures = Incremented(record.failures, o.source),
                               !.observed = TRUE, !.recent_failures = kept]
      BY DEF record_failure_with_source
    <2> HIDE DEF new, kept
    <2> QED
      BY <1>1, <2>1, FailureFields
  <1>3. /\ record.successes \in [Sources -> Nat] /\ record.failures \in [Sources -> Nat]
        /\ record.recent_failures \in Seq(Nat)
        /\ \A source \in Sources : record.successes[source] = Count(seen, source, TRUE)
        /\ \A source \in Sources : record.failures[source] = Count(seen, source, FALSE)
    <2>1. /\ record.successes \in [Sources -> Nat] /\ record.failures \in [Sources -> Nat]
          /\ record.recent_failures \in Seq(Nat)
      BY <1>1 DEF HealthRecord
    <2> QED
      BY <1>1, <2>1 DEF Counted
  <1>4. kept \in Seq(Nat) /\ Recent(kept, more)
    BY <1>1, <1>3, RecentAfterFailure
  <1> HIDE DEF kept
  <1>5. /\ Incremented(record.failures, o.source) \in [Sources -> Nat]
        /\ \A source \in Sources :
             Incremented(record.failures, o.source)[source] = Count(more, source, FALSE)
    <2>1. o.ok = FALSE
      BY ObservationFields
    <2> QED
      BY <1>1, <1>3, <2>1, CountedMore
  <1>6. \A source \in Sources : record.successes[source] = Count(more, source, TRUE)
    <2>1. ~(o.ok = TRUE)
      OBVIOUS
    <2> QED
      BY <1>1, <1>3, <2>1, CountedMore
  <1>7. more \in Seq(Observations(b)) /\ Follows(more, seen, o, time)
    BY <1>1, MoreSeen
  <1> HIDE DEF new, more
  <1>8. new \in HealthRecord
    BY <1>2, <1>3, <1>4, <1>5 DEF HealthRecord
  <1>9. Counted(new, more)
    <2>1. /\ new.successes = record.successes
          /\ new.failures = Incremented(record.failures, o.source)
      BY <1>2
    <2> QED
      BY <1>5, <1>6, <2>1 DEF Counted
  <1>10. InTime(more, time) /\ Len(more) = Len(seen) + 1 /\ Len(seen) \in Nat
    BY <1>7 DEF Follows
  <1>11. new.observed = TRUE /\ more # <<>> /\ new.recent_failures = kept
    BY <1>2, <1>10, SMTT(30)
  <1>12. FromHistory(new, more, b, time)
    BY <1>4, <1>7, <1>8, <1>9, <1>10, <1>11 DEF FromHistory
  <1> QED
    BY <1>12 DEF new, more

-----------------------------------------------------------------------------
(***************************************************************************)
(* The steps.                                                              *)
(***************************************************************************)

\* Somebody observes a backend: it has one observation more, and the others none.
LEMMA ObserveInv ==
  ASSUME HInv, NEW backend, NEW source \in Sources, NEW ok \in BOOLEAN,
         Observe(backend, source, ok), now' = now
  PROVE  HInv'
  <1> DEFINE o == [backend |-> backend, source |-> source, ok |-> ok, time |-> now]
             X == Range(log) \cup {o}
  <1>1. log' = Append(log, o) /\ log \in Seq(Range(log)) /\ now \in Nat
    BY DEF HInv, Observe
  <1> HIDE DEF o
  <1>2. log \in Seq(X) /\ o \in X
    BY <1>1, SMTT(30)
  <1>3. log' \in Seq(Range(log'))
    <2>1. /\ DOMAIN log = 1..Len(log) /\ DOMAIN log' = 1..(Len(log) + 1) /\ Len(log) \in Nat
          /\ \A i \in 1..Len(log) : log'[i] = log[i]
          /\ log'[Len(log) + 1] = o
      BY <1>1, <1>2, SeqAppend, SeqIsFunction, SMTT(30)
    <2>2. Range(log) = {log[i] : i \in DOMAIN log} /\ Range(log') = {log'[i] : i \in DOMAIN log'}
      BY DEF Range
    <2>3. X \subseteq Range(log')
      BY <2>1, <2>2, SMTT(30)
    <2>4. log' \in Seq(X)
      BY <1>1, <1>2, SeqAppend
    <2> HIDE DEF X
    <2> QED
      BY <2>3, <2>4, SMTT(30)
  <1>4. ASSUME NEW b \in Backends
        PROVE  health'[b] \in HealthRecord /\ FromHistory(health'[b], Of(b)', b, now)
    <2>1. /\ FromHistory(health[b], Of(b), b, now)
          /\ health \in [Backends -> HealthRecord]
      BY DEF HInv
    <2>2. Of(b)' = IF o \in Observations(b) THEN Append(Of(b), o) ELSE Of(b)
      <3>1. Of(b)' = Keep(Append(log, o), Observations(b))
        BY <1>1 DEF Of
      <3> HIDE DEF X
      <3>2. Keep(Append(log, o), Observations(b)) =
              IF o \in Observations(b) THEN Append(Keep(log, Observations(b)), o)
              ELSE Keep(log, Observations(b))
        BY <1>2, KeepAppend
      <3> QED
        BY <3>1, <3>2 DEF Of
    <2>3. CASE b = backend
      <3>1. /\ o \in Observations(b) /\ o.time = now /\ o.source = source /\ o.ok = ok
        BY <1>1, <2>3 DEF o, Observations
      <3>2. /\ ok => health'[b] = record_success_with_source(health[b], source)
            /\ ~ok => health'[b] = record_failure_with_source(health[b], source, now)
        BY <2>1, <2>3 DEF Observe
      <3>3. CASE ok
        BY <1>1, <2>1, <2>2, <3>1, <3>2, <3>3, ObserveSuccess DEF FromHistory
      <3>4. CASE ~ok
        <4>1. ~o.ok
          BY <3>1, <3>4
        <4>2. FromHistory(record_failure_with_source(health[b], o.source, now),
                          Append(Of(b), o), b, now)
          BY <1>1, <2>1, <3>1, <4>1, ObserveFailure
        <4>3. /\ health'[b] = record_failure_with_source(health[b], o.source, now)
              /\ Of(b)' = Append(Of(b), o)
          BY <2>2, <3>1, <3>2, <3>4
        <4>4. FromHistory(health'[b], Of(b)', b, now)
          BY <4>2, <4>3
        <4> QED
          BY <4>4 DEF FromHistory
      <3> QED
        BY <3>3, <3>4
    <2>4. CASE b # backend
      <3>1. o \notin Observations(b)
        BY <2>4 DEF o, Observations
      <3>2. health'[b] = health[b]
        BY <2>1, <2>4 DEF Observe
      <3> QED
        BY <2>1, <2>2, <3>1, <3>2 DEF FromHistory
    <2> QED
      BY <2>3, <2>4
  <1>5. health' \in [Backends -> HealthRecord]
    <2>1. PICK e : health' = [health EXCEPT ![backend] = e]
      BY DEF Observe
    <2>2. health \in [Backends -> HealthRecord]
      BY DEF HInv
    <2>3. health' = [b \in Backends |-> health'[b]]
      BY <2>1, <2>2
    <2> QED
      BY <1>4, <2>3
  <1> QED
    BY <1>1, <1>3, <1>4, <1>5 DEF HInv

\* The clock goes on.
LEMMA TickInv ==
  ASSUME HInv, Tick
  PROVE  HInv'
  <1>1. now \in Nat /\ now' = now + 1 /\ health' = health /\ log' = log
    BY DEF HInv, Tick
  <1>2. \A b : Of(b)' = Of(b)
    BY <1>1 DEF Of
  <1>3. ASSUME NEW b \in Backends
        PROVE  FromHistory(health[b], Of(b), b, now + 1)
    <2>1. FromHistory(health[b], Of(b), b, now)
      BY DEF HInv
    <2> DEFINE seen == Of(b)
    <2>2. seen \in Seq(Observations(b)) /\ InTime(seen, now)
      BY <2>1 DEF FromHistory
    <2> HIDE DEF seen
    <2>3. \A i \in 1..Len(seen) : seen[i] \in Observations(b)
      BY <2>2, SMTT(30)
    <2>4. \A i \in 1..Len(seen) : seen[i].time \in Nat
      BY <2>3, ObservationFields
    <2>5. InTime(seen, now + 1)
      BY <1>1, <2>2, <2>4, SMTT(30) DEF InTime
    <2> QED
      BY <2>1, <2>5 DEF FromHistory, seen
  <1>4. \A b \in Backends : FromHistory(health'[b], Of(b)', b, now')
    BY <1>1, <1>2, <1>3
  <1>5. now' \in Nat
    BY <1>1, SMTT(30)
  <1> QED
    BY <1>1, <1>4, <1>5 DEF HInv

\* Nothing else touches the health of the backends.
LEMMA ElsewhereInv ==
  ASSUME HInv, UNCHANGED <<now, health, log>>
  PROVE  HInv'
  <1>1. \A b : Of(b)' = Of(b)
    BY DEF Of
  <1> QED
    BY <1>1 DEF HInv, FromHistory

\* Every step of requests, probes and the clock.
LEMMA HealthInv ==
  ASSUME HInv, HealthNext
  PROVE  HInv'
  <1>1. CASE Tick
    BY <1>1, TickInv
  <1>2. ASSUME NEW b \in Backends, NEW ok \in BOOLEAN, record_traffic(b, ok)
        PROVE  HInv'
    BY <1>2, ObserveInv DEF record_traffic, Sources
  <1>3. CASE ProbeRound
    BY <1>3, ElsewhereInv DEF ProbeRound
  <1>4. ASSUME NEW ok \in BOOLEAN, probe_backend(ok)
        PROVE  HInv'
    BY <1>4, ObserveInv DEF probe_backend, Sources
  <1> QED
    BY <1>1, <1>2, <1>3, <1>4 DEF HealthNext

\* At the start nothing is known of any backend.
LEMMA InitInv ==
  ASSUME Init
  PROVE  HInv
  <1>1. now = 0 /\ health = [b \in Backends |-> Unobserved] /\ log = <<>>
    BY DEF Init, HealthInit
  <1>2. log \in Seq(Range(log))
    BY <1>1, SMTT(30)
  <1>3. Unobserved \in HealthRecord
    BY SMTT(30) DEF Unobserved, HealthRecord
  <1>4. ASSUME NEW b \in Backends
        PROVE  FromHistory(Unobserved, <<>>, b, 0)
    <2>1. /\ Unobserved.observed = FALSE /\ Unobserved.recent_failures = <<>>
          /\ Unobserved.successes = [s \in Sources |-> 0]
          /\ Unobserved.failures = [s \in Sources |-> 0]
      BY DEF Unobserved
    <2>2. \A source, ok : Count(<<>>, source, ok) = 0
      <3>1. \A source, ok : {i \in DOMAIN <<>> : <<>>[i].source = source /\ <<>>[i].ok = ok} = {}
        BY SMTT(30)
      <3> QED
        BY <3>1, FS_EmptySet DEF Count
    <2>3. Counted(Unobserved, <<>>)
      <3>1. \A source \in Sources : [s \in Sources |-> 0][source] = 0
        OBVIOUS
      <3> QED
        BY <2>1, <2>2, <3>1 DEF Counted
    <2>4. InTime(<<>>, 0) /\ Recent(<<>>, <<>>)
      <3>1. Len(<<>>) = 0 /\ 1..0 = {} /\ ~(0 < 0) /\ 0 <= 0
        BY SMTT(30)
      <3> QED
        BY <3>1 DEF InTime, Recent
    <2>5. <<>> \in Seq(Observations(b))
      BY SMTT(30)
    <2> QED
      BY <1>3, <2>1, <2>3, <2>4, <2>5 DEF FromHistory
  <1>5. \A b : Of(b) = <<>>
    BY <1>1, KeepEmpty DEF Of
  <1>6. \A b \in Backends : FromHistory(health[b], Of(b), b, now)
    BY <1>1, <1>4, <1>5
  <1>7. now \in Nat /\ health \in [Backends -> HealthRecord]
    BY <1>1, <1>3
  <1> QED
    BY <1>2, <1>6, <1>7 DEF HInv

\* Every step of the server.
LEMMA NextInv ==
  ASSUME HInv, [Next]_vars
  PROVE  HInv'
  <1>1. CASE HealthNext
    BY <1>1, HealthInv
  <1>2. CASE UNCHANGED healthVars
    BY <1>2, ElsewhereInv DEF healthVars
  <1> QED
    BY <1>1, <1>2 DEF Next, vars, healthVars

-----------------------------------------------------------------------------
(***************************************************************************)
(* What it says.                                                           *)
(***************************************************************************)

\* The last n observations failed within a window exactly if n are recent.
LEMMA RecentFailures ==
  ASSUME NEW b, NEW seen \in Seq(Observations(b)), NEW recent \in Seq(Nat),
         Recent(recent, seen), NEW n \in Nat \ {0}
  PROVE  LastFailed(seen, n) <=> Len(recent) >= n
  <1> DEFINE L == Len(seen)
             k == Len(recent)
  <1>1. /\ L \in Nat /\ k \in Nat /\ FailureWindow \in Nat
        /\ \A i \in 1..L : seen[i] \in Observations(b)
    BY HealthAssumption, SMTT(30)
  <1>2. \A i \in 1..L : seen[i].time \in Nat
    BY <1>1, ObservationFields
  <1>3. /\ k <= L
        /\ \A i \in 1..k : /\ recent[i] = seen[L - k + i].time
                           /\ ~seen[L - k + i].ok
                           /\ recent[i] + FailureWindow >= seen[L].time
        /\ k < L => seen[L - k].ok \/ seen[L - k].time + FailureWindow < seen[L].time
    BY DEF Recent
  <1> HIDE DEF L, k
  <1>4. ASSUME k >= n
        PROVE  LastFailed(seen, n)
    <2>1. L >= n
      BY <1>1, <1>3, <1>4, SMTT(30)
    <2>2. ASSUME NEW i \in L - n + 1 .. L
          PROVE  ~seen[i].ok /\ seen[i].time + FailureWindow >= seen[L].time
      <3>1. i - (L - k) \in 1..k /\ L - k + (i - (L - k)) = i
        BY <1>1, <1>3, <1>4, <2>1, SMTT(30)
      <3>2. PICK j \in 1..k : L - k + j = i
        BY <3>1
      <3> QED
        BY <1>3, <3>2
    <2> QED
      BY <2>1, <2>2 DEF LastFailed, L
  <1>5. ASSUME LastFailed(seen, n), k < n
        PROVE  FALSE
    <2>1. /\ L >= n
          /\ \A i \in L - n + 1 .. L : ~seen[i].ok /\ seen[i].time + FailureWindow >= seen[L].time
      BY <1>5 DEF LastFailed, L
    <2>2. L - k \in L - n + 1 .. L /\ k < L /\ L - k \in 1..L /\ L \in 1..L
      BY <1>1, <1>5, <2>1, SMTT(30)
    <2>3. /\ ~seen[L - k].ok /\ seen[L - k].time + FailureWindow >= seen[L].time
          /\ seen[L - k].time \in Nat /\ seen[L].time \in Nat
      BY <1>2, <2>1, <2>2
    <2>4. seen[L - k].time + FailureWindow < seen[L].time
      BY <1>3, <2>2, <2>3
    <2> QED
      BY <1>1, <2>3, <2>4, SMTT(30)
  <1>6. k >= n \/ k < n
    BY <1>1, SMTT(30)
  <1> QED
    BY <1>4, <1>5, <1>6 DEF k

\* What snapshot shows of a backend.
LEMMA Shown ==
  ASSUME NEW b, NEW record, NEW seen, NEW time, FromHistory(record, seen, b, time)
  PROVE  /\ status(record) = "unknown" <=> seen = <<>>
         /\ status(record) = "healthy" <=> (seen # <<>> /\ seen[Len(seen)].ok)
         /\ status(record) = "unhealthy" <=> LastFailed(seen, UnhealthyThreshold)
         /\ \A n \in 1 .. Len(seen) : Len(record.recent_failures) >= n <=> LastFailed(seen, n)
  <1> DEFINE recent == record.recent_failures
             L == Len(seen)
             k == Len(recent)
  <1>1. /\ record \in HealthRecord /\ seen \in Seq(Observations(b))
        /\ record.observed <=> seen # <<>>
        /\ Recent(recent, seen)
    BY DEF FromHistory
  <1>2. recent \in Seq(Nat) /\ record.observed \in BOOLEAN
    BY <1>1 DEF HealthRecord
  <1>3. \A n \in Nat \ {0} : LastFailed(seen, n) <=> k >= n
    BY <1>1, <1>2, RecentFailures
  <1>4. L \in Nat /\ k \in Nat /\ UnhealthyThreshold \in Nat \ {0}
    BY <1>1, <1>2, HealthAssumption, SMTT(30)
  <1>5. (seen = <<>> <=> L = 0) /\ (recent = <<>> <=> k = 0) /\ k <= L
    BY <1>1, <1>2, SMTT(30) DEF Recent
  <1>6. L # 0 => (seen[L].ok <=> k = 0)
    <2>1. CASE k = 0
      <3>1. L - k = L /\ (L # 0 => k < L)
        BY <1>4, <2>1, SMTT(30)
      <3>2. L # 0 => seen[L].ok \/ seen[L].time + FailureWindow < seen[L].time
        BY <1>1, <3>1 DEF Recent
      <3>3. L # 0 => ~(seen[L].time + FailureWindow < seen[L].time)
        <4>1. L # 0 => seen[L] \in Observations(b)
          BY <1>1, <1>4, SMTT(30)
        <4>2. L # 0 => seen[L].time \in Nat
          BY <4>1, ObservationFields
        <4> QED
          BY <4>2, HealthAssumption, SMTT(30)
      <3> QED
        BY <2>1, <3>2, <3>3
    <2>2. CASE k # 0
      <3>1. k \in 1..k /\ L - k + k = L
        BY <1>4, <2>2, SMTT(30)
      <3>2. ~seen[L].ok
        BY <1>1, <3>1 DEF Recent
      <3> QED
        BY <2>2, <3>2
    <2> QED
      BY <2>1, <2>2
  <1> HIDE DEF L, k
  <1>7. /\ status(record) = "unknown" <=> L = 0
        /\ status(record) = "healthy" <=> L # 0 /\ k = 0
        /\ status(record) = "unhealthy" <=> k >= UnhealthyThreshold
    <2>1. record.observed <=> L # 0
      BY <1>1, <1>5
    <2>2. CASE L = 0
      <3>1. ~(k >= UnhealthyThreshold)
        BY <1>4, <1>5, <2>2, SMTT(30)
      <3>2. status(record) = "unknown"
        BY <2>1, <2>2, <3>1 DEF status, k
      <3> QED
        BY <2>2, <3>1, <3>2
    <2>3. CASE L # 0 /\ k = 0
      <3>1. ~(k >= UnhealthyThreshold)
        BY <1>4, <2>3, SMTT(30)
      <3>2. status(record) = "healthy"
        BY <1>5, <2>1, <2>3, <3>1 DEF status, k
      <3> QED
        BY <2>3, <3>1, <3>2
    <2>4. CASE L # 0 /\ k # 0
      <3>1. status(record) = IF k >= UnhealthyThreshold THEN "unhealthy" ELSE "degraded"
        BY <1>5, <2>1, <2>4 DEF status, k
      <3> QED
        BY <2>4, <3>1
    <2> QED
      BY <2>2, <2>3, <2>4
  <1>8. \A n \in 1..L : n \in Nat \ {0}
    BY <1>4, SMTT(30)
  <1> QED
    BY <1>3, <1>4, <1>5, <1>6, <1>7, <1>8 DEF L, k

\* The invariant says what the property does.
LEMMA HealthShown ==
  ASSUME HInv
  PROVE  HealthFromHistory
  <1> SUFFICES ASSUME NEW b \in Backends
               PROVE  LET seen == Of(b)
                          shown == snapshot(b)
                      IN /\ shown.status = "unknown" <=> seen = <<>>
                         /\ shown.status = "healthy" <=> (seen # <<>> /\ seen[Len(seen)].ok)
                         /\ shown.status = "unhealthy" <=> LastFailed(seen, UnhealthyThreshold)
                         /\ \A source \in Sources :
                              /\ shown.successes[source] = Count(seen, source, TRUE)
                              /\ shown.failures[source] = Count(seen, source, FALSE)
                         /\ \A n \in 1 .. Len(seen) :
                              shown.consecutive_failures >= n <=> LastFailed(seen, n)
    BY DEF HealthFromHistory
  <1>1. FromHistory(health[b], Of(b), b, now)
    BY DEF HInv
  <1>2. Counted(health[b], Of(b))
    BY <1>1 DEF FromHistory
  <1>3. /\ snapshot(b).status = status(health[b])
        /\ snapshot(b).successes = health[b].successes
        /\ snapshot(b).failures = health[b].failures
        /\ snapshot(b).consecutive_failures = Len(health[b].recent_failures)
    BY DEF snapshot
  <1> DEFINE seen == Of(b)
             record == health[b]
  <1>4. /\ status(record) = "unknown" <=> seen = <<>>
        /\ status(record) = "healthy" <=> (seen # <<>> /\ seen[Len(seen)].ok)
        /\ status(record) = "unhealthy" <=> LastFailed(seen, UnhealthyThreshold)
        /\ \A n \in 1 .. Len(seen) : Len(record.recent_failures) >= n <=> LastFailed(seen, n)
    <2> HIDE DEF seen, record
    <2>1. FromHistory(record, seen, b, now)
      BY <1>1 DEF seen, record
    <2> QED
      BY <2>1, Shown
  <1> QED
    BY <1>2, <1>3, <1>4 DEF Counted

\* What the operator sees of a backend is what the observations of it say, for
\* every threshold, window and interleaving of requests, probes and the clock.
THEOREM HealthShownFromHistory == Spec => []HealthFromHistory
  <1>1. Init => HInv
    BY InitInv
  <1>2. HInv /\ [Next]_vars => HInv'
    BY NextInv
  <1>3. HInv => HealthFromHistory
    BY HealthShown
  <1> QED
    BY <1>1, <1>2, <1>3, PTL DEF Spec

-----------------------------------------------------------------------------
(***************************************************************************)
(* The configuration.  No edit is lost on its way from the file to the     *)
(* store, whatever the watcher is doing when it comes.                     *)
(***************************************************************************)

\* The watcher still has something to do about the file as it is now.
Pending ==
  \/ dirty \/ "reload" \in Range(events)
  \/ watcher.at \in {"debounce", "load"}
  \/ watcher.at = "apply" /\ watcher.loaded = Load(file)

\* Whenever the watcher is at rest, with no change unreported and no reload in
\* its channel, the configuration in force is the one that the file holds, unless
\* the file is rejected or its last change came before the watch (ConfigWatcher::start).
AtRestInForce ==
  watcher.at = "idle" /\ ~dirty /\ "reload" \notin Range(events) => missed \/ InForce

\* The inductive invariant: what the file holds is in force and nothing read
\* before is about to replace it, or the file will be looked at again.
WInv ==
  /\ events \in Seq({"reload", "error"})
  /\ DOMAIN watcher = {"at", "attempt", "loaded"}
  /\ missed \/ Pending \/ (InForce /\ watcher.at # "apply")

\* The fields of the watcher after a step.
LEMMA WatcherFields ==
  ASSUME WInv, NEW x
  PROVE  /\ LET w == [watcher EXCEPT !.at = x]
            IN w.at = x /\ DOMAIN w = DOMAIN watcher
         /\ \A n : LET w == [watcher EXCEPT !.at = x, !.attempt = n]
                  IN w.at = x /\ DOMAIN w = DOMAIN watcher
  BY SMTT(30) DEF WInv

\* An event is one more in the channel.
LEMMA OneMoreEvent ==
  ASSUME WInv, NEW e \in {"reload", "error"}
  PROVE  /\ Append(events, e) \in Seq({"reload", "error"})
         /\ e \in Range(Append(events, e))
         /\ "reload" \in Range(events) => "reload" \in Range(Append(events, e))
  <1>1. /\ events \in Seq({"reload", "error"})
        /\ \A s \in Seq({"reload", "error"}) : DOMAIN s = 1..Len(s) /\ Len(s) \in Nat
    BY SeqIsFunction DEF WInv
  <1>2. /\ Append(events, e) \in Seq({"reload", "error"})
        /\ Len(Append(events, e)) = Len(events) + 1
        /\ Append(events, e)[Len(events) + 1] = e
        /\ \A i \in 1..Len(events) : Append(events, e)[i] = events[i]
    BY <1>1, SeqAppend, SMTT(30)
  <1>3. /\ Len(events) + 1 \in 1..(Len(events) + 1)
        /\ \A i \in 1..Len(events) : i \in 1..(Len(events) + 1)
    BY <1>1, SMTT(30)
  <1> QED
    BY <1>1, <1>2, <1>3 DEF Range

\* What is taken from the channel is a reload, or none of its reloads.
LEMMA OneEventLess ==
  ASSUME WInv, events # <<>>
  PROVE  /\ Tail(events) \in Seq({"reload", "error"})
         /\ "reload" \in Range(events) =>
              Head(events) = "reload" \/ "reload" \in Range(Tail(events))
  <1>1. /\ events \in Seq({"reload", "error"})
        /\ \A s \in Seq({"reload", "error"}) : DOMAIN s = 1..Len(s) /\ Len(s) \in Nat
    BY SeqIsFunction DEF WInv
  <1>2. /\ Tail(events) \in Seq({"reload", "error"})
        /\ Len(Tail(events)) = Len(events) - 1
        /\ \A i \in 1..Len(Tail(events)) : Tail(events)[i] = events[i + 1]
    BY <1>1, SeqTail
  <1>3. Head(events) = events[1]
    BY <1>1, SMTT(30)
  <1>4. ASSUME NEW i \in 1..Len(events), i # 1
        PROVE  i - 1 \in 1..Len(Tail(events)) /\ Tail(events)[i - 1] = events[i]
    BY <1>1, <1>2, <1>4, SMTT(30)
  <1>5. ASSUME NEW i \in 1..Len(events), events[i] = "reload", i # 1
        PROVE  "reload" \in Range(Tail(events))
    BY <1>1, <1>2, <1>4, <1>5 DEF Range
  <1>6. ASSUME "reload" \in Range(events)
        PROVE  \E i \in 1..Len(events) : events[i] = "reload"
    BY <1>1, <1>6 DEF Range
  <1> QED
    BY <1>2, <1>3, <1>5, <1>6

\* Every step of an editor, of notify and of the watcher's task keeps it.
LEMMA ConfigStep ==
  ASSUME WInv, ConfigNext
  PROVE  WInv'
  <1>1. ASSUME NEW f \in Files, Edit(f)
        PROVE  WInv'
    BY <1>1 DEF Edit, WInv, Pending
  <1>2. CASE NotifyError
    <2>1. /\ events' \in Seq({"reload", "error"})
          /\ "reload" \in Range(events) => "reload" \in Range(events')
      BY <1>2, OneMoreEvent DEF NotifyError
    <2> QED
      BY <1>2, <2>1 DEF NotifyError, WInv, Pending, InForce
  <1>3. CASE StartWatcher
    <2>1. watcher'.at = "idle" /\ DOMAIN watcher' = DOMAIN watcher
      BY <1>3, WatcherFields DEF StartWatcher
    <2> QED
      BY <1>3, <2>1 DEF StartWatcher, WInv, Pending, InForce
  <1>4. CASE Notify
    <2>1. events' \in Seq({"reload", "error"}) /\ "reload" \in Range(events')
      BY <1>4, OneMoreEvent DEF Notify
    <2> QED
      BY <1>4, <2>1 DEF Notify, WInv, Pending
  <1>5. CASE process_config_watch_events
    <2>1. /\ events' \in Seq({"reload", "error"})
          /\ "reload" \in Range(events) =>
               Head(events) = "reload" \/ "reload" \in Range(events')
      BY <1>5, OneEventLess DEF process_config_watch_events
    <2>2. /\ DOMAIN watcher' = DOMAIN watcher
          /\ Head(events) = "reload" => watcher'.at = "debounce"
          /\ Head(events) # "reload" => watcher' = watcher
      BY <1>5, WatcherFields DEF process_config_watch_events
    <2>3. CASE Head(events) = "reload"
      BY <1>5, <2>1, <2>2, <2>3 DEF process_config_watch_events, WInv, Pending
    <2>4. CASE Head(events) # "reload"
      BY <1>5, <2>1, <2>2, <2>4 DEF process_config_watch_events, WInv, Pending, InForce
    <2> QED
      BY <2>3, <2>4
  <1>6. CASE wait_for_reload_quiet
    <2>1. events' \in Seq({"reload", "error"})
      BY <1>6, SeqOfNothing DEF wait_for_reload_quiet
    <2>2. DOMAIN watcher' = DOMAIN watcher /\ watcher'.at \in {"debounce", "load"}
      BY <1>6, WatcherFields DEF wait_for_reload_quiet
    <2> QED
      BY <1>6, <2>1, <2>2 DEF WInv, Pending
  <1>7. CASE reload_config_with_retries
    <2>1. CASE Load(file) # {}
      <3>1. watcher' = [watcher EXCEPT !.at = "apply", !.loaded = Load(file)]
        BY <1>7, <2>1 DEF reload_config_with_retries
      <3>2. /\ DOMAIN watcher' = DOMAIN watcher /\ watcher'.at = "apply"
            /\ watcher'.loaded = Load(file)
        BY <3>1, SMTT(30) DEF WInv
      <3>3. file' = file /\ events' = events
        BY <1>7 DEF reload_config_with_retries
      <3> QED
        BY <3>2, <3>3 DEF WInv, Pending
    <2>2. CASE Load(file) = {}
      <3>1. \/ watcher' = [watcher EXCEPT !.at = "idle", !.attempt = 0]
            \/ \E n : watcher' = [watcher EXCEPT !.attempt = n]
        <4>1. CASE watcher.attempt = MaxAttempts
          BY <1>7, <2>2, <4>1 DEF reload_config_with_retries
        <4>2. CASE watcher.attempt # MaxAttempts
          BY <1>7, <2>2, <4>2 DEF reload_config_with_retries
        <4> QED
          BY <4>1, <4>2
      <3>2. DOMAIN watcher' = DOMAIN watcher /\ watcher'.at \in {"idle", "load"}
        <4>1. watcher.at = "load" /\ DOMAIN watcher = {"at", "attempt", "loaded"}
          BY <1>7 DEF reload_config_with_retries, WInv
        <4>2. CASE watcher' = [watcher EXCEPT !.at = "idle", !.attempt = 0]
          BY <4>1, <4>2, SMTT(30)
        <4>3. ASSUME NEW n, watcher' = [watcher EXCEPT !.attempt = n]
              PROVE  DOMAIN watcher' = DOMAIN watcher /\ watcher'.at = "load"
          BY <4>1, <4>3, SMTT(30)
        <4> QED
          BY <3>1, <4>2, <4>3
      <3>3. file' = file /\ events' = events
        BY <1>7 DEF reload_config_with_retries
      <3> QED
        BY <2>2, <3>2, <3>3 DEF WInv, InForce
    <2> QED
      BY <2>1, <2>2
  <1>8. CASE apply_reloaded_config
    <2>1. DOMAIN watcher' = DOMAIN watcher /\ watcher'.at = "idle"
      BY <1>8, SMTT(30) DEF apply_reloaded_config, WInv
    <2> QED
      BY <1>8, <2>1 DEF apply_reloaded_config, WInv, Pending, InForce
  <1> QED
    BY <1>1, <1>2, <1>3, <1>4, <1>5, <1>6, <1>7, <1>8 DEF ConfigNext, WatcherStep

\* Requests, probes, the size refresher and the server leave it alone.
LEMMA OtherStep ==
  ASSUME WInv, UNCHANGED configVars
  PROVE  WInv'
  BY DEF configVars, WInv, Pending, InForce

\* No edit of the file is lost: a change that comes at any moment of a reload,
\* between the read of the file and the replacement of the configuration
\* included, is in force or refused once the watcher has come to rest
\* (process_config_watch_events, wait_for_reload_quiet,
\* reload_config_with_retries, apply_reloaded_config).
THEOREM NoEditLost == Spec => []AtRestInForce
  <1>1. Init => WInv
    <2> SUFFICES ASSUME Init PROVE WInv
      OBVIOUS
    <2>1. events \in Seq({"reload", "error"})
      BY SeqOfNothing DEF Init, ConfigInit
    <2>2. watcher.at = "starting" /\ DOMAIN watcher = {"at", "attempt", "loaded"}
      BY SMTT(30) DEF Init, ConfigInit
    <2>3. InForce
      BY DEF Init, ConfigInit, InForce
    <2> QED
      BY <2>1, <2>2, <2>3 DEF WInv
  <1>2. WInv /\ [Next]_vars => WInv'
    <2> SUFFICES ASSUME WInv, [Next]_vars PROVE WInv'
      OBVIOUS
    <2>1. CASE ConfigNext
      BY <2>1, ConfigStep
    <2>2. CASE UNCHANGED configVars
      BY <2>2, OtherStep
    <2>3. UNCHANGED vars => UNCHANGED configVars
      BY DEF vars, configVars
    <2> QED
      BY <2>1, <2>2, <2>3 DEF Next
  <1>3. WInv => AtRestInForce
    BY DEF WInv, Pending, AtRestInForce
  <1> QED
    BY <1>1, <1>2, <1>3, PTL DEF Spec

=============================================================================
