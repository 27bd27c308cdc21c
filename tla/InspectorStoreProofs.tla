------------------------- MODULE InspectorStoreProofs -------------------------
(***************************************************************************)
(* Theorems about InspectorStore, for every deployment: any retention,     *)
(* capacities of the queues, numbers of requests, subscribers, restarts    *)
(* and crashes, with and without persistence and SQLite errors.            *)
(***************************************************************************)
EXTENDS InspectorStore, Induction

\* Zenon proves the steps that name no prover.
USE ZenonT(20)

-----------------------------------------------------------------------------
(***************************************************************************)
(* The inductive invariant.  Requests: a request writes in a fixed order,  *)
(* and only while the process runs.                                        *)
(***************************************************************************)
Pcs == {"new", "arrived", "live", "persist", "notify", "gone"}

\* A request as seen by the store.
LiveType == [pc : Pcs, version : Nat, retention : Nat, final : BOOLEAN]

\* One more version is left for the final write.
Fits(l, updates) ==
  /\ l.version <= updates + 2
  /\ l.pc # "gone" /\ ~l.final => l.version <= updates + 1

\* The order of its writes: in flight, then once final, then persisted and
\* announced.  None of it goes on after the process has stopped running.
Proceeds(l) ==
  /\ l.pc \in {"new", "arrived"} <=> l.version = 0 /\ l.pc # "gone"
  /\ l.pc # "new" => l.retention \in Retentions
  /\ l.pc = "new" => l.retention = 0
  /\ Fits(l, MaxUpdates)
  /\ l.final => l.pc \in {"persist", "notify", "gone"} /\ l.version # 0
  /\ l.pc = "persist" => l.final
  /\ process # "running" => l.pc \in {"new", "gone"}

\* Nothing will be written of l any more.
Settled(l) == l.version # 0 /\ (l.final \/ l.pc = "gone")

\* The one outcome of request r that may be stored.
outcome(r) == [id |-> r, version |-> live[r].version,
               outcome |-> IF live[r].final THEN "final" ELSE "interrupted"]

\* x is the outcome of its request.
Done(x) == x.id \in Requests /\ Settled(live[x.id]) /\ x = outcome(x.id)

\* x is what its request wrote last.
Current(x) == x.id \in Requests /\ live[x.id].version # 0 /\ x = written(x.id)

-----------------------------------------------------------------------------
(***************************************************************************)
(* The deque, the queue to the writer and the table hold nothing else.     *)
(***************************************************************************)
\* The row limits that InspectorWriter::record sends along.
Limits == {MaxRetention} \cup {clamp(n) : n \in Retentions}

\* A record on its way to the writer.
Messages == [record : Record, retention : 1..MaxRetention]

\* The deque has one record of a request, the outcome or what it wrote last; what
\* was interrupted and what is in the table are outcomes.
Stored ==
  /\ records \in Seq(Record)
  /\ \E n \in Retentions : Len(records) <= clamp(n)
  /\ \A i, j \in 1..Len(records) : records[i].id = records[j].id => i = j
  /\ \A i \in 1..Len(records) : Done(records[i]) \/ Current(records[i])
  /\ interrupted \in Seq(Record)
  /\ \A i \in 1..Len(interrupted) : Done(interrupted[i])
  /\ db \subseteq Record /\ IsFiniteSet(db)
  /\ \A row \in db : Done(row)
  /\ unsaved \subseteq Record \cup {Shutdown.record}

\* The queue has outcomes and the shutdown message, and none without a reader.
Queued ==
  /\ queue \in Seq(Messages \cup {Shutdown})
  /\ Len(queue) <= QueueCapacity
  /\ \A i \in 1..Len(queue) :
       queue[i] # Shutdown => Done(queue[i].record) /\ queue[i].retention \in Limits
  /\ writer = "exited" => queue = <<>>

\* Where the outcome of a record of the deque is on its way to the table.
Newer(rows, i) == {row \in rows : row.id > i}
newer(x) == Newer(db, x.id)
Safe(x) == x \in db \/ x \in unsaved \/ \E n \in Retentions : Cardinality(newer(x)) >= clamp(n)
OnItsWay(x) ==
  \/ process = "running" /\ x.outcome = "in_flight"
  \/ live[x.id].pc = "persist"
  \/ \E i \in 1..Len(queue) : queue[i].record = x
  \/ \E i \in 1..Len(interrupted) : interrupted[i] = x
  \/ Safe(x)

\* With persistence, nothing of the deque is lost on the way to the table.
Drained ==
  Persistent =>
    /\ process # "dropping" => interrupted = <<>>
    /\ process = "stopped" => writer = "exited"
    /\ \A i \in 1..Len(records) : OnItsWay(records[i])

-----------------------------------------------------------------------------
(***************************************************************************)
(* Event streams: the latest of the events that a stream has not received, *)
(* or what it has shown, is what the deque has.                            *)
(***************************************************************************)
\* An event stream: its subscription, and what it has shown of every request.
StreamType == [state : {"off", "subscribed", "live"}, pending : Seq(Record), skipped : Nat,
               told : BOOLEAN, view : [Requests -> SUBSET Record]]

\* x is the last event of its request in the stream, or none is left of it and
\* it has been shown, or will be with the snapshot.
UpToDate(t, x) ==
  \/ \E k \in 1..Len(t.pending) :
       /\ t.pending[k] = x
       /\ \A m \in 1..Len(t.pending) : m > k => t.pending[m].id # x.id
  \/ /\ \A k \in 1..Len(t.pending) : t.pending[k].id # x.id
     /\ t.state = "live" => t.view[x.id] = {x}

\* The positions of the newest records.
InWindow(i) == i \in 1..Len(records) /\ i + SnapshotLimit > Len(records)

\* A stream that runs, has missed nothing and was not told to reload shows or
\* will show the newest records, but those whose announcement is due.
Follows(t) ==
  /\ Len(t.pending) <= EventCapacity
  /\ t.skipped # 0 => t.pending # <<>>
  /\ t.state # "off" => process = "running"
  /\ t.state # "off" /\ ~t.told /\ t.skipped = 0 =>
       \A i \in 1..Len(records) :
         InWindow(i) => \/ live[records[i].id].pc \in {"persist", "notify"}
                        \/ UpToDate(t, records[i])

-----------------------------------------------------------------------------
\* The types.
Kinds ==
  /\ deployment \in Deployments
  /\ process \in {"running", "dropping", "joining", "stopped", "killed"}
  /\ starts \in 1..MaxStarts
  /\ retention \in Retentions
  /\ live \in [Requests -> LiveType]
  /\ flag \in BOOLEAN
  /\ writer \in {"starting", "top", "receiving", "draining", "exited"}
  /\ sub \in [Subscribers -> StreamType]

\* The inductive invariant.
IInv ==
  /\ Kinds
  /\ \A r \in Requests : Proceeds(live[r])
  /\ Stored
  /\ Queued
  /\ Drained
  /\ \A s \in Subscribers : Follows(sub[s])

-----------------------------------------------------------------------------
(***************************************************************************)
(* What a deployment fixes.                                                *)
(***************************************************************************)
LEMMA Fixed ==
  ASSUME deployment \in Deployments
  PROVE  /\ MaxRequests \in Nat /\ MaxUpdates \in Nat /\ MaxStarts \in Nat \ {0}
         /\ Retentions # {} /\ Retentions \subseteq Nat \ {0}
         /\ MaxRetention \in Nat \ {0} /\ QueueCapacity \in Nat \ {0}
         /\ EventCapacity \in Nat \ {0} /\ SnapshotLimit \in Nat \ {0}
         /\ Persistent \in BOOLEAN
         /\ Requests \subseteq Nat /\ 0 \notin Requests
  BY DeploymentsAssumption, SMTT(30)
  DEF MaxRequests, MaxUpdates, MaxStarts, Retentions, MaxRetention, QueueCapacity,
      EventCapacity, SnapshotLimit, Persistent, Requests

\* A retention that reaches the store is positive and within its bound.
LEMMA Clamped ==
  ASSUME deployment \in Deployments
  PROVE  /\ \A n \in Retentions : clamp(n) \in 1..MaxRetention
         /\ Limits \subseteq 1..MaxRetention
         /\ \A k \in Limits : \E n \in Retentions : k >= clamp(n)
  <1>1. \A n \in Retentions : clamp(n) \in 1..MaxRetention
    BY Fixed, SMTT(30) DEF clamp
  <1>2. MaxRetention \in 1..MaxRetention
    BY Fixed, SMTT(30)
  <1>3. PICK n \in Retentions : TRUE
    BY Fixed
  <1>4. \A k \in 1..MaxRetention : k >= k /\ MaxRetention >= k
    BY Fixed, SMTT(30)
  <1> QED
    BY <1>1, <1>2, <1>3, <1>4 DEF Limits

\* What is derived from the deployment stays with it.
LEMMA SameDeployment ==
  ASSUME deployment' = deployment
  PROVE  /\ Requests' = Requests /\ Record' = Record /\ Retentions' = Retentions
         /\ Limits' = Limits /\ Messages' = Messages /\ Subscribers' = Subscribers
         /\ MaxStarts' = MaxStarts /\ MaxUpdates' = MaxUpdates
         /\ QueueCapacity' = QueueCapacity /\ EventCapacity' = EventCapacity
         /\ SnapshotLimit' = SnapshotLimit /\ Persistent' = Persistent
         /\ StreamType' = StreamType
         /\ \A n : clamp(n)' = clamp(n)
  BY DEF Requests, Record, Retentions, Limits, Messages, Subscribers, MaxStarts, MaxUpdates,
         QueueCapacity, EventCapacity, SnapshotLimit, Persistent, StreamType, clamp,
         MaxRequests, Versions, MaxRetention

-----------------------------------------------------------------------------
(***************************************************************************)
(* Once a request is settled, its outcome stays.                           *)
(***************************************************************************)
\* A request that has settled stays as it is.
LiveStep ==
  \A r \in Requests :
    Settled(live[r]) => /\ Settled(live'[r])
                        /\ live'[r].version = live[r].version
                        /\ live'[r].final = live[r].final

\* So an outcome stays the outcome.
LEMMA DoneStays ==
  ASSUME deployment' = deployment, LiveStep, NEW x, Done(x)
  PROVE  Done(x)'
  <1>1. Requests' = Requests
    BY SameDeployment
  <1> QED
    BY <1>1 DEF Done, LiveStep, outcome

\* An outcome is determined by its request, and is not a record in flight.
LEMMA OneOutcome ==
  ASSUME NEW x, NEW y, Done(x), Done(y), x.id = y.id
  PROVE  x = y
  BY DEF Done

\* It is final or interrupted.
LEMMA DoneIsOutcome ==
  ASSUME NEW x, Done(x)
  PROVE  x.outcome # "in_flight"
  BY SMTT(30) DEF Done, outcome

-----------------------------------------------------------------------------
(***************************************************************************)
(* What stays when a step leaves its variables alone.                      *)
(***************************************************************************)
LEMMA ProceedsStays ==
  ASSUME deployment' = deployment, \A r \in Requests : Proceeds(live[r]),
         live' = live, process # "running" \/ process' = "running"
  PROVE  \A r \in Requests : Proceeds(live[r])'
  <1>1. /\ Requests' = Requests /\ Retentions' = Retentions /\ MaxUpdates' = MaxUpdates
    BY SameDeployment
  <1> QED
    BY <1>1 DEF Proceeds

\* Deque and table are in order as long as they stay and requests only move on.
LEMMA StoredStays ==
  ASSUME deployment' = deployment, Stored, LiveStep,
         UNCHANGED <<records, interrupted, db, unsaved>>,
         \A x : Current(x) => Current(x)' \/ Done(x)'
  PROVE  Stored'
  <1>1. Record' = Record /\ Retentions' = Retentions /\ \A n : clamp(n)' = clamp(n)
    BY SameDeployment
  <1>2. Shutdown' = Shutdown
    BY DEF Shutdown
  <1>3. \A x : Done(x) => Done(x)'
    BY DoneStays
  <1> QED
    BY <1>1, <1>2, <1>3 DEF Stored

\* The queue likewise.
LEMMA QueuedStays ==
  ASSUME deployment' = deployment, Queued, LiveStep, UNCHANGED <<queue, writer>>
  PROVE  Queued'
  <1>1. Messages' = Messages /\ QueueCapacity' = QueueCapacity /\ Limits' = Limits
    BY SameDeployment
  <1>2. Shutdown' = Shutdown
    BY DEF Shutdown
  <1>3. \A x : Done(x) => Done(x)'
    BY DoneStays
  <1> QED
    BY <1>1, <1>2, <1>3 DEF Queued

\* A record that is safe stays so while the table does.
LEMMA SafeStays ==
  ASSUME deployment' = deployment, db' = db, unsaved \subseteq unsaved', NEW x, Safe(x)
  PROVE  Safe(x)'
  <1>1. Retentions' = Retentions /\ \A n : clamp(n)' = clamp(n)
    BY SameDeployment
  <1>2. newer(x)' = newer(x)
    BY DEF newer
  <1> QED
    BY <1>1, <1>2 DEF Safe

\* Nothing is lost where nothing moves.
LEMMA DrainedStays ==
  ASSUME deployment' = deployment, Drained,
         UNCHANGED <<process, records, live, interrupted, queue, writer, db, unsaved>>
  PROVE  Drained'
  <1>1. Persistent' = Persistent
    BY SameDeployment
  <1>2. \A x : Safe(x) => Safe(x)'
    BY SafeStays
  <1>3. \A x : OnItsWay(x) => OnItsWay(x)'
    BY <1>2 DEF OnItsWay
  <1> QED
    BY <1>1, <1>3 DEF Drained

\* Streams follow a deque that stays.
LEMMA FollowsStays ==
  ASSUME deployment' = deployment, \A s \in Subscribers : Follows(sub[s]),
         sub' = sub, records' = records, live' = live, process' = process
  PROVE  \A s \in Subscribers : Follows(sub[s])'
  <1>1. /\ Subscribers' = Subscribers /\ EventCapacity' = EventCapacity
        /\ SnapshotLimit' = SnapshotLimit
    BY SameDeployment
  <1> QED
    BY <1>1, SMTT(30) DEF Follows, InWindow, UpToDate

\* Event streams are closed when the process does not run.
LEMMA NoStreams ==
  ASSUME deployment' = deployment, sub \in [Subscribers -> StreamType],
         \A s \in Subscribers : sub'[s].state = "off",
         \A s \in Subscribers : sub'[s].pending = <<>> /\ sub'[s].skipped = 0,
         deployment \in Deployments
  PROVE  \A s \in Subscribers : Follows(sub[s])'
  <1>1. Subscribers' = Subscribers /\ EventCapacity' = EventCapacity
    BY SameDeployment
  <1>2. 0 <= EventCapacity
    BY Fixed, SMTT(30)
  <1> QED
    BY <1>1, <1>2 DEF Follows

-----------------------------------------------------------------------------
(***************************************************************************)
(* Pruning and loading a table with one row for a record.                  *)
(***************************************************************************)
\* A table: rows with distinct ids.
Table(rows) ==
  /\ IsFiniteSet(rows)
  /\ \A row \in rows : row.id \in Nat
  /\ \A row, other \in rows : row.id = other.id => row = other

\* The order of prune_records and load_latest_records.
ById(rows) == [row \in rows |-> row.id]

\* prune_records keeps the rows with the highest ids.
LEMMA PruneIsTop ==
  ASSUME NEW rows, Table(rows), NEW n
  PROVE  /\ Keyed(rows, ById(rows))
         /\ prune_records(rows, n) = Top(rows, ById(rows), n)
  <1> DEFINE key == ById(rows)
  <1>1. \A row \in rows : key[row] = row.id
    BY DEF ById
  <1> HIDE DEF key
  <1>2. Keyed(rows, key)
    BY <1>1 DEF Keyed, Table
  <1>3. \A row \in rows : Above(rows, key, row) = {other \in rows : other.id > row.id}
    BY <1>1 DEF Above
  <1>4. prune_records(rows, n) = Top(rows, key, n)
    BY <1>3 DEF prune_records, Top
  <1> QED
    BY <1>2, <1>4 DEF key

\* At most n of them.
LEMMA PruneSize ==
  ASSUME NEW rows, Table(rows), NEW n \in Nat
  PROVE  /\ prune_records(rows, n) \subseteq rows
         /\ Table(prune_records(rows, n))
         /\ Cardinality(prune_records(rows, n)) <= n
         /\ Cardinality(prune_records(rows, n)) \in Nat
  <1> DEFINE kept == prune_records(rows, n)
  <1>1. kept \in SUBSET rows
    BY DEF prune_records
  <1>2. IsFiniteSet(kept) /\ Cardinality(kept) \in Nat
    BY <1>1, FS_Subset, FS_CardinalityType DEF Table
  <1>3. Table(kept)
    BY <1>1, <1>2 DEF Table
  <1>4. Cardinality(kept) <= n
    BY PruneIsTop, TopSize, SMTT(30)
  <1> QED
    BY <1>1, <1>2, <1>3, <1>4

\* Pruning to k rows leaves c rows newer than i if there were c before, c <= k.
LEMMA PruneLeavesNewest ==
  ASSUME NEW rows, Table(rows), NEW k \in Nat, NEW i \in Nat, NEW c \in Nat, c <= k,
         Cardinality(Newer(rows, i)) >= c
  PROVE  Cardinality(Newer(prune_records(rows, k), i)) >= c
  <1> DEFINE A == Newer(rows, i)
             left == Newer(prune_records(rows, k), i)
  <1> USE DEF Newer
  <1>1. A \in SUBSET rows
    OBVIOUS
  <1>2. IsFiniteSet(A)
    BY <1>1, FS_Subset DEF Table
  <1>3. Table(A)
    BY <1>1, <1>2 DEF Table
  <1>4. \A a \in A : {other \in rows : other.id > a.id} = {other \in A : other.id > a.id}
    BY <1>1, SMTT(30) DEF Table
  <1>5. left = prune_records(A, k)
    BY <1>1, <1>4 DEF prune_records
  <1>6. left = A \/ Cardinality(left) = k
    <2> HIDE DEF A, left
    <2> QED
      BY <1>3, <1>5, PruneIsTop, TopSize, SMTT(30)
  <1>7. Cardinality(A) >= c
    OBVIOUS
  <1> HIDE DEF A, left
  <1>8. Cardinality(left) >= c
    BY <1>6, <1>7
  <1> QED
    BY <1>8 DEF left

\* What is loaded is what pruning leaves, each row once.
LEMMA LoadedRecords ==
  ASSUME NEW rows, Table(rows), NEW n \in Nat
  PROVE  LET seq == load_latest_records(rows, n)
         IN  /\ seq \in Seq(prune_records(rows, n))
             /\ Len(seq) <= n
             /\ \A i, j \in 1..Len(seq) : seq[i].id = seq[j].id => i = j
  <1> DEFINE kept == prune_records(rows, n)
             c == Cardinality(kept)
             seq == load_latest_records(rows, n)
  <1>1. Table(kept) /\ c \in Nat /\ c <= n
    BY PruneSize
  <1> HIDE DEF kept
  <1>2. PICK list : Ascending(list, kept, ById(kept))
    BY <1>1, PruneIsTop, AscendingExists
  <1>3. list \in [1..c -> kept] /\ \A i, j \in 1..c : i < j => list[i].id < list[j].id
    BY <1>2 DEF Ascending, ById
  <1>4. seq \in [1..c -> kept] /\ \A i, j \in 1..c : i < j => seq[i].id < seq[j].id
    BY <1>3 DEF load_latest_records, kept
  <1> HIDE DEF seq, c
  <1>5. seq \in Seq(kept) /\ Len(seq) = c
    BY <1>1, <1>4, SMTT(30)
  <1>6. \A i \in 1..c : seq[i].id \in Nat
    BY <1>1, <1>4 DEF Table
  <1>7. \A i, j \in 1..c : seq[i].id = seq[j].id => i = j
    BY <1>1, <1>4, <1>6, SMTT(30)
  <1> QED
    BY <1>1, <1>5, <1>7 DEF seq, kept

-----------------------------------------------------------------------------
(***************************************************************************)
(* The table holds outcomes.                                               *)
(***************************************************************************)
LEMMA TableOfOutcomes ==
  ASSUME deployment \in Deployments, NEW rows, IsFiniteSet(rows), \A row \in rows : Done(row)
  PROVE  Table(rows)
  <1>1. \A row \in rows : row.id \in Nat
    BY Fixed DEF Done
  <1> QED
    BY <1>1, OneOutcome DEF Table

\* Inserting an outcome adds a row or changes nothing.
LEMMA InsertRow ==
  ASSUME deployment \in Deployments, Stored, NEW x \in Record, Done(x)
  PROVE  /\ insert(db, x) = db \cup {x}
         /\ insert(db, x) \subseteq Record /\ IsFiniteSet(insert(db, x))
         /\ \A row \in insert(db, x) : Done(row)
         /\ Table(insert(db, x))
  <1>1. insert(db, x) = db \cup {x}
    BY OneOutcome DEF insert, Stored
  <1>2. /\ db \cup {x} \subseteq Record /\ \A row \in db \cup {x} : Done(row)
    BY DEF Stored
  <1>3. IsFiniteSet(db \cup {x})
    BY FS_AddElement DEF Stored
  <1> QED
    BY <1>1, <1>2, <1>3, TableOfOutcomes

\* Whatever persist_record does, a record that was safe still is, and so is the
\* record that was to be persisted.
LEMMA PersistRow ==
  ASSUME deployment \in Deployments, deployment' = deployment, Stored, NEW m,
         m.record \in Record, Done(m.record), m.retention \in Limits, persist_record(m)
  PROVE  /\ db' \subseteq Record /\ IsFiniteSet(db') /\ \A row \in db' : Done(row)
         /\ unsaved \subseteq unsaved' /\ unsaved' \subseteq unsaved \cup {m.record}
         /\ \A x : Safe(x) /\ x.id \in Nat => Safe(x)'
         /\ Safe(m.record)'
  <1> DEFINE x == m.record
             k == m.retention
             rows == insert(db, x)
  <1>1. /\ rows = db \cup {x} /\ rows \subseteq Record /\ IsFiniteSet(rows)
        /\ Table(rows) /\ \A row \in rows : Done(row)
    BY InsertRow
  <1>2. k \in Nat /\ \E n \in Retentions : k >= clamp(n)
    BY Clamped, Fixed, SMTT(30)
  <1>3. /\ Retentions' = Retentions
        /\ \A n : clamp(n)' = clamp(n)
        /\ \A n \in Retentions : clamp(n) \in Nat
    BY SameDeployment, Clamped, Fixed, SMTT(30)
  <1>4. CASE db' = prune_records(rows, k) /\ UNCHANGED unsaved
    <2> HIDE DEF x, k, rows
    <2>1. db' \subseteq rows /\ IsFiniteSet(db')
      BY <1>1, <1>2, <1>4, PruneSize DEF Table
    <2>2. ASSUME NEW y \in rows
          PROVE  Safe(y)'
      <3>1. CASE y \in db'
        BY <3>1 DEF Safe
      <3>2. CASE y \notin db'
        <4> DEFINE A == Newer(rows, y.id)
        <4>1. y.id \in Nat /\ IsFiniteSet(A)
          <5>1. A \in SUBSET rows
            BY DEF Newer
          <5> QED
            BY <1>1, <5>1, FS_Subset DEF Table
        <4>2. Cardinality(A) \in Nat
          BY <4>1, FS_CardinalityType
        <4>3. ~(Cardinality(A) < k)
          BY <1>4, <3>2 DEF prune_records, Newer
        <4>4. Cardinality(A) >= k
          <5> HIDE DEF A
          <5> QED
            BY <1>2, <4>2, <4>3, SMTT(30)
        <4>5. Cardinality(Newer(db', y.id)) >= k
          <5>1. Cardinality(Newer(prune_records(rows, k), y.id)) >= k
            BY <1>1, <1>2, <4>1, <4>4, PruneLeavesNewest, SMTT(30)
          <5> QED
            BY <1>4, <5>1
        <4>6. newer(y)' = Newer(db', y.id)
          BY DEF newer
        <4>7. Cardinality(newer(y)') \in Nat
          <5>1. newer(y)' \in SUBSET db'
            BY <4>6 DEF Newer
          <5> QED
            BY <2>1, <5>1, FS_Subset, FS_CardinalityType
        <4>8. PICK n \in Retentions : k >= clamp(n)
          BY <1>2
        <4>9. Cardinality(newer(y)') >= clamp(n)
          <5>1. clamp(n) \in Nat /\ Cardinality(newer(y)') >= k
            BY <1>3, <4>5, <4>6
          <5> HIDE DEF A
          <5> QED
            BY <1>2, <4>7, <4>8, <5>1, SMTT(30)
        <4> QED
          BY <1>3, <4>9 DEF Safe
      <3> QED
        BY <3>1, <3>2
    <2>3. ASSUME NEW y, Safe(y), y.id \in Nat, y \notin db, y \notin unsaved
          PROVE  Safe(y)'
      <3>1. PICK n \in Retentions : Cardinality(newer(y)) >= clamp(n)
        BY <2>3 DEF Safe
      <3>2. PICK j \in Retentions : k >= clamp(j)
        BY <1>2
      <3> DEFINE A == Newer(rows, y.id)
      <3>3. y.id \in Nat /\ newer(y) \in SUBSET A /\ A \in SUBSET rows
        BY <1>1, <2>3 DEF newer, Newer
      <3>4. IsFiniteSet(A) /\ Cardinality(A) \in Nat /\ Cardinality(newer(y)) <= Cardinality(A)
            /\ Cardinality(newer(y)) \in Nat
        BY <1>1, <3>3, FS_Subset, FS_CardinalityType
      <3>5. PICK i \in {n, j} : clamp(i) <= k /\ clamp(i) <= clamp(n)
        BY <1>2, <1>3, <3>1, <3>2, SMTT(30)
      <3>6. i \in Retentions /\ clamp(i) \in Nat
        BY <1>3, <3>1, <3>2, <3>5
      <3>7. Cardinality(A) >= clamp(i)
        <4> HIDE DEF A
        <4>1. clamp(n) \in Nat
          BY <1>3
        <4> QED
          BY <3>1, <3>4, <3>5, <3>6, <4>1, SMTT(30)
      <3>8. Cardinality(Newer(prune_records(rows, k), y.id)) >= clamp(i)
        BY <1>1, <1>2, <3>3, <3>5, <3>6, <3>7, PruneLeavesNewest
      <3>9. newer(y)' = Newer(prune_records(rows, k), y.id)
        BY <1>4 DEF newer
      <3> QED
        BY <1>3, <3>6, <3>8, <3>9 DEF Safe
    <2>4. \A y : Safe(y) /\ y.id \in Nat => Safe(y)'
      <3>1. \A y \in unsaved : Safe(y)'
        BY <1>4 DEF Safe
      <3> QED
        BY <1>1, <2>2, <2>3, <3>1
    <2> QED
      BY <1>1, <1>4, <2>1, <2>2, <2>4 DEF x
  <1>5. CASE db' = rows /\ UNCHANGED unsaved
    <2> HIDE DEF k, rows
    <2>1. ASSUME NEW y, Safe(y)
          PROVE  Safe(y)'
      <3>1. CASE y \in db \/ y \in unsaved
        BY <1>1, <1>5, <3>1 DEF Safe
      <3>2. CASE \E n \in Retentions : Cardinality(newer(y)) >= clamp(n)
        <4>1. PICK n \in Retentions : Cardinality(newer(y)) >= clamp(n)
          BY <3>2
        <4>2. newer(y)' \in SUBSET rows /\ newer(y) \in SUBSET (newer(y)')
          BY <1>1, <1>5 DEF newer, Newer
        <4>3. /\ Cardinality(newer(y)) \in Nat /\ Cardinality(newer(y)') \in Nat
              /\ Cardinality(newer(y)) <= Cardinality(newer(y)')
          BY <1>1, <4>2, FS_Subset, FS_CardinalityType
        <4>4. Cardinality(newer(y)') >= clamp(n)
          BY <1>3, <4>1, <4>3, SMTT(30)
        <4> QED
          BY <1>3, <4>4 DEF Safe
      <3> QED
        BY <2>1, <3>1, <3>2 DEF Safe
    <2>2. Safe(x)'
      BY <1>1, <1>5 DEF Safe
    <2> QED
      BY <1>1, <1>5, <2>1, <2>2
  <1>6. CASE unsaved' = unsaved \cup {x} /\ UNCHANGED db
    <2>1. \A y : Safe(y) => Safe(y)'
      BY <1>6, SafeStays
    <2>2. Safe(x)'
      BY <1>6 DEF Safe
    <2> QED
      BY <1>6, <2>1, <2>2 DEF Stored
  <1> QED
    BY <1>4, <1>5, <1>6 DEF persist_record

-----------------------------------------------------------------------------
(***************************************************************************)
(* Steps of the writer thread: they change the queue, the table and what   *)
(* the persistence gave up on, and nothing that a request or a stream has. *)
(***************************************************************************)
LEMMA NothingSettles ==
  ASSUME live' = live
  PROVE  LiveStep
  BY DEF LiveStep

\* Outcomes and last writes depend on the requests alone.
LEMMA SameRecords ==
  ASSUME deployment' = deployment, live' = live, NEW x
  PROVE  (Done(x) => Done(x)') /\ (Current(x) => Current(x)')
  <1>1. Requests' = Requests
    BY SameDeployment
  <1> QED
    BY <1>1 DEF Done, Current, outcome, written

\* So three things are left to show of them.
LEMMA WriterStep ==
  ASSUME IInv, deployment' = deployment, UNCHANGED storeVars, UNCHANGED <<flag, sub>>,
         writer' \in {"starting", "top", "receiving", "draining", "exited"},
         db' \subseteq Record, IsFiniteSet(db'), \A row \in db' : Done(row),
         unsaved' \subseteq Record \cup {Shutdown.record},
         Queued', process = "stopped" => writer' = "exited" \/ ~Persistent,
         \A x : (Done(x) \/ Current(x)) /\ OnItsWay(x) => OnItsWay(x)'
  PROVE  IInv'
  <1>1. /\ Requests' = Requests /\ Retentions' = Retentions /\ MaxStarts' = MaxStarts
        /\ Subscribers' = Subscribers /\ StreamType' = StreamType /\ Record' = Record
        /\ Persistent' = Persistent /\ \A n : clamp(n)' = clamp(n)
    BY SameDeployment
  <1>2. /\ process' = process /\ starts' = starts /\ retention' = retention
        /\ records' = records /\ live' = live /\ interrupted' = interrupted
    BY DEF storeVars
  <1>3. Kinds'
    BY <1>1, <1>2 DEF IInv, Kinds
  <1>4. \A r \in Requests : Proceeds(live[r])'
    <2>1. process # "running" \/ process' = "running"
      BY <1>2
    <2> QED
      BY <1>2, <2>1, ProceedsStays DEF IInv
  <1>5. Stored'
    <2>1. Shutdown' = Shutdown
      BY DEF Shutdown
    <2>2. \A x : (Done(x) => Done(x)') /\ (Current(x) => Current(x)')
      BY <1>2, SameRecords
    <2> QED
      BY <1>1, <1>2, <2>1, <2>2 DEF IInv, Stored
  <1>6. Drained'
    <2>1. \A i \in 1..Len(records) : Done(records[i]) \/ Current(records[i])
      BY DEF IInv, Stored
    <2> QED
      BY <1>1, <1>2, <2>1 DEF IInv, Drained
  <1>7. \A s \in Subscribers : Follows(sub[s])'
    BY <1>2, FollowsStays DEF IInv
  <1> QED
    BY <1>1, <1>3, <1>4, <1>5, <1>6, <1>7 DEF IInv

\* The writer leaves its loop, or was never in it: what is queued is given up.
LEMMA GivesUp ==
  ASSUME IInv, deployment' = deployment, UNCHANGED storeVars, UNCHANGED <<flag, db, sub>>,
         writer' = "exited", queue' = <<>>,
         unsaved' = unsaved \cup {m.record : m \in Range(queue)}
  PROVE  IInv'
  <1>1. /\ queue \in Seq(Messages \cup {Shutdown})
        /\ Range(queue) \subseteq Messages \cup {Shutdown}
        /\ \A i \in 1..Len(queue) : queue[i].record \in unsaved'
    BY SMTT(30) DEF IInv, Queued, Range
  <1>2. unsaved' \subseteq Record \cup {Shutdown.record}
    BY <1>1 DEF IInv, Stored, Messages
  <1>3. Queued'
    <2>1. QueueCapacity' \in Nat
      BY SameDeployment, Fixed DEF IInv, Kinds
    <2> QED
      BY <2>1, SMTT(30) DEF Queued
  <1>4. ASSUME NEW x, OnItsWay(x)
        PROVE  OnItsWay(x)'
    <2>1. Safe(x) => Safe(x)'
      BY SafeStays
    <2>2. \A y \in unsaved' : Safe(y)'
      BY DEF Safe
    <2> QED
      BY <1>1, <1>4, <2>1, <2>2 DEF OnItsWay, storeVars
  <1>5. db' \subseteq Record /\ IsFiniteSet(db') /\ \A row \in db' : Done(row)
    BY DEF IInv, Stored
  <1> QED
    BY <1>2, <1>3, <1>4, <1>5, WriterStep

\* The writer goes on in its loop without a message.
LEMMA WriterMoves ==
  ASSUME IInv, deployment' = deployment, UNCHANGED storeVars,
         UNCHANGED <<queue, flag, db, unsaved, sub>>, writer # "exited",
         writer' \in {"starting", "top", "receiving", "draining"}
  PROVE  IInv'
  <1>1. Queued'
    <2>1. Messages' = Messages /\ QueueCapacity' = QueueCapacity /\ Limits' = Limits
      BY SameDeployment
    <2>2. Shutdown' = Shutdown
      BY DEF Shutdown
    <2>3. \A x : Done(x) => Done(x)'
      BY SameRecords DEF storeVars
    <2> QED
      BY <2>1, <2>2, <2>3 DEF IInv, Queued
  <1>2. \A x : OnItsWay(x) => OnItsWay(x)'
    <2>1. \A x : Safe(x) => Safe(x)'
      BY SafeStays
    <2> QED
      BY <2>1 DEF OnItsWay, storeVars
  <1>3. process = "stopped" => ~Persistent
    BY DEF IInv, Drained
  <1>4. /\ db' \subseteq Record /\ IsFiniteSet(db') /\ \A row \in db' : Done(row)
        /\ unsaved' \subseteq Record \cup {Shutdown.record}
    BY DEF IInv, Stored
  <1> QED
    BY <1>1, <1>2, <1>3, <1>4, WriterStep

\* The first message is taken from the queue; the others move up.
LEMMA TakeMessage ==
  ASSUME IInv, deployment' = deployment, live' = live, queue # <<>>, queue' = Tail(queue),
         writer # "exited"
  PROVE  /\ Len(queue) \in Nat \ {0} /\ Head(queue) = queue[1]
         /\ Head(queue) \in Messages \cup {Shutdown}
         /\ Head(queue) # Shutdown =>
              Done(Head(queue).record) /\ Head(queue).retention \in Limits
         /\ \A i \in 2..Len(queue) : i - 1 \in 1..Len(queue') /\ queue'[i - 1] = queue[i]
         /\ writer' # "exited" => Queued'
  <1> DEFINE M == Messages \cup {Shutdown}
             q == queue
             p == Tail(queue)
  <1>1. q \in Seq(M) /\ q # <<>> /\ Len(q) <= QueueCapacity
    BY DEF IInv, Queued
  <1> HIDE DEF M, q, p
  <1>2. /\ Len(q) \in Nat \ {0} /\ Head(q) = q[1] /\ Head(q) \in M
        /\ p \in Seq(M) /\ Len(p) = Len(q) - 1
        /\ \A i \in 1..Len(p) : p[i] = q[i + 1]
    BY <1>1, SeqTail, SeqIsFunction, SeqOfNothing, SMTT(30) DEF p, q
  <1>3. ASSUME NEW i \in 2..Len(q)
        PROVE  i - 1 \in 1..Len(p) /\ p[i - 1] = q[i]
    <2>1. i - 1 \in 1..Len(p) /\ (i - 1) + 1 = i
      BY <1>2, SMTT(30)
    <2> QED
      BY <1>2, <2>1
  <1>4. q[1] # Shutdown => Done(q[1].record) /\ q[1].retention \in Limits
    <2>1. 1 \in 1..Len(q)
      BY <1>2, SMTT(30)
    <2> QED
      BY <2>1 DEF IInv, Queued, q
  <1>5. ASSUME writer' # "exited"
        PROVE  Queued'
    <2>1. Messages' = Messages /\ QueueCapacity' = QueueCapacity /\ Limits' = Limits
      BY SameDeployment
    <2>2. Shutdown' = Shutdown
      BY DEF Shutdown
    <2>3. \A x : Done(x) => Done(x)'
      BY SameRecords
    <2>4. queue' = p
      BY DEF p
    <2>5. QueueCapacity \in Nat
      BY Fixed DEF IInv, Kinds
    <2>6. Len(p) <= QueueCapacity
      BY <1>1, <1>2, <2>5, SMTT(30)
    <2>7. ASSUME NEW i \in 1..Len(queue'), queue'[i] # Shutdown
          PROVE  Done(queue[i].record)' /\ queue'[i].retention \in Limits
      <3>1. queue'[i] = q[i + 1] /\ i + 1 \in 1..Len(q)
        BY <1>2, <2>4, SMTT(30)
      <3>2. Done(q[i + 1].record) /\ q[i + 1].retention \in Limits
        BY <2>7, <3>1 DEF IInv, Queued, q
      <3>3. Done(queue'[i].record)
        BY <3>1, <3>2
      <3> QED
        BY <2>3, <3>1, <3>2, <3>3
    <2>8. p \in Seq(Messages' \cup {Shutdown'})
      BY <1>2, <2>1, <2>2 DEF M
    <2> QED
      BY <1>5, <2>1, <2>2, <2>4, <2>6, <2>7, <2>8 DEF Queued
  <1> QED
    BY <1>2, <1>3, <1>4, <1>5 DEF M, q, p

\* It receives one: persists it, or begins to drain.
LEMMA WriterReceiveInv ==
  ASSUME IInv, deployment' = deployment, WriterReceive
  PROVE  IInv'
  <1>1. /\ queue # <<>> /\ queue' = Tail(queue) /\ writer \in {"receiving", "draining"}
        /\ UNCHANGED storeVars /\ UNCHANGED <<flag, sub>> /\ live' = live
        /\ writer' \in {"top", "draining"}
    BY DEF WriterReceive, storeVars
  <1>2. PICK m : m = Head(queue)
    OBVIOUS
  <1>3. /\ Len(queue) \in Nat \ {0} /\ m = queue[1] /\ m \in Messages \cup {Shutdown}
        /\ m # Shutdown => Done(m.record) /\ m.retention \in Limits
        /\ \A i \in 2..Len(queue) : i - 1 \in 1..Len(queue') /\ queue'[i - 1] = queue[i]
        /\ Queued'
    BY <1>1, <1>2, TakeMessage
  <1>4. process = "stopped" => ~Persistent
    BY <1>1 DEF IInv, Drained
  <1>5. /\ db' \subseteq Record /\ IsFiniteSet(db') /\ \A row \in db' : Done(row)
        /\ unsaved' \subseteq Record \cup {Shutdown.record}
        /\ \A x : Safe(x) /\ x.id \in Nat => Safe(x)'
        /\ m # Shutdown => Safe(m.record)'
    <2>1. CASE m = Shutdown
      <3>1. db' = db /\ unsaved' = unsaved
        BY <1>2, <2>1 DEF WriterReceive
      <3>2. \A x : Safe(x) => Safe(x)'
        BY <3>1, SafeStays
      <3> QED
        BY <2>1, <3>1, <3>2 DEF IInv, Stored
    <2>2. CASE m # Shutdown
      <3>1. persist_record(m)
        BY <1>2, <2>2 DEF WriterReceive
      <3>2. m.record \in Record /\ Done(m.record) /\ m.retention \in Limits
        BY <1>3, <2>2 DEF Messages
      <3>3. /\ db' \subseteq Record /\ IsFiniteSet(db') /\ \A row \in db' : Done(row)
            /\ unsaved \subseteq unsaved' /\ unsaved' \subseteq unsaved \cup {m.record}
            /\ \A x : Safe(x) /\ x.id \in Nat => Safe(x)'
            /\ Safe(m.record)'
        BY <3>1, <3>2, PersistRow DEF IInv, Kinds
      <3>4. unsaved' \subseteq Record \cup {Shutdown.record}
        BY <3>2, <3>3 DEF IInv, Stored
      <3> QED
        BY <2>2, <3>3, <3>4
    <2> QED
      BY <2>1, <2>2
  <1>6. ASSUME NEW x, Done(x) \/ Current(x), OnItsWay(x)
        PROVE  OnItsWay(x)'
    <2>1. x.id \in Nat /\ x.id # 0
      BY <1>6, Fixed DEF Done, Current, IInv, Kinds
    <2>2. Safe(x) => Safe(x)'
      BY <1>5, <2>1
    <2>3. ASSUME NEW i \in 1..Len(queue), queue[i].record = x
          PROVE  Safe(x)' \/ \E j \in 1..Len(queue') : queue'[j].record = x
      <3>1. CASE i = 1
        <4>1. m.record = x /\ m # Shutdown
          BY <1>3, <2>1, <2>3, <3>1, SMTT(30) DEF Shutdown, Message
        <4> QED
          BY <1>5, <4>1
      <3>2. CASE i # 1
        <4>1. i \in 2..Len(queue)
          BY <1>3, <3>2, SMTT(30)
        <4> QED
          BY <1>3, <2>3, <4>1
      <3> QED
        BY <3>1, <3>2
    <2> QED
      BY <1>1, <1>6, <2>2, <2>3 DEF OnItsWay, storeVars
  <1> QED
    BY <1>1, <1>3, <1>4, <1>5, <1>6, WriterStep

\* Every step of the writer thread.
LEMMA WriterInv ==
  ASSUME IInv, deployment' = deployment, Writer
  PROVE  IInv'
  <1>1. CASE WriterStart
    <2>1. CASE writer' = "top" /\ UNCHANGED <<queue, unsaved>>
      BY <1>1, <2>1, WriterMoves DEF WriterStart
    <2>2. CASE /\ writer' = "exited" /\ queue' = <<>>
               /\ unsaved' = unsaved \cup {m.record : m \in Range(queue)}
      BY <1>1, <2>2, GivesUp DEF WriterStart
    <2> QED
      BY <1>1, <2>1, <2>2 DEF WriterStart
  <1>2. CASE WriterTop
    BY <1>2, WriterMoves DEF WriterTop
  <1>3. CASE WriterReceive
    BY <1>3, WriterReceiveInv
  <1>4. CASE WriterTimeout
    BY <1>4, WriterMoves DEF WriterTimeout
  <1>5. CASE WriterDeadline
    BY <1>5, GivesUp DEF WriterDeadline
  <1> QED
    BY <1>1, <1>2, <1>3, <1>4, <1>5 DEF Writer

-----------------------------------------------------------------------------
(***************************************************************************)
(* Handing a record to the writer, and dropping the store.                 *)
(***************************************************************************)
LEMMA WriterRecord ==
  ASSUME IInv, deployment' = deployment, LiveStep, NEW x \in Record, Done(x),
         NEW n \in Limits, writer_record(x, n)
  PROVE  /\ Queued' /\ unsaved \subseteq unsaved'
         /\ unsaved' \subseteq Record \cup {Shutdown.record}
         /\ \A i \in 1..Len(queue) : i \in 1..Len(queue') /\ queue'[i] = queue[i]
         /\ Safe(x)' \/ \E j \in 1..Len(queue') : queue'[j].record = x
  <1>1. unsaved \subseteq Record \cup {Shutdown.record}
    BY DEF IInv, Stored
  <1>2. CASE /\ unsaved' = unsaved \cup {x}
             /\ UNCHANGED <<queue, flag, writer, db>>
    <2>1. Queued'
      BY <1>2, QueuedStays DEF IInv
    <2>2. Safe(x)'
      BY <1>2 DEF Safe
    <2> QED
      BY <1>1, <1>2, <2>1, <2>2
  <1>3. CASE /\ writer # "exited" /\ Len(queue) < QueueCapacity
             /\ queue' = Append(queue, Message(x, n))
             /\ UNCHANGED <<flag, writer, db, unsaved>>
    <2> DEFINE M == Messages \cup {Shutdown}
               q == queue
    <2>1. PICK m : m = Message(x, n)
      OBVIOUS
    <2>2. m \in M /\ m.record = x /\ m.retention = n
      BY <2>1, Clamped DEF Message, Messages, IInv, Kinds
    <2>3. q \in Seq(M)
      BY DEF IInv, Queued
    <2> HIDE DEF M
    <2>4. /\ queue' \in Seq(M) /\ Len(queue') = Len(q) + 1 /\ Len(q) \in Nat
          /\ queue'[Len(q) + 1] = m
          /\ \A i \in 1..Len(q) : i \in 1..Len(queue') /\ queue'[i] = q[i]
      <3>1. queue' = Append(q, m)
        BY <1>3, <2>1
      <3> HIDE DEF q
      <3>2. /\ queue' \in Seq(M) /\ Len(queue') = Len(q) + 1 /\ Len(q) \in Nat
        BY <2>2, <2>3, <3>1, SMTT(30)
      <3>3. queue'[Len(q) + 1] = m /\ \A i \in 1..Len(q) : queue'[i] = q[i]
        BY <2>2, <2>3, <3>1, SMTT(30)
      <3>4. \A i \in 1..Len(q) : i \in 1..Len(queue')
        BY <3>2, SMTT(30)
      <3> QED
        BY <3>2, <3>3, <3>4
    <2>5. Messages' = Messages /\ QueueCapacity' = QueueCapacity /\ Limits' = Limits
      BY SameDeployment
    <2>6. Shutdown' = Shutdown
      BY DEF Shutdown
    <2>7. \A y : Done(y) => Done(y)'
      BY DoneStays
    <2>8. ASSUME NEW i \in 1..Len(queue'), queue'[i] # Shutdown
          PROVE  Done(queue[i].record)' /\ queue'[i].retention \in Limits
      <3>1. CASE i \in 1..Len(q)
        <4>1. Done(queue'[i].record) /\ queue'[i].retention \in Limits
          BY <2>4, <2>8, <3>1 DEF IInv, Queued
        <4> QED
          BY <2>7, <4>1
      <3>2. CASE i \notin 1..Len(q)
        <4>1. i = Len(q) + 1
          <5> HIDE DEF q
          <5> QED
            BY <2>4, <3>2, SMTT(30)
        <4>2. queue'[i].record = x /\ queue'[i].retention = n
          BY <2>2, <2>4, <4>1
        <4>3. Done(queue'[i].record)
          BY <4>2
        <4> QED
          BY <2>7, <4>2, <4>3
      <3> QED
        BY <3>1, <3>2
    <2>9. Len(queue') <= QueueCapacity
      <3>1. QueueCapacity \in Nat
        BY Fixed DEF IInv, Kinds
      <3>2. Len(q) < QueueCapacity
        BY <1>3
      <3> HIDE DEF q
      <3> QED
        BY <2>4, <3>1, <3>2, SMTT(30)
    <2>10. Queued'
      BY <1>3, <2>4, <2>5, <2>6, <2>8, <2>9 DEF Queued, M
    <2>11. Len(q) + 1 \in 1..Len(queue')
      <3> HIDE DEF q
      <3> QED
        BY <2>4, SMTT(30)
    <2> QED
      BY <1>1, <1>3, <2>2, <2>4, <2>10, <2>11
  <1> QED
    BY <1>2, <1>3 DEF writer_record

\* The steps of Drop leave the deque and the requests alone.
LEMMA DropStep ==
  ASSUME IInv, deployment' = deployment, UNCHANGED <<starts, retention, records, live>>,
         UNCHANGED <<writer, db, sub>>, process # "running",
         process' \in {"dropping", "joining", "stopped", "killed"}, flag' \in BOOLEAN,
         interrupted' \in Seq(Record), \A i \in 1..Len(interrupted') : Done(interrupted'[i]),
         unsaved' \subseteq Record \cup {Shutdown.record}, Queued',
         Persistent /\ process' # "dropping" => interrupted' = <<>>,
         process' = "stopped" => writer' = "exited",
         \A x : (Done(x) \/ Current(x)) /\ OnItsWay(x) => OnItsWay(x)'
  PROVE  IInv'
  <1>1. /\ Requests' = Requests /\ Retentions' = Retentions /\ MaxStarts' = MaxStarts
        /\ Subscribers' = Subscribers /\ StreamType' = StreamType /\ Record' = Record
        /\ EventCapacity' = EventCapacity /\ MaxUpdates' = MaxUpdates
        /\ Persistent' = Persistent /\ \A n : clamp(n)' = clamp(n)
    BY SameDeployment
  <1>2. Kinds'
    BY <1>1 DEF IInv, Kinds
  <1>3. \A r \in Requests : Proceeds(live[r])'
    BY ProceedsStays DEF IInv
  <1>4. Stored'
    <2>1. Shutdown' = Shutdown
      BY DEF Shutdown
    <2>2. \A x : (Done(x) => Done(x)') /\ (Current(x) => Current(x)')
      BY SameRecords
    <2>3. \A i \in 1..Len(interrupted') : Done(interrupted[i])'
      BY <2>2
    <2>4. \A i \in 1..Len(records') : Done(records[i])' \/ Current(records[i])'
      BY <2>2 DEF IInv, Stored
    <2>5. \A row \in db' : Done(row)'
      BY <2>2 DEF IInv, Stored
    <2> QED
      BY <1>1, <2>1, <2>3, <2>4, <2>5 DEF IInv, Stored
  <1>5. Drained'
    <2>1. \A i \in 1..Len(records) : Done(records[i]) \/ Current(records[i])
      BY DEF IInv, Stored
    <2> QED
      BY <1>1, <2>1 DEF IInv, Drained
  <1>6. \A s \in Subscribers : Follows(sub[s])'
    <2>1. \A s \in Subscribers : sub[s].state = "off"
      BY DEF IInv, Follows
    <2> QED
      BY <1>1, <2>1 DEF IInv, Follows
  <1> QED
    BY <1>1, <1>2, <1>3, <1>4, <1>5, <1>6 DEF IInv

\* Drop sends an interrupted record, or gives up on a full queue.
LEMMA SendInterruptedInv ==
  ASSUME IInv, deployment' = deployment, SendInterrupted
  PROVE  IInv'
  <1>1. /\ process = "dropping" /\ process' = process /\ interrupted # <<>>
        /\ interrupted' = Tail(interrupted)
        /\ UNCHANGED <<starts, retention, records, live, sub>> /\ UNCHANGED <<flag, writer, db>>
    BY DEF SendInterrupted, writer_record
  <1>2. PICK x : x = Head(interrupted)
    OBVIOUS
  <1>3. /\ x \in Record /\ x = interrupted[1] /\ Len(interrupted) \in Nat \ {0}
        /\ interrupted' \in Seq(Record) /\ Len(interrupted') = Len(interrupted) - 1
        /\ \A i \in 1..Len(interrupted') : interrupted'[i] = interrupted[i + 1]
    <2> DEFINE q == interrupted
               R == Record
    <2>1. q \in Seq(R) /\ q # <<>> /\ x = Head(q) /\ interrupted' = Tail(q)
      BY <1>1, <1>2 DEF IInv, Stored
    <2> HIDE DEF q, R
    <2>2. /\ x \in R /\ x = q[1] /\ Len(q) \in Nat \ {0}
          /\ interrupted' \in Seq(R) /\ Len(interrupted') = Len(q) - 1
          /\ \A i \in 1..Len(interrupted') : interrupted'[i] = q[i + 1]
      BY <2>1, SeqTail, SeqIsFunction, SeqOfNothing, SMTT(30)
    <2> QED
      BY <2>2 DEF q, R
  <1>4. Done(x)
    <2>1. 1 \in 1..Len(interrupted)
      BY <1>3, SMTT(30)
    <2> QED
      BY <1>3, <2>1 DEF IInv, Stored
  <1>5. PICK n \in Limits : n = MaxRetention
    BY DEF Limits
  <1>6. LiveStep
    BY <1>1, NothingSettles
  <1>7. writer_record(x, n)
    BY <1>2, <1>5 DEF SendInterrupted
  <1>8. /\ Queued' /\ unsaved \subseteq unsaved'
        /\ unsaved' \subseteq Record \cup {Shutdown.record}
        /\ \A i \in 1..Len(queue) : i \in 1..Len(queue') /\ queue'[i] = queue[i]
        /\ Safe(x)' \/ \E j \in 1..Len(queue') : queue'[j].record = x
    BY <1>3, <1>4, <1>6, <1>7, WriterRecord
  <1>9. \A i \in 1..Len(interrupted') : Done(interrupted'[i])
    <2>1. \A i \in 1..Len(interrupted') : i + 1 \in 1..Len(interrupted)
      BY <1>3, SMTT(30)
    <2> QED
      BY <1>3, <2>1 DEF IInv, Stored
  <1>10. ASSUME NEW y, OnItsWay(y)
         PROVE  OnItsWay(y)'
    <2>1. Safe(y) => Safe(y)'
      BY <1>1, <1>8, SafeStays
    <2>2. ASSUME NEW i \in 1..Len(interrupted), interrupted[i] = y
          PROVE  y = x \/ \E j \in 1..Len(interrupted') : interrupted'[j] = y
      <3>1. i = 1 \/ (i - 1 \in 1..Len(interrupted') /\ (i - 1) + 1 = i)
        BY <1>3, SMTT(30)
      <3> QED
        BY <1>3, <2>2, <3>1
    <2>3. y = x => OnItsWay(y)'
      BY <1>8 DEF OnItsWay
    <2> QED
      BY <1>1, <1>8, <1>10, <2>1, <2>2, <2>3 DEF OnItsWay
  <1>11. flag' \in BOOLEAN
    BY <1>1 DEF IInv, Kinds
  <1> QED
    BY <1>1, <1>3, <1>8, <1>9, <1>10, <1>11, DropStep

\* Drop raises the flag and sends the shutdown message if there is room.
LEMMA RequestShutdownInv ==
  ASSUME IInv, deployment' = deployment, RequestShutdown
  PROVE  IInv'
  <1>1. /\ process = "dropping" /\ process' = "joining" /\ interrupted = <<>> /\ flag' = TRUE
        /\ UNCHANGED <<starts, retention, records, live, interrupted>>
        /\ UNCHANGED <<writer, db, unsaved, sub>>
    BY DEF RequestShutdown, request_shutdown
  <1>2. Queued' /\ \A i \in 1..Len(queue) : i \in 1..Len(queue') /\ queue'[i] = queue[i]
    <2>1. CASE queue' = queue
      <3>1. LiveStep
        BY <1>1, NothingSettles
      <3> QED
        BY <1>1, <2>1, <3>1, QueuedStays DEF IInv
    <2>2. CASE /\ queue' = Append(queue, Shutdown) /\ writer # "exited"
               /\ Len(queue) < QueueCapacity
      <3> DEFINE M == Messages \cup {Shutdown}
                 q == queue
                 m == Shutdown
      <3>1. q \in Seq(M) /\ m \in M /\ queue' = Append(q, m)
        BY <2>2 DEF IInv, Queued
      <3> HIDE DEF M, q, m
      <3>2. /\ queue' \in Seq(M) /\ Len(queue') = Len(q) + 1 /\ Len(q) \in Nat
            /\ queue'[Len(q) + 1] = m
            /\ \A i \in 1..Len(q) : queue'[i] = q[i]
        BY <3>1, SMTT(30)
      <3>3. \A i \in 1..Len(q) : i \in 1..Len(queue')
        BY <3>2, SMTT(30)
      <3>4. \A i \in 1..Len(queue') : i \in 1..Len(q) \/ i = Len(q) + 1
        BY <3>2, SMTT(30)
      <3>5. Messages' = Messages /\ QueueCapacity' = QueueCapacity /\ Limits' = Limits
        BY SameDeployment
      <3>6. Shutdown' = Shutdown
        BY DEF Shutdown
      <3>7. \A y : Done(y) => Done(y)'
        BY <1>1, SameRecords
      <3>8. ASSUME NEW i \in 1..Len(queue'), queue'[i] # Shutdown
            PROVE  Done(queue[i].record)' /\ queue'[i].retention \in Limits
        <4>1. i \in 1..Len(q) /\ queue'[i] = q[i]
          BY <3>2, <3>4, <3>8 DEF m
        <4>2. Done(queue'[i].record) /\ queue'[i].retention \in Limits
          BY <3>8, <4>1 DEF IInv, Queued, q
        <4> QED
          BY <3>7, <4>2
      <3>9. Len(queue') <= QueueCapacity
        <4>1. QueueCapacity \in Nat /\ Len(q) < QueueCapacity
          BY <2>2, Fixed DEF IInv, Kinds, q
        <4> QED
          BY <3>2, <4>1, SMTT(30)
      <3>10. queue' \in Seq(Messages' \cup {Shutdown'}) /\ writer' # "exited"
        BY <1>1, <2>2, <3>2, <3>5, <3>6 DEF M
      <3>11. Queued'
        BY <3>5, <3>6, <3>8, <3>9, <3>10 DEF Queued
      <3> QED
        BY <3>2, <3>3, <3>11 DEF q
    <2> QED
      BY <2>1, <2>2 DEF RequestShutdown, request_shutdown
  <1>3. ASSUME NEW y, OnItsWay(y)
        PROVE  OnItsWay(y)'
    <2>1. Safe(y) => Safe(y)'
      BY <1>1, SafeStays
    <2> QED
      BY <1>1, <1>2, <1>3, <2>1 DEF OnItsWay
  <1>4. /\ unsaved' \subseteq Record \cup {Shutdown.record}
        /\ interrupted' \in Seq(Record) /\ \A i \in 1..Len(interrupted') : Done(interrupted'[i])
    BY <1>1 DEF IInv, Stored
  <1> QED
    BY <1>1, <1>2, <1>3, <1>4, DropStep

\* Every step of Drop.
LEMMA DropInv ==
  ASSUME IInv, deployment' = deployment, Drop
  PROVE  IInv'
  <1>1. CASE SendInterrupted
    BY <1>1, SendInterruptedInv
  <1>2. CASE RequestShutdown
    BY <1>2, RequestShutdownInv
  <1>3. CASE JoinWriter
    <2>1. /\ process = "joining" /\ process' = "stopped" /\ writer = "exited"
          /\ UNCHANGED <<starts, retention, records, live, interrupted, sub>>
          /\ UNCHANGED <<queue, flag, writer, db, unsaved>>
      BY <1>3 DEF JoinWriter, writerVars
    <2>2. LiveStep
      BY <2>1, NothingSettles
    <2>3. Queued'
      BY <2>1, <2>2, QueuedStays DEF IInv
    <2>4. \A y : OnItsWay(y) => OnItsWay(y)'
      <3>1. \A y : Safe(y) => Safe(y)'
        BY <2>1, SafeStays
      <3> QED
        BY <2>1, <3>1 DEF OnItsWay
    <2>5. flag' \in BOOLEAN
      BY <2>1 DEF IInv, Kinds
    <2>6. /\ unsaved' \subseteq Record \cup {Shutdown.record}
          /\ interrupted' \in Seq(Record)
          /\ \A i \in 1..Len(interrupted') : Done(interrupted'[i])
      BY <2>1 DEF IInv, Stored
    <2>7. Persistent => interrupted' = <<>>
      BY <2>1 DEF IInv, Drained
    <2> QED
      BY <2>1, <2>3, <2>4, <2>5, <2>6, <2>7, DropStep
  <1> QED
    BY <1>1, <1>2, <1>3 DEF Drop

-----------------------------------------------------------------------------
(***************************************************************************)
(* Steps of a request that do not write its record.                        *)
(***************************************************************************)

\* The request moves on in its program; what it has written stays.
LEMMA RequestStep ==
  ASSUME IInv, deployment' = deployment,
         UNCHANGED <<process, starts, records, interrupted>>, UNCHANGED <<flag, writer, db>>,
         retention' = retention,
         NEW r \in Requests, NEW l \in LiveType, live' = [live EXCEPT ![r] = l], Proceeds(l),
         live[r].pc # "gone", l.version = live[r].version, l.final = live[r].final,
         unsaved' \subseteq Record \cup {Shutdown.record}, Queued',
         sub' \in [Subscribers -> StreamType], \A s \in Subscribers : Follows(sub[s])',
         Persistent => \A x : (Done(x) \/ Current(x)) /\ OnItsWay(x) => OnItsWay(x)'
  PROVE  IInv'
  <1>1. /\ Requests' = Requests /\ Retentions' = Retentions /\ MaxStarts' = MaxStarts
        /\ Subscribers' = Subscribers /\ StreamType' = StreamType /\ Record' = Record
        /\ MaxUpdates' = MaxUpdates
        /\ Persistent' = Persistent /\ \A n : clamp(n)' = clamp(n)
    BY SameDeployment
  <1>2. /\ live' \in [Requests -> LiveType] /\ live \in [Requests -> LiveType]
        /\ live'[r] = l /\ \A q \in Requests : q # r => live'[q] = live[q]
    BY DEF IInv, Kinds
  <1>3. Kinds'
    BY <1>1, <1>2 DEF IInv, Kinds
  <1>4. \A q \in Requests : Proceeds(live[q])'
    <2>1. \A q \in Requests : Proceeds(live'[q])
      BY <1>2 DEF IInv
    <2> QED
      BY <1>1, <2>1 DEF Proceeds
  <1>5. LiveStep
    BY <1>2 DEF LiveStep, Settled
  <1>6. Stored'
    <2>1. Shutdown' = Shutdown
      BY DEF Shutdown
    <2>2. \A x : Done(x) => Done(x)'
      BY <1>5, DoneStays
    <2>3. \A x : Current(x) => Current(x)'
      BY <1>1, <1>2 DEF Current, written
    <2> QED
      BY <1>1, <2>1, <2>2, <2>3 DEF IInv, Stored
  <1>7. Drained'
    <2>1. \A i \in 1..Len(records) : Done(records[i]) \/ Current(records[i])
      BY DEF IInv, Stored
    <2> QED
      BY <1>1, <2>1 DEF IInv, Drained
  <1> QED
    BY <1>1, <1>3, <1>4, <1>6, <1>7 DEF IInv

\* Records of the deque are of requests.
LEMMA IdsOfDeque ==
  ASSUME Stored, NEW i \in 1..Len(records)
  PROVE  records[i] \in Record /\ records[i].id \in Requests
  <1>1. records[i] \in Record
    BY SMTT(30) DEF Stored
  <1> QED
    BY <1>1 DEF Record

\* A stream follows the deque when no announcement is made.
LEMMA NothingAnnounced ==
  ASSUME deployment' = deployment, Stored, \A s \in Subscribers : Follows(sub[s]),
         sub' = sub, records' = records, process' = process,
         \A q \in Requests : live[q].pc \in {"persist", "notify"} =>
                               live'[q].pc \in {"persist", "notify"}
  PROVE  \A s \in Subscribers : Follows(sub[s])'
  <1>1. /\ Subscribers' = Subscribers /\ EventCapacity' = EventCapacity
        /\ SnapshotLimit' = SnapshotLimit
    BY SameDeployment
  <1>2. \A i : InWindow(i)' <=> InWindow(i)
    BY <1>1 DEF InWindow
  <1>3. \A i \in 1..Len(records) :
          live[records[i].id].pc \in {"persist", "notify"} =>
            live'[records[i].id].pc \in {"persist", "notify"}
    BY IdsOfDeque
  <1>4. \A s \in Subscribers, i \in 1..Len(records) :
          UpToDate(sub[s], records[i]) => UpToDate(sub[s], records[i])'
    BY DEF UpToDate
  <1>5. ASSUME NEW s \in Subscribers
        PROVE  Follows(sub[s])'
    <2>1. Follows(sub[s])
      OBVIOUS
    <2> QED
      BY <1>1, <1>2, <1>3, <1>4, <2>1 DEF Follows
  <1> QED
    BY <1>1, <1>5

\* A reload changes the retention alone.
LEMMA ReloadInv ==
  ASSUME IInv, deployment' = deployment, Reload
  PROVE  IInv'
  <1>1. /\ UNCHANGED <<process, starts, records, live, interrupted, sub>>
        /\ UNCHANGED <<queue, flag, writer, db, unsaved>> /\ retention' \in Retentions
    BY DEF Reload, writerVars
  <1>2. /\ Requests' = Requests /\ Retentions' = Retentions /\ MaxStarts' = MaxStarts
        /\ Subscribers' = Subscribers /\ StreamType' = StreamType
    BY SameDeployment
  <1>3. Kinds'
    BY <1>1, <1>2 DEF IInv, Kinds
  <1>4. \A r \in Requests : Proceeds(live[r])'
    <2>1. process # "running" \/ process' = "running"
      BY <1>1
    <2> QED
      BY <1>1, <2>1, ProceedsStays DEF IInv
  <1>5. LiveStep
    BY <1>1, NothingSettles
  <1>6. \A x : Current(x) => Current(x)'
    BY <1>1, SameRecords
  <1>7. Stored'
    BY <1>1, <1>5, <1>6, StoredStays DEF IInv
  <1>8. Queued'
    BY <1>1, <1>5, QueuedStays DEF IInv
  <1>9. Drained'
    BY <1>1, DrainedStays DEF IInv
  <1>10. \A s \in Subscribers : Follows(sub[s])'
    BY <1>1, FollowsStays DEF IInv
  <1> QED
    BY <1>2, <1>3, <1>4, <1>7, <1>8, <1>9, <1>10 DEF IInv

\* What the invariant says of one request.
LEMMA LiveAt ==
  ASSUME IInv, NEW r \in Requests
  PROVE  /\ live[r] \in LiveType /\ Proceeds(live[r])
         /\ live[r].pc \notin {"new", "gone"} => process = "running"
  <1>1. live[r] \in LiveType /\ Proceeds(live[r])
    BY DEF IInv, Kinds
  <1> QED
    BY <1>1 DEF Proceeds

\* A request arrives and reads the retention.
LEMMA ArriveInv ==
  ASSUME IInv, deployment' = deployment, NEW r \in Requests, Arrive(r)
  PROVE  IInv'
  <1>1. /\ process = "running" /\ live[r].pc = "new"
        /\ UNCHANGED <<process, starts, records, interrupted, sub>> /\ retention' = retention
        /\ UNCHANGED <<queue, flag, writer, db, unsaved>>
    BY DEF Arrive, writerVars
  <1>2. /\ live \in [Requests -> LiveType] /\ retention \in Retentions
        /\ Retentions \subseteq Nat
    BY Fixed DEF IInv, Kinds
  <1>3. PICK l : l = [live[r] EXCEPT !.pc = "arrived", !.retention = retention]
    OBVIOUS
  <1>4. /\ l = [pc |-> "arrived", version |-> live[r].version, retention |-> retention,
                final |-> live[r].final]
        /\ live' = [live EXCEPT ![r] = l]
    <2>1. live[r] \in LiveType
      BY <1>2
    <2>2. l = [pc |-> "arrived", version |-> live[r].version, retention |-> retention,
               final |-> live[r].final]
      BY <1>3, <2>1 DEF LiveType
    <2> QED
      BY <1>2, <1>3, <2>2 DEF Arrive
  <1>5. live[r] \in LiveType /\ Proceeds(live[r])
    BY LiveAt
  <1>6. l \in LiveType /\ l.version = live[r].version /\ l.final = live[r].final
    BY <1>2, <1>4, <1>5 DEF LiveType, Pcs
  <1>7. Proceeds(l)
    <2>1. Fits(live[r], MaxUpdates) => Fits(l, MaxUpdates)
      BY <1>1, <1>4 DEF Fits
    <2> QED
      BY <1>1, <1>2, <1>4, <1>5, <2>1 DEF Proceeds
  <1>8. \A q \in Requests : live[q].pc \in {"persist", "notify"} => live'[q] = live[q]
    BY <1>1, <1>2, <1>4
  <1>9. LiveStep
    BY <1>1, <1>2, <1>4, <1>6 DEF LiveStep, Settled
  <1>10. Queued'
    BY <1>1, <1>9, QueuedStays DEF IInv
  <1>11. \A s \in Subscribers : Follows(sub[s])'
    BY <1>1, <1>8, NothingAnnounced DEF IInv
  <1>12. \A x : (Done(x) \/ Current(x)) /\ OnItsWay(x) => OnItsWay(x)'
    <2>1. \A x : Safe(x) => Safe(x)'
      BY <1>1, SafeStays
    <2>2. \A x : Done(x) \/ Current(x) => x.id \in Requests
      BY DEF Done, Current
    <2> QED
      BY <1>1, <1>8, <2>1, <2>2 DEF OnItsWay
  <1>13. unsaved' \subseteq Record \cup {Shutdown.record} /\ sub' \in [Subscribers -> StreamType]
    BY <1>1 DEF IInv, Kinds, Stored
  <1> QED
    BY <1>1, <1>4, <1>6, <1>7, <1>10, <1>11, <1>12, <1>13, RequestStep

\* Its handler is dropped before the first write.
LEMMA HandlerDroppedInv ==
  ASSUME IInv, deployment' = deployment, NEW r \in Requests, HandlerDropped(r)
  PROVE  IInv'
  <1>1. /\ live[r].pc \in {"arrived", "live"}
        /\ UNCHANGED <<process, starts, records, interrupted, sub>> /\ retention' = retention
        /\ UNCHANGED <<queue, flag, writer, db, unsaved>>
    BY DEF HandlerDropped, writerVars
  <1>2. live[r] \in LiveType /\ Proceeds(live[r]) /\ live \in [Requests -> LiveType]
    BY LiveAt DEF IInv, Kinds
  <1>3. PICK l : l = [live[r] EXCEPT !.pc = "gone"]
    OBVIOUS
  <1>4. /\ l = [pc |-> "gone", version |-> live[r].version, retention |-> live[r].retention,
                final |-> live[r].final]
        /\ live' = [live EXCEPT ![r] = l]
    BY <1>2, <1>3 DEF HandlerDropped, LiveType
  <1>5. l \in LiveType /\ l.version = live[r].version /\ l.final = live[r].final
    BY <1>2, <1>4 DEF LiveType, Pcs
  <1>6. Proceeds(l)
    <2>1. Fits(live[r], MaxUpdates) => Fits(l, MaxUpdates)
      BY <1>4 DEF Fits
    <2> QED
      BY <1>1, <1>2, <1>4, <2>1 DEF Proceeds
  <1>7. \A q \in Requests : live[q].pc \in {"persist", "notify"} => live'[q] = live[q]
    BY <1>1, <1>2, <1>4
  <1>8. LiveStep
    BY <1>1, <1>2, <1>4, <1>5 DEF LiveStep, Settled
  <1>9. Queued'
    BY <1>1, <1>8, QueuedStays DEF IInv
  <1>10. \A s \in Subscribers : Follows(sub[s])'
    BY <1>1, <1>7, NothingAnnounced DEF IInv
  <1>11. \A x : (Done(x) \/ Current(x)) /\ OnItsWay(x) => OnItsWay(x)'
    <2>1. \A x : Safe(x) => Safe(x)'
      BY <1>1, SafeStays
    <2>2. \A x : Done(x) \/ Current(x) => x.id \in Requests
      BY DEF Done, Current
    <2> QED
      BY <1>1, <1>7, <2>1, <2>2 DEF OnItsWay
  <1>12. unsaved' \subseteq Record \cup {Shutdown.record} /\ sub' \in [Subscribers -> StreamType]
    BY <1>1 DEF IInv, Kinds, Stored
  <1> QED
    BY <1>1, <1>4, <1>5, <1>6, <1>9, <1>10, <1>11, <1>12, RequestStep

\* While a request runs, the deque can only hold what it has written last; once
\* that is final, it is its outcome.
LEMMA WrittenRecord ==
  ASSUME IInv, NEW r \in Requests, live[r].version # 0
  PROVE  /\ written(r) \in Record /\ written(r).id = r
         /\ live[r].pc # "gone" \/ live[r].final =>
              \A x : x.id = r /\ (Done(x) \/ Current(x)) => x = written(r)
         /\ live[r].final => Done(written(r))
  <1>1. live[r] \in LiveType /\ Proceeds(live[r])
    BY LiveAt
  <1>2. MaxUpdates \in Nat
    BY Fixed DEF IInv, Kinds
  <1>3. live[r].version \in Versions
    <2> DEFINE v == live[r].version
    <2>1. v \in Nat /\ v # 0 /\ v <= MaxUpdates + 2
      BY <1>1 DEF LiveType, Proceeds, Fits
    <2> HIDE DEF v
    <2>2. v \in Versions
      BY <1>2, <2>1, SMTT(30) DEF Versions
    <2> QED
      BY <2>2 DEF v
  <1>4. written(r) \in Record /\ written(r).id = r
    BY <1>1, <1>3 DEF written, Record
  <1>5. live[r].final => outcome(r) = written(r)
    BY DEF outcome, written
  <1>6. live[r].final => Done(written(r))
    BY <1>4, <1>5 DEF Done, Settled
  <1>7. ASSUME live[r].pc # "gone" \/ live[r].final,
               NEW x, x.id = r, Done(x) \/ Current(x)
        PROVE  x = written(r)
    BY <1>5, <1>7 DEF Done, Current, Settled
  <1> QED
    BY <1>4, <1>6, <1>7

\* A final record is handed to the writer, or dropped when the queue is full.
LEMMA PersistInv ==
  ASSUME IInv, deployment' = deployment, NEW r \in Requests, Persist(r)
  PROVE  IInv'
  <1>1. /\ live[r].pc = "persist" /\ UNCHANGED <<flag, writer, db>>
        /\ UNCHANGED <<process, starts, records, interrupted, sub>> /\ retention' = retention
    BY DEF Persist, writerVars, writer_record
  <1>2. live[r] \in LiveType /\ Proceeds(live[r]) /\ live \in [Requests -> LiveType]
    BY LiveAt DEF IInv, Kinds
  <1>3. PICK l : l = [live[r] EXCEPT !.pc = "notify"]
    OBVIOUS
  <1>4. /\ l = [pc |-> "notify", version |-> live[r].version, retention |-> live[r].retention,
                final |-> live[r].final]
        /\ live' = [live EXCEPT ![r] = l]
    BY <1>2, <1>3 DEF Persist, LiveType
  <1>5. l \in LiveType /\ l.version = live[r].version /\ l.final = live[r].final
    BY <1>2, <1>4 DEF LiveType, Pcs
  <1>6. Proceeds(l) /\ live[r].final
    <2>1. Fits(live[r], MaxUpdates) => Fits(l, MaxUpdates)
      BY <1>1, <1>4 DEF Fits
    <2> QED
      BY <1>1, <1>2, <1>4, <2>1 DEF Proceeds
  <1>7. \A q \in Requests : live[q].pc \in {"persist", "notify"} =>
                              live'[q].pc \in {"persist", "notify"}
    BY <1>1, <1>2, <1>4
  <1>8. LiveStep
    BY <1>1, <1>2, <1>4, <1>5 DEF LiveStep, Settled
  <1>9. \A s \in Subscribers : Follows(sub[s])'
    BY <1>1, <1>7, NothingAnnounced DEF IInv
  <1>10. PICK x : x = written(r)
    OBVIOUS
  <1>11. /\ x \in Record /\ Done(x) /\ x.id = r
         /\ \A y : y.id = r /\ (Done(y) \/ Current(y)) => y = x
    <2>1. live[r].version # 0
      BY <1>1, <1>2 DEF Proceeds
    <2> QED
      BY <1>6, <1>10, <2>1, WrittenRecord
  <1>12. /\ Queued' /\ unsaved \subseteq unsaved'
         /\ unsaved' \subseteq Record \cup {Shutdown.record}
         /\ \A i \in 1..Len(queue) : i \in 1..Len(queue') /\ queue'[i] = queue[i]
         /\ Persistent => Safe(x)' \/ \E j \in 1..Len(queue') : queue'[j].record = x
    <2>1. CASE Persistent
      <3>1. PICK n \in Limits : n = clamp(live[r].retention)
        BY <1>1, <1>2 DEF Limits, Proceeds
      <3>2. writer_record(x, n)
        BY <1>10, <2>1, <3>1 DEF Persist
      <3> QED
        BY <1>8, <1>11, <3>2, WriterRecord
    <2>2. CASE ~Persistent
      <3>1. UNCHANGED <<queue, flag, writer, db, unsaved>>
        BY <2>2 DEF Persist, writerVars
      <3>2. Queued'
        BY <1>8, <3>1, QueuedStays DEF IInv
      <3> QED
        BY <2>2, <3>1, <3>2 DEF IInv, Stored
    <2> QED
      BY <2>1, <2>2
  <1>13. ASSUME Persistent, NEW y, Done(y) \/ Current(y), OnItsWay(y)
         PROVE  OnItsWay(y)'
    <2>1. Safe(y) => Safe(y)'
      BY <1>1, <1>12, SafeStays
    <2>2. CASE y.id = r
      <3>1. y = x
        BY <1>11, <1>13, <2>2
      <3> QED
        BY <1>12, <1>13, <3>1 DEF OnItsWay
    <2>3. CASE y.id # r
      <3>1. y.id \in Requests
        BY <1>13 DEF Done, Current
      <3>2. live'[y.id] = live[y.id]
        BY <1>2, <1>4, <2>3, <3>1
      <3> QED
        BY <1>1, <1>12, <1>13, <2>1, <3>2 DEF OnItsWay
    <2> QED
      BY <2>2, <2>3
  <1>14. sub' \in [Subscribers -> StreamType]
    BY <1>1 DEF IInv, Kinds
  <1>15. live[r].pc # "gone"
    BY <1>1
  <1> QED
    BY <1>1, <1>4, <1>5, <1>6, <1>9, <1>12, <1>13, <1>14, <1>15, RequestStep

-----------------------------------------------------------------------------
(***************************************************************************)
(* Announcing a record.                                                    *)
(***************************************************************************)
LEMMA StreamFields ==
  ASSUME NEW t \in StreamType
  PROVE  /\ t.state \in {"off", "subscribed", "live"} /\ t.pending \in Seq(Record)
         /\ t.skipped \in Nat /\ t.told \in BOOLEAN /\ t.view \in [Requests -> SUBSET Record]
  BY DEF StreamType

\* A stream with another backlog.
LEMMA Pushed ==
  ASSUME NEW t \in StreamType, NEW p, NEW u, u = [t EXCEPT !.pending = p]
  PROVE  u = [state |-> t.state, pending |-> p, skipped |-> t.skipped, told |-> t.told,
              view |-> t.view]
  BY DEF StreamType

\* A stream that has lost its oldest event.
LEMMA Overtaken ==
  ASSUME NEW t \in StreamType, NEW p, NEW n, NEW u,
         u = [t EXCEPT !.pending = p, !.skipped = n]
  PROVE  u = [state |-> t.state, pending |-> p, skipped |-> n, told |-> t.told,
              view |-> t.view]
  BY DEF StreamType

\* What the broadcast channel does for one stream.
LEMMA Broadcast ==
  ASSUME deployment \in Deployments, NEW t \in StreamType, NEW x \in Record,
         Len(t.pending) <= EventCapacity, t.skipped # 0 => t.pending # <<>>,
         NEW u, u = broadcast(t, x)
  PROVE  /\ u \in StreamType /\ u.state = t.state /\ u.told = t.told /\ u.view = t.view
         /\ Len(u.pending) <= EventCapacity
         /\ u.skipped # 0 => u.pending # <<>>
         /\ t.state = "off" => u = t
         /\ t.state # "off" /\ u.skipped = 0 =>
              t.skipped = 0 /\ u.pending = Append(t.pending, x)
  <1>1. /\ t.state \in {"off", "subscribed", "live"} /\ t.pending \in Seq(Record)
        /\ t.skipped \in Nat /\ t.told \in BOOLEAN /\ t.view \in [Requests -> SUBSET Record]
    BY StreamFields
  <1>2. EventCapacity \in Nat \ {0}
    BY Fixed
  <1>3. CASE t.state = "off"
    BY <1>1, <1>3 DEF broadcast
  <1>4. CASE t.state # "off" /\ Len(t.pending) < EventCapacity
    <2>1. PICK p : p = Append(t.pending, x)
      OBVIOUS
    <2>2. u = [t EXCEPT !.pending = p]
      BY <1>4, <2>1 DEF broadcast
    <2>3. u = [state |-> t.state, pending |-> p, skipped |-> t.skipped, told |-> t.told,
               view |-> t.view]
      BY <2>2, Pushed
    <2>4. p \in Seq(Record) /\ p # <<>> /\ Len(p) <= EventCapacity
      <3> DEFINE q == t.pending
                 R == Record
      <3>1. q \in Seq(R) /\ x \in R /\ p = Append(q, x) /\ Len(q) < EventCapacity
        BY <1>1, <1>4, <2>1
      <3> HIDE DEF q, R
      <3>2. p \in Seq(R) /\ Len(p) = Len(q) + 1 /\ Len(q) \in Nat
        BY <3>1, SMTT(30)
      <3>3. p # <<>> /\ Len(p) <= EventCapacity
        BY <1>2, <3>1, <3>2, SMTT(30)
      <3> QED
        BY <3>2, <3>3 DEF R
    <2>5. u \in StreamType
      BY <1>1, <2>3, <2>4, SMTT(30) DEF StreamType
    <2> QED
      BY <1>4, <2>1, <2>3, <2>4, <2>5, SMTT(30)
  <1>5. CASE t.state # "off" /\ ~(Len(t.pending) < EventCapacity)
    <2>1. PICK p : p = Append(Tail(t.pending), x)
      OBVIOUS
    <2>2. PICK n : n = t.skipped + 1
      OBVIOUS
    <2>3. u = [t EXCEPT !.pending = p, !.skipped = n]
      BY <1>5, <2>1, <2>2 DEF broadcast
    <2>4. u = [state |-> t.state, pending |-> p, skipped |-> n, told |-> t.told,
               view |-> t.view]
      BY <2>3, Overtaken
    <2>5. p \in Seq(Record) /\ p # <<>> /\ Len(p) <= EventCapacity
      <3> DEFINE q == t.pending
                 R == Record
      <3>1. /\ q \in Seq(R) /\ x \in R /\ p = Append(Tail(q), x)
            /\ ~(Len(q) < EventCapacity) /\ Len(q) <= EventCapacity
        BY <1>1, <1>5, <2>1
      <3> HIDE DEF q, R
      <3>2. Len(q) \in Nat /\ Len(q) # 0
        BY <1>2, <3>1, SMTT(30)
      <3>3. q # <<>>
        BY <3>1, <3>2, SeqIsFunction, SeqOfNothing
      <3>4. Tail(q) \in Seq(R) /\ Len(Tail(q)) = Len(q) - 1
        BY <3>1, <3>3, SeqTail
      <3>5. p \in Seq(R) /\ Len(p) = Len(Tail(q)) + 1
        BY <3>1, <3>4, SMTT(30)
      <3>6. Len(p) = Len(q)
        BY <3>2, <3>4, <3>5, SMTT(30)
      <3> QED
        BY <3>1, <3>2, <3>5, <3>6, SeqIsFunction, SeqOfNothing DEF R
    <2>6. n \in Nat /\ n # 0
      <3> DEFINE k == t.skipped
      <3>1. k \in Nat /\ n = k + 1
        BY <1>1, <2>2
      <3> HIDE DEF k
      <3> QED
        BY <3>1, SMTT(30)
    <2>7. u \in StreamType
      BY <1>1, <2>4, <2>5, <2>6, SMTT(30) DEF StreamType
    <2> QED
      BY <1>5, <2>4, <2>5, <2>6, <2>7, SMTT(30)
  <1> QED
    BY <1>3, <1>4, <1>5

\* Appending an event of another request changes nothing for x, one that is x
\* makes it up to date.
LEMMA AppendEvent ==
  ASSUME NEW t, NEW u, NEW e, NEW S, t.pending \in Seq(S), e \in S,
         u.pending = Append(t.pending, e), u.state = t.state, u.view = t.view
  PROVE  /\ UpToDate(u, e)
         /\ \A x : x.id # e.id /\ UpToDate(t, x) => UpToDate(u, x)
  <1> DEFINE p == t.pending
             q == u.pending
  <1>1. p \in Seq(S) /\ q = Append(p, e) /\ e \in S
    OBVIOUS
  <1> HIDE DEF p, q
  <1>2. /\ Len(p) \in Nat /\ Len(q) = Len(p) + 1 /\ q[Len(p) + 1] = e
        /\ \A k \in 1..Len(p) : q[k] = p[k]
    BY <1>1, SMTT(30)
  <1>3. \A k \in 1..Len(q) : k \in 1..Len(p) \/ k = Len(p) + 1
    BY <1>2, SMTT(30)
  <1>4. \A k \in 1..Len(p) : k \in 1..Len(q)
    BY <1>2, SMTT(30)
  <1>5. Len(p) + 1 \in 1..Len(q) /\ \A m \in 1..Len(q) : ~(m > Len(p) + 1)
    BY <1>2, SMTT(30)
  <1>6. UpToDate(u, e)
    BY <1>2, <1>5 DEF UpToDate, q
  <1>7. ASSUME NEW x, x.id # e.id, UpToDate(t, x)
        PROVE  UpToDate(u, x)
    <2>1. CASE \E k \in 1..Len(p) : p[k] = x /\ \A m \in 1..Len(p) : m > k => p[m].id # x.id
      <3>1. PICK k \in 1..Len(p) : p[k] = x /\ \A m \in 1..Len(p) : m > k => p[m].id # x.id
        BY <2>1
      <3>2. k \in 1..Len(q) /\ q[k] = x
        BY <1>2, <1>4, <3>1
      <3>3. \A m \in 1..Len(q) : m > k => q[m].id # x.id
        BY <1>2, <1>3, <1>7, <3>1
      <3> QED
        BY <3>2, <3>3 DEF UpToDate, q
    <2>2. CASE \A k \in 1..Len(p) : p[k].id # x.id
      <3>1. \A k \in 1..Len(q) : q[k].id # x.id
        BY <1>2, <1>3, <1>7, <2>2
      <3>2. t.state = "live" => t.view[x.id] = {x}
        <4>1. ~ \E k \in 1..Len(p) : p[k] = x
          BY <2>2
        <4> QED
          BY <1>7, <4>1 DEF UpToDate, p
      <3> QED
        BY <3>1, <3>2 DEF UpToDate, q
    <2> QED
      BY <1>7, <2>1, <2>2 DEF UpToDate, p
  <1> QED
    BY <1>6, <1>7

\* The record is announced to every stream.
LEMMA NotifyInv ==
  ASSUME IInv, deployment' = deployment, NEW r \in Requests, Notify(r)
  PROVE  IInv'
  <1>1. /\ live[r].pc = "notify" /\ UNCHANGED <<queue, flag, writer, db, unsaved>>
        /\ UNCHANGED <<process, starts, records, interrupted>> /\ retention' = retention
    BY DEF Notify, writerVars
  <1>2. live[r] \in LiveType /\ Proceeds(live[r]) /\ live \in [Requests -> LiveType]
    BY LiveAt DEF IInv, Kinds
  <1>3. PICK l : l = [live[r] EXCEPT !.pc = IF live[r].final THEN "gone" ELSE "live"]
    OBVIOUS
  <1>4. /\ l = [pc |-> IF live[r].final THEN "gone" ELSE "live", version |-> live[r].version,
                retention |-> live[r].retention, final |-> live[r].final]
        /\ live' = [live EXCEPT ![r] = l]
    BY <1>2, <1>3 DEF Notify, LiveType
  <1>5. l \in LiveType /\ l.version = live[r].version /\ l.final = live[r].final
    BY <1>2, <1>4 DEF LiveType, Pcs
  <1>6. Proceeds(l) /\ live[r].version # 0
    <2>1. Fits(live[r], MaxUpdates) => Fits(l, MaxUpdates)
      BY <1>1, <1>4 DEF Fits
    <2> QED
      BY <1>1, <1>2, <1>4, <2>1 DEF Proceeds
  <1>7. \A q \in Requests : q # r => live'[q] = live[q]
    BY <1>2, <1>4
  <1>8. LiveStep
    BY <1>1, <1>2, <1>4, <1>5 DEF LiveStep, Settled
  <1>9. Queued'
    BY <1>1, <1>8, QueuedStays DEF IInv
  <1>10. PICK e : e = written(r)
    OBVIOUS
  <1>11. e \in Record /\ e.id = r /\ \A x : x.id = r /\ (Done(x) \/ Current(x)) => x = e
    BY <1>1, <1>6, <1>10, WrittenRecord
  <1>12. sub' = [s \in Subscribers |-> broadcast(sub[s], e)]
    BY <1>10 DEF Notify
  <1>13. /\ Subscribers' = Subscribers /\ EventCapacity' = EventCapacity
         /\ SnapshotLimit' = SnapshotLimit
    BY SameDeployment
  <1>14. ASSUME NEW s \in Subscribers
         PROVE  sub'[s] \in StreamType /\ Follows(sub[s])'
    <2>1. PICK t : t = sub[s]
      OBVIOUS
    <2>2. PICK u : u = sub'[s]
      OBVIOUS
    <2>3. t \in StreamType /\ Follows(t) /\ u = broadcast(t, e)
      BY <1>12, <2>1, <2>2 DEF IInv, Kinds
    <2>4. /\ u \in StreamType /\ u.state = t.state /\ u.told = t.told /\ u.view = t.view
          /\ Len(u.pending) <= EventCapacity
          /\ u.skipped # 0 => u.pending # <<>>
          /\ t.state = "off" => u = t
          /\ t.state # "off" /\ u.skipped = 0 =>
               t.skipped = 0 /\ u.pending = Append(t.pending, e)
      BY <1>11, <2>3, Broadcast DEF IInv, Kinds, Follows
    <2>5. ASSUME u.state # "off", ~u.told, u.skipped = 0, NEW i \in 1..Len(records), InWindow(i)
          PROVE  live'[records[i].id].pc \in {"persist", "notify"} \/ UpToDate(u, records[i])
      <3>1. PICK x : x = records[i]
        OBVIOUS
      <3>2. x.id \in Requests /\ (Done(x) \/ Current(x))
        BY <3>1, IdsOfDeque DEF IInv, Stored
      <3>3. t.pending \in Seq(Record) /\ t.skipped = 0 /\ u.pending = Append(t.pending, e)
        BY <2>3, <2>4, <2>5, StreamFields
      <3>4. UpToDate(u, e) /\ \A y : y.id # e.id /\ UpToDate(t, y) => UpToDate(u, y)
        BY <1>11, <2>4, <3>3, AppendEvent
      <3>5. CASE x.id = r
        BY <1>11, <3>1, <3>2, <3>4, <3>5
      <3>6. CASE x.id # r
        <4>1. live[x.id].pc \in {"persist", "notify"} \/ UpToDate(t, x)
          BY <2>3, <2>4, <2>5, <3>1, <3>3 DEF Follows
        <4> QED
          BY <1>7, <1>11, <3>1, <3>2, <3>4, <3>6, <4>1
      <3> QED
        BY <3>5, <3>6
    <2>6. \A i : InWindow(i)' <=> InWindow(i)
      BY <1>1, <1>13 DEF InWindow
    <2>7. \A i \in 1..Len(records) : UpToDate(u, records[i]) => UpToDate(sub[s], records[i])'
      BY <1>1, <2>2 DEF UpToDate
    <2>8. Follows(sub[s])'
      BY <1>1, <1>13, <2>2, <2>3, <2>4, <2>5, <2>6, <2>7 DEF Follows
    <2> QED
      BY <2>2, <2>4, <2>8
  <1>15. sub' \in [Subscribers -> StreamType]
    BY <1>12, <1>14
  <1>16. \A x : (Done(x) \/ Current(x)) /\ OnItsWay(x) => OnItsWay(x)'
    <2>1. \A x : Safe(x) => Safe(x)'
      BY <1>1, SafeStays
    <2>2. \A x : Done(x) \/ Current(x) => x.id \in Requests
      BY DEF Done, Current
    <2>3. \A q \in Requests : live[q].pc = "persist" => live'[q].pc = "persist"
      BY <1>1, <1>7
    <2> QED
      BY <1>1, <2>1, <2>2, <2>3 DEF OnItsWay
  <1>17. unsaved' \subseteq Record \cup {Shutdown.record} /\ live[r].pc # "gone"
    BY <1>1 DEF IInv, Stored
  <1>18. \A s \in Subscribers : Follows(sub[s])'
    BY <1>14
  <1> QED
    BY <1>1, <1>4, <1>5, <1>6, <1>9, <1>15, <1>16, <1>17, <1>18, RequestStep

-----------------------------------------------------------------------------
(***************************************************************************)
(* Writing a record to the deque.                                          *)
(***************************************************************************)
\* One record of each request.
Distinct(deque) == \A i, j \in 1..Len(deque) : deque[i].id = deque[j].id => i = j

\* The record is in the deque; all others were in it, at most as far from its end.
LEMMA Upsert ==
  ASSUME NEW S, NEW deque \in Seq(S), Distinct(deque), NEW x \in S, NEW n \in Nat \ {0},
         NEW out, out = upsert_with_fifo_eviction(deque, x, n)
  PROVE  /\ out \in Seq(S) /\ Distinct(out) /\ Len(out) \in Nat /\ Len(deque) \in Nat
         /\ Len(out) <= Len(deque) \/ Len(out) <= n
         /\ \A i \in 1..Len(out) :
              \/ out[i] = x
              \/ /\ out[i].id # x.id
                 /\ \E j \in 1..Len(deque) :
                      out[i] = deque[j] /\ j + Len(out) >= i + Len(deque)
  <1>1. /\ Len(deque) \in Nat /\ DOMAIN deque = 1..Len(deque)
        /\ \A i \in 1..Len(deque) : deque[i] \in S
    BY SMTT(30)
  <1>2. CASE \E i \in 1..Len(deque) : deque[i].id = x.id
    <2>1. out = [i \in 1..Len(deque) |-> IF deque[i].id = x.id THEN x ELSE deque[i]]
      BY <1>1, <1>2 DEF upsert_with_fifo_eviction
    <2>2. out \in [1..Len(deque) -> S]
      BY <1>1, <2>1
    <2>3. out \in Seq(S) /\ Len(out) = Len(deque)
      BY <1>1, <2>2, SMTT(30)
    <2>4. \A i \in 1..Len(deque) : out[i].id = deque[i].id
      BY <2>1
    <2>5. Distinct(out)
      BY <2>3, <2>4 DEF Distinct
    <2>6. \A i \in 1..Len(deque) : i + Len(deque) >= i + Len(deque)
      BY <1>1, SMTT(30)
    <2>7. \A i \in 1..Len(deque) : out[i] = x \/ (out[i].id # x.id /\ out[i] = deque[i])
      <3>1. \A i \in 1..Len(deque) :
              IF deque[i].id = x.id THEN out[i] = x ELSE out[i] = deque[i]
        BY <2>1
      <3> QED
        BY <3>1
    <2> QED
      BY <1>1, <2>3, <2>5, <2>6, <2>7, SMTT(30)
  <1>3. CASE /\ \A i \in 1..Len(deque) : deque[i].id # x.id
             /\ Len(deque) >= n
    <2> DEFINE rest == Tail(deque)
    <2>1. deque # <<>>
      <3>1. Len(deque) # 0
        BY <1>1, <1>3, SMTT(30)
      <3> QED
        BY <3>1, SeqIsFunction, SeqOfNothing
    <2>2. /\ rest \in Seq(S) /\ Len(rest) = Len(deque) - 1
          /\ \A i \in 1..Len(rest) : rest[i] = deque[i + 1]
      BY <2>1, SeqTail
    <2>3. out = Append(rest, x)
      BY <1>1, <1>3 DEF upsert_with_fifo_eviction
    <2> HIDE DEF rest
    <2>4. /\ out \in Seq(S) /\ Len(out) = Len(rest) + 1 /\ out[Len(rest) + 1] = x
          /\ Len(rest) \in Nat /\ \A i \in 1..Len(rest) : out[i] = rest[i]
      BY <2>2, <2>3, SMTT(30)
    <2>5. Len(out) = Len(deque)
      BY <1>1, <2>2, <2>4, SMTT(30)
    <2>6. ASSUME NEW i \in 1..Len(out), i # Len(out)
          PROVE  i + 1 \in 1..Len(deque) /\ out[i] = deque[i + 1] /\ i \in 1..Len(rest)
      <3>1. i \in 1..Len(rest) /\ i + 1 \in 1..Len(deque)
        <4> DEFINE c == Len(deque)
                   k == Len(rest)
        <4>1. i \in 1..c /\ i # c /\ c \in Nat /\ k = c - 1
          BY <1>1, <2>2, <2>5, <2>6
        <4> HIDE DEF c, k
        <4>2. i \in 1..k /\ i + 1 \in 1..c
          BY <4>1, SMTT(30)
        <4> QED
          BY <4>2 DEF c, k
      <3> QED
        BY <2>2, <2>4, <3>1
    <2>7. out[Len(out)] = x /\ Len(out) \in 1..Len(out)
      BY <2>4, SMTT(30)
    <2>8. \A i \in 1..Len(out) : (i + 1) + Len(out) >= i + Len(deque)
      BY <1>1, <2>5, SMTT(30)
    <2>9. Distinct(out)
      <3> SUFFICES ASSUME NEW i \in 1..Len(out), NEW j \in 1..Len(out), out[i].id = out[j].id
                   PROVE  i = j
        BY DEF Distinct
      <3>1. CASE i # Len(out) /\ j # Len(out)
        <4>1. i + 1 = j + 1
          BY <2>6, <3>1, SMTT(30) DEF Distinct
        <4> QED
          BY <4>1, SMTT(30)
      <3>2. CASE i = Len(out) \/ j = Len(out)
        BY <1>3, <2>6, <2>7, <3>2
      <3> QED
        BY <3>1, <3>2
    <2>10. ASSUME NEW i \in 1..Len(out)
           PROVE  \/ out[i] = x
                  \/ /\ out[i].id # x.id
                     /\ \E j \in 1..Len(deque) :
                          out[i] = deque[j] /\ j + Len(out) >= i + Len(deque)
      <3>1. CASE i = Len(out)
        BY <2>7, <3>1
      <3>2. CASE i # Len(out)
        <4>1. i + 1 \in 1..Len(deque) /\ out[i] = deque[i + 1]
          BY <2>6, <3>2
        <4>2. out[i].id # x.id
          BY <1>3, <4>1
        <4>3. (i + 1) + Len(out) >= i + Len(deque)
          BY <2>8
        <4> QED
          BY <4>1, <4>2, <4>3
      <3> QED
        BY <3>1, <3>2
    <2>11. Len(out) <= Len(deque)
      BY <1>1, <2>5, SMTT(30)
    <2> QED
      BY <1>1, <2>4, <2>5, <2>9, <2>10, <2>11
  <1>4. CASE /\ \A i \in 1..Len(deque) : deque[i].id # x.id
             /\ ~(Len(deque) >= n)
    <2>1. out = Append(deque, x)
      BY <1>1, <1>4 DEF upsert_with_fifo_eviction
    <2>2. /\ out \in Seq(S) /\ Len(out) = Len(deque) + 1 /\ out[Len(deque) + 1] = x
          /\ \A i \in 1..Len(deque) : out[i] = deque[i]
      BY <2>1, SMTT(30)
    <2>3. \A i \in 1..Len(out) : i = Len(deque) + 1 \/ i \in 1..Len(deque)
      BY <1>1, <2>2, SMTT(30)
    <2>4. \A i \in 1..Len(deque) : i + Len(out) >= i + Len(deque)
      BY <1>1, <2>2, SMTT(30)
    <2>5. Distinct(out)
      BY <1>4, <2>2, <2>3, SMTT(30) DEF Distinct
    <2>6. Len(out) <= n /\ Len(out) \in Nat
      BY <1>1, <1>4, <2>2, SMTT(30)
    <2>7. ASSUME NEW i \in 1..Len(out)
          PROVE  \/ out[i] = x
                 \/ /\ out[i].id # x.id
                    /\ \E j \in 1..Len(deque) :
                         out[i] = deque[j] /\ j + Len(out) >= i + Len(deque)
      BY <1>4, <2>2, <2>3, <2>4
    <2> QED
      BY <1>1, <2>2, <2>5, <2>6, <2>7
  <1> QED
    BY <1>2, <1>3, <1>4

\* A record is written to the deque, which may evict the oldest one.
LEMMA StoreInv ==
  ASSUME IInv, deployment' = deployment, NEW r \in Requests, NEW final \in BOOLEAN,
         live[r].pc \in {"arrived", "live"}, ~final => live[r].version <= MaxUpdates,
         store(r, final)
  PROVE  IInv'
  <1>1. /\ UNCHANGED <<process, starts, interrupted, sub>> /\ retention' = retention
        /\ UNCHANGED <<queue, flag, writer, db, unsaved>>
    BY DEF store, writerVars
  <1>2. /\ live[r] \in LiveType /\ Proceeds(live[r]) /\ live \in [Requests -> LiveType]
        /\ process = "running"
    BY LiveAt DEF IInv, Kinds
  <1>3. /\ Requests' = Requests /\ Retentions' = Retentions /\ MaxStarts' = MaxStarts
        /\ Subscribers' = Subscribers /\ StreamType' = StreamType /\ Record' = Record
        /\ MaxUpdates' = MaxUpdates /\ EventCapacity' = EventCapacity
        /\ SnapshotLimit' = SnapshotLimit
        /\ Persistent' = Persistent /\ \A n : clamp(n)' = clamp(n)
    BY SameDeployment
  <1>4. PICK l : l = [pc |-> IF final THEN "persist" ELSE "notify",
                      version |-> live[r].version + 1,
                      retention |-> live[r].retention, final |-> final]
    OBVIOUS
  <1>5. live' = [live EXCEPT ![r] = l]
    BY <1>2, <1>4 DEF store
  <1>6. l \in LiveType /\ l.version # 0 /\ Fits(l, MaxUpdates)
    <2> DEFINE v == live[r].version
               w == l.version
    <2>1. /\ v \in Nat /\ w = v + 1 /\ v <= MaxUpdates + 1 /\ (~final => v <= MaxUpdates)
          /\ MaxUpdates \in Nat
      BY <1>2, <1>4, Fixed DEF LiveType, Proceeds, Fits, IInv, Kinds
    <2> HIDE DEF v, w
    <2>2. w \in Nat /\ w # 0 /\ w <= MaxUpdates + 2 /\ (~final => w <= MaxUpdates + 1)
      BY <2>1, SMTT(30)
    <2> QED
      BY <1>2, <1>4, <2>2 DEF LiveType, Pcs, Fits, w
  <1>7. Proceeds(l)
    BY <1>2, <1>4, <1>6 DEF Proceeds
  <1>8. /\ live' \in [Requests -> LiveType] /\ live'[r] = l
        /\ \A q \in Requests : q # r => live'[q] = live[q]
    BY <1>2, <1>5, <1>6
  <1>9. Kinds'
    BY <1>1, <1>3, <1>8 DEF IInv, Kinds
  <1>10. \A q \in Requests : Proceeds(live[q])'
    <2>1. \A q \in Requests : Proceeds(live'[q])
      BY <1>7, <1>8 DEF IInv
    <2> QED
      BY <1>1, <1>3, <2>1 DEF Proceeds
  <1>11. LiveStep
    BY <1>2, <1>8 DEF LiveStep, Settled, Proceeds
  <1>12. PICK x : x = written(r)'
    OBVIOUS
  <1>13. x \in Record /\ x.id = r /\ Current(x)' /\ (~final => x.outcome = "in_flight")
    <2>1. l.version \in Versions
      <3> DEFINE w == l.version
      <3>1. w \in Nat /\ w # 0 /\ w <= MaxUpdates + 2 /\ MaxUpdates \in Nat
        BY <1>6, Fixed DEF LiveType, Fits, IInv, Kinds
      <3> HIDE DEF w
      <3>2. w \in Versions
        BY <3>1, SMTT(30) DEF Versions
      <3> QED
        BY <3>2 DEF w
    <2>2. x = [id |-> r, version |-> l.version,
               outcome |-> IF l.final THEN "final" ELSE "in_flight"]
      BY <1>8, <1>12 DEF written
    <2>3. x \in Record /\ x.id = r
      BY <2>1, <2>2 DEF Record
    <2>4. ~final => x.outcome = "in_flight"
      BY <1>4, <2>2
    <2>5. Current(x)'
      BY <1>3, <1>6, <1>8, <1>12, <2>3 DEF Current
    <2> QED
      BY <2>3, <2>4, <2>5
  <1>14. PICK n : n = clamp(live[r].retention)
    OBVIOUS
  <1>15. n \in Nat \ {0} /\ live[r].retention \in Retentions
    <2>1. live[r].retention \in Retentions
      BY <1>2 DEF Proceeds
    <2>2. clamp(live[r].retention) \in 1..MaxRetention /\ MaxRetention \in Nat
      BY <2>1, Clamped, Fixed DEF IInv, Kinds
    <2> QED
      BY <1>14, <2>1, <2>2, SMTT(30)
  <1>16. records \in Seq(Record) /\ Distinct(records)
    BY DEF IInv, Stored, Distinct
  <1>17. records' = upsert_with_fifo_eviction(records, x, n)
    BY <1>12, <1>14 DEF store
  <1>18. /\ records' \in Seq(Record) /\ Distinct(records')
         /\ Len(records') \in Nat /\ Len(records) \in Nat
         /\ Len(records') <= Len(records) \/ Len(records') <= n
         /\ \A i \in 1..Len(records') :
              \/ records'[i] = x
              \/ /\ records'[i].id # x.id
                 /\ \E j \in 1..Len(records) :
                      records'[i] = records[j] /\ j + Len(records') >= i + Len(records)
    BY <1>13, <1>15, <1>16, <1>17, Upsert, SMTT(30)
  <1>19. Queued'
    BY <1>1, <1>11, QueuedStays DEF IInv
  <1>20. Stored'
    <2>1. Shutdown' = Shutdown
      BY DEF Shutdown
    <2>2. \A y : Done(y) => Done(y)'
      BY <1>11, DoneStays
    <2>3. \A y : y.id # r /\ Current(y) => Current(y)'
      BY <1>3, <1>8 DEF Current, written
    <2>4. \A i \in 1..Len(records') : Done(records[i])' \/ Current(records[i])'
      <3> SUFFICES ASSUME NEW i \in 1..Len(records')
                   PROVE  Done(records[i])' \/ Current(records[i])'
        OBVIOUS
      <3>1. PICK y : y = records'[i]
        OBVIOUS
      <3>2. y = x \/ (y.id # r /\ \E j \in 1..Len(records) : y = records[j])
        BY <1>13, <1>18, <3>1
      <3>3. Done(y)' \/ Current(y)'
        BY <1>13, <2>2, <2>3, <3>2 DEF IInv, Stored
      <3> QED
        BY <3>1, <3>3
    <2>5. \E k \in Retentions : Len(records') <= clamp(k)
      <3>1. PICK k \in Retentions : Len(records) <= clamp(k)
        BY DEF IInv, Stored
      <3>2. clamp(k) \in Nat
        BY <3>1, Clamped, Fixed, SMTT(30) DEF IInv, Kinds
      <3>3. CASE Len(records') <= Len(records)
        <4>1. Len(records') <= clamp(k)
          BY <1>18, <3>1, <3>2, <3>3, SMTT(30)
        <4> QED
          BY <4>1
      <3> QED
        BY <1>14, <1>15, <1>18, <3>3
    <2>6. Distinct(records)' <=> Distinct(records')
      BY DEF Distinct
    <2> QED
      BY <1>1, <1>3, <1>18, <2>1, <2>2, <2>4, <2>5, <2>6 DEF IInv, Stored, Distinct
  <1>21. Drained'
    <2>1. ASSUME Persistent, NEW i \in 1..Len(records')
          PROVE  OnItsWay(records[i])'
      <3>1. PICK y : y = records'[i]
        OBVIOUS
      <3>2. CASE y = x
        <4>1. ~final => y.outcome = "in_flight" /\ process' = "running"
          BY <1>1, <1>2, <1>13, <3>2
        <4>2. final => live'[y.id].pc = "persist"
          BY <1>4, <1>8, <1>13, <3>2, SMTT(30)
        <4> QED
          BY <3>1, <4>1, <4>2 DEF OnItsWay
      <3>3. CASE y # x
        <4>1. PICK j \in 1..Len(records) : y = records[j] /\ y.id # r
          BY <1>13, <1>18, <3>1, <3>3
        <4>2. OnItsWay(y) /\ y.id \in Requests
          BY <2>1, <4>1, IdsOfDeque DEF IInv, Drained
        <4>3. live'[y.id] = live[y.id]
          BY <1>8, <4>1, <4>2
        <4>4. Safe(y) => Safe(y)'
          BY <1>1, SafeStays
        <4>5. OnItsWay(y)'
          BY <1>1, <4>2, <4>3, <4>4 DEF OnItsWay
        <4> QED
          BY <3>1, <4>5
      <3> QED
        BY <3>2, <3>3
    <2> QED
      BY <1>1, <1>2, <1>3, <2>1 DEF IInv, Drained
  <1>22. ASSUME NEW s \in Subscribers
         PROVE  Follows(sub[s])'
    <2>1. PICK t : t = sub[s]
      OBVIOUS
    <2>2. Follows(t) /\ sub'[s] = t
      BY <1>1, <2>1 DEF IInv
    <2>3. ASSUME t.state # "off", ~t.told, t.skipped = 0,
                 NEW i \in 1..Len(records'), InWindow(i)'
          PROVE  live'[records'[i].id].pc \in {"persist", "notify"} \/ UpToDate(t, records'[i])
      <3>1. PICK y : y = records'[i]
        OBVIOUS
      <3>2. CASE y = x
        BY <1>4, <1>8, <1>13, <3>1, <3>2, SMTT(30)
      <3>3. CASE y # x
        <4>1. PICK j \in 1..Len(records) :
                y = records[j] /\ y.id # r /\ j + Len(records') >= i + Len(records)
          BY <1>13, <1>18, <3>1, <3>3
        <4>2. y.id \in Requests /\ live'[y.id] = live[y.id]
          BY <1>8, <4>1, IdsOfDeque DEF IInv
        <4>3. InWindow(j)
          <5>1. i + SnapshotLimit > Len(records')
            BY <1>3, <2>3 DEF InWindow
          <5>2. SnapshotLimit \in Nat
            BY Fixed DEF IInv, Kinds
          <5>3. j + SnapshotLimit > Len(records)
            BY <1>18, <4>1, <5>1, <5>2, SMTT(30)
          <5> QED
            BY <5>3 DEF InWindow
        <4>4. live[y.id].pc \in {"persist", "notify"} \/ UpToDate(t, y)
          BY <2>2, <2>3, <4>1, <4>3 DEF Follows
        <4> QED
          BY <3>1, <4>2, <4>4
      <3> QED
        BY <3>2, <3>3
    <2>4. \A i \in 1..Len(records') : UpToDate(t, records'[i]) => UpToDate(sub[s], records[i])'
      BY <2>2 DEF UpToDate
    <2> QED
      BY <1>1, <1>3, <2>2, <2>3, <2>4 DEF Follows
  <1> QED
    BY <1>3, <1>9, <1>10, <1>19, <1>20, <1>21, <1>22 DEF IInv

\* Every step of a request.
LEMMA RequestInv ==
  ASSUME IInv, deployment' = deployment, NEW r \in Requests, Request(r)
  PROVE  IInv'
  <1>1. live[r] \in LiveType /\ Proceeds(live[r]) /\ MaxUpdates \in Nat
    BY LiveAt, Fixed DEF IInv, Kinds
  <1>2. CASE Arrive(r)
    BY <1>2, ArriveInv
  <1>3. CASE Publish(r)
    <2>1. PICK final \in BOOLEAN : store(r, final)
      BY <1>3 DEF Publish
    <2>2. live[r].pc = "arrived" /\ live[r].version = 0
      BY <1>1, <1>3 DEF Publish, Proceeds
    <2>3. live[r].version <= MaxUpdates
      BY <1>1, <2>2, SMTT(30)
    <2> QED
      BY <2>1, <2>2, <2>3, StoreInv
  <1>4. CASE Update(r)
    <2>1. PICK final \in BOOLEAN : final = FALSE
      OBVIOUS
    <2> QED
      BY <1>4, <2>1, StoreInv DEF Update
  <1>5. CASE Finalize(r)
    <2>1. PICK final \in BOOLEAN : final = TRUE
      OBVIOUS
    <2> QED
      BY <1>5, <2>1, StoreInv DEF Finalize
  <1>6. CASE Persist(r)
    BY <1>6, PersistInv
  <1>7. CASE Notify(r)
    BY <1>7, NotifyInv
  <1>8. CASE HandlerDropped(r)
    BY <1>8, HandlerDroppedInv
  <1> QED
    BY <1>2, <1>3, <1>4, <1>5, <1>6, <1>7, <1>8 DEF Request

-----------------------------------------------------------------------------
(***************************************************************************)
(* The end and the start of a process.                                     *)
(***************************************************************************)
LEMMA TasksDropped ==
  ASSUME IInv, deployment' = deployment, tasks_dropped, process' # "running"
  PROVE  /\ live' \in [Requests -> LiveType] /\ LiveStep
         /\ \A r \in Requests : Proceeds(live[r])'
         /\ \A r \in Requests : /\ live'[r].version = live[r].version
                                /\ live'[r].final = live[r].final
                                /\ live[r].version # 0 => live'[r].pc = "gone"
         /\ \A x : Current(x) => Current(x)'
         /\ sub' \in [Subscribers -> StreamType]
         /\ \A s \in Subscribers : Follows(sub[s])'
  <1>1. /\ Requests' = Requests /\ Retentions' = Retentions /\ MaxUpdates' = MaxUpdates
    BY SameDeployment
  <1>2. ASSUME NEW r \in Requests
        PROVE  /\ live'[r] \in LiveType /\ Proceeds(live[r])'
               /\ live'[r].version = live[r].version /\ live'[r].final = live[r].final
               /\ live[r].version # 0 => live'[r].pc = "gone"
               /\ live[r].pc = "gone" => live'[r].pc = "gone"
    <2>1. live[r] \in LiveType /\ Proceeds(live[r])
      BY LiveAt
    <2>2. CASE live[r].pc = "new"
      <3>1. live'[r] = live[r]
        BY <2>2 DEF tasks_dropped
      <3> QED
        BY <1>1, <2>1, <2>2, <3>1 DEF Proceeds
    <2>3. CASE live[r].pc # "new"
      <3>1. live'[r] = [live[r] EXCEPT !.pc = "gone"]
        BY <2>3 DEF tasks_dropped
      <3>2. live'[r] = [pc |-> "gone", version |-> live[r].version,
                        retention |-> live[r].retention, final |-> live[r].final]
        BY <2>1, <3>1 DEF LiveType
      <3>3. PICK l : l = live'[r]
        OBVIOUS
      <3>4. Fits(live[r], MaxUpdates) => Fits(l, MaxUpdates)
        BY <3>2, <3>3, SMTT(30) DEF Fits
      <3>5. Proceeds(live[r])'
        BY <1>1, <2>1, <2>3, <3>2, <3>3, <3>4, SMTT(30) DEF Proceeds
      <3>6. live'[r] \in LiveType
        BY <2>1, <3>2, SMTT(30) DEF LiveType, Pcs
      <3> QED
        BY <3>2, <3>5, <3>6, SMTT(30)
    <2> QED
      BY <2>2, <2>3
  <1>3. live' \in [Requests -> LiveType]
    <2>1. live' = [r \in Requests |-> live'[r]]
      BY DEF tasks_dropped
    <2> QED
      BY <1>2, <2>1
  <1>4. LiveStep
    BY <1>2 DEF LiveStep, Settled
  <1>5. \A x : Current(x) => Current(x)'
    BY <1>1, <1>2 DEF Current, written
  <1>6. NoStream \in StreamType
    BY SMTT(30) DEF NoStream, StreamType
  <1>7. sub' \in [Subscribers -> StreamType]
    BY <1>6 DEF tasks_dropped
  <1>8. \A s \in Subscribers : Follows(sub[s])'
    <2>1. \A s \in Subscribers : sub'[s] = NoStream
      BY DEF tasks_dropped
    <2>2. NoStream.state = "off" /\ NoStream.pending = <<>> /\ NoStream.skipped = 0
      BY DEF NoStream
    <2>3. sub \in [Subscribers -> StreamType] /\ deployment \in Deployments
      BY DEF IInv, Kinds
    <2> QED
      BY <2>1, <2>2, <2>3, NoStreams
  <1> QED
    BY <1>2, <1>3, <1>4, <1>5, <1>7, <1>8

\* The process is killed.
LEMMA CrashInv ==
  ASSUME IInv, deployment' = deployment, Crash
  PROVE  IInv'
  <1>1. /\ process' = "killed" /\ tasks_dropped /\ records' = <<>> /\ interrupted' = <<>>
        /\ queue' = <<>> /\ writer' = "exited"
        /\ UNCHANGED <<starts, retention, flag, db, unsaved>>
    BY DEF Crash
  <1>2. /\ live' \in [Requests -> LiveType] /\ LiveStep
        /\ \A r \in Requests : Proceeds(live[r])'
        /\ sub' \in [Subscribers -> StreamType]
        /\ \A s \in Subscribers : Follows(sub[s])'
    BY <1>1, TasksDropped
  <1>3. /\ Requests' = Requests /\ Retentions' = Retentions /\ MaxStarts' = MaxStarts
        /\ Subscribers' = Subscribers /\ StreamType' = StreamType /\ Record' = Record
        /\ QueueCapacity' = QueueCapacity /\ \A n : clamp(n)' = clamp(n)
    BY SameDeployment
  <1>4. Kinds'
    BY <1>1, <1>2, <1>3 DEF IInv, Kinds
  <1>5. Stored'
    <2>1. Shutdown' = Shutdown
      BY DEF Shutdown
    <2>2. \A y : Done(y) => Done(y)'
      BY <1>2, DoneStays
    <2>3. \E n \in Retentions : 0 <= clamp(n)
      <3>1. PICK n \in Retentions : TRUE
        BY Fixed DEF IInv, Kinds
      <3>2. clamp(n) \in 1..MaxRetention
        BY Clamped DEF IInv, Kinds
      <3>3. 0 <= clamp(n)
        BY <3>2, Fixed, SMTT(30) DEF IInv, Kinds
      <3> QED
        BY <3>3
    <2> QED
      BY <1>1, <1>3, <2>1, <2>2, <2>3, SMTT(30) DEF IInv, Stored
  <1>6. Queued'
    <2>1. QueueCapacity \in Nat
      BY Fixed DEF IInv, Kinds
    <2> QED
      BY <1>1, <1>3, <2>1, SMTT(30) DEF Queued
  <1>7. Drained'
    BY <1>1, SMTT(30) DEF Drained
  <1> QED
    BY <1>2, <1>3, <1>4, <1>5, <1>6, <1>7 DEF IInv

\* Once the tasks are gone, a record that is marked as interrupted if it is in
\* flight is an outcome.
LEMMA Marked ==
  ASSUME IInv, deployment' = deployment, tasks_dropped, process' # "running",
         NEW x \in Record, Done(x) \/ Current(x), NEW y, y = mark_record_interrupted(x)
  PROVE  /\ y \in Record /\ y.id = x.id /\ Done(y)'
         /\ y.outcome # "interrupted" => y = x /\ x.outcome # "in_flight"
  <1>1. /\ LiveStep
        /\ \A r \in Requests : /\ live'[r].version = live[r].version
                               /\ live'[r].final = live[r].final
                               /\ live[r].version # 0 => live'[r].pc = "gone"
    BY TasksDropped
  <1>2. Requests' = Requests
    BY SameDeployment
  <1>3. CASE x.outcome = "in_flight"
    <2>1. y = [id |-> x.id, version |-> x.version, outcome |-> "interrupted"]
      BY <1>3 DEF mark_record_interrupted, Record
    <2>2. Current(x)
      BY <1>3, DoneIsOutcome
    <2>3. /\ x.id \in Requests /\ live[x.id].version # 0 /\ ~live[x.id].final
          /\ x.version = live[x.id].version
      BY <1>3, <2>2, SMTT(30) DEF Current, written
    <2>4. y \in Record /\ y.id = x.id
      BY <2>1, SMTT(30) DEF Record
    <2>5. PICK r \in Requests : r = x.id
      BY <2>3
    <2>6. /\ live'[r].version = live[r].version /\ ~live'[r].final
          /\ live'[r].pc = "gone" /\ live'[r].version # 0
      BY <1>1, <2>3, <2>5
    <2>7. y = outcome(r)' /\ y.id = r
      BY <2>1, <2>3, <2>5, <2>6, SMTT(30) DEF outcome
    <2>8. Done(y)'
      BY <1>2, <2>6, <2>7 DEF Done, Settled
    <2> QED
      BY <2>1, <2>4, <2>8, SMTT(30)
  <1>4. CASE x.outcome # "in_flight"
    <2>1. y = x
      BY <1>4 DEF mark_record_interrupted
    <2>2. Done(x)
      BY <1>4, SMTT(30) DEF Current, Done, written, outcome, Settled
    <2>3. Done(x)'
      BY <1>1, <2>2, DoneStays
    <2> QED
      BY <1>4, <2>1, <2>3
  <1> QED
    BY <1>3, <1>4

\* The store is dropped: what is in flight becomes interrupted.
LEMMA DropStoreInv ==
  ASSUME IInv, deployment' = deployment, DropStore
  PROVE  IInv'
  <1>1. /\ process = "running" /\ process' \in {"dropping", "stopped"} /\ tasks_dropped
        /\ UNCHANGED <<starts, retention>> /\ UNCHANGED <<queue, flag, writer, db, unsaved>>
    BY DEF DropStore, writerVars
  <1>2. /\ live' \in [Requests -> LiveType] /\ LiveStep
        /\ \A r \in Requests : Proceeds(live[r])'
        /\ \A x : Current(x) => Current(x)'
        /\ sub' \in [Subscribers -> StreamType]
        /\ \A s \in Subscribers : Follows(sub[s])'
    BY <1>1, TasksDropped
  <1>3. /\ Requests' = Requests /\ Retentions' = Retentions /\ MaxStarts' = MaxStarts
        /\ Subscribers' = Subscribers /\ StreamType' = StreamType /\ Record' = Record
        /\ Persistent' = Persistent /\ \A n : clamp(n)' = clamp(n)
    BY SameDeployment
  <1>4. Kinds'
    BY <1>1, <1>2, <1>3 DEF IInv, Kinds
  <1>5. Queued'
    BY <1>1, <1>2, QueuedStays DEF IInv
  <1>6. CASE ~Persistent
    <2>1. UNCHANGED <<records, interrupted>>
      BY <1>6 DEF DropStore
    <2>2. Stored'
      BY <1>1, <1>2, <2>1, StoredStays DEF IInv
    <2>3. Drained'
      BY <1>3, <1>6 DEF Drained
    <2> QED
      BY <1>2, <1>3, <1>4, <1>5, <2>2, <2>3 DEF IInv
  <1>7. CASE Persistent
    <2> DEFINE S == {x \in Range(records') : x.outcome = "interrupted"}
    <2>1. /\ process' = "dropping"
          /\ records' = [i \in DOMAIN records |-> mark_record_interrupted(records[i])]
          /\ interrupted' = Keep(records', S)
      BY <1>7 DEF DropStore
    <2>2. /\ records \in Seq(Record) /\ Len(records) \in Nat
          /\ DOMAIN records = 1..Len(records)
          /\ \A i \in 1..Len(records) : /\ records[i] \in Record
                                        /\ Done(records[i]) \/ Current(records[i])
      BY SMTT(30) DEF IInv, Stored
    <2>3. ASSUME NEW i \in 1..Len(records)
          PROVE  /\ records'[i] \in Record /\ records'[i].id = records[i].id
                 /\ Done(records[i])'
                 /\ records'[i].outcome # "interrupted" =>
                      records'[i] = records[i] /\ records[i].outcome # "in_flight"
      <3>1. PICK x \in Record : x = records[i]
        BY <2>2
      <3>2. PICK y : y = records'[i]
        OBVIOUS
      <3>3. y = mark_record_interrupted(x) /\ (Done(x) \/ Current(x))
        BY <2>1, <2>2, <3>1, <3>2
      <3>4. /\ y \in Record /\ y.id = x.id /\ Done(y)'
            /\ y.outcome # "interrupted" => y = x /\ x.outcome # "in_flight"
        BY <1>1, <3>3, Marked
      <3> QED
        BY <3>1, <3>2, <3>4
    <2>4. records' \in Seq(Record) /\ Len(records') = Len(records)
      <3>1. records' \in [1..Len(records) -> Record]
        BY <2>1, <2>2, <2>3
      <3> QED
        BY <2>2, <3>1, SMTT(30)
    <2>5. \A j \in 1..Len(records') : records'[j].outcome = "interrupted" => records'[j] \in S
      <3>1. \A j \in 1..Len(records') : records'[j] \in Range(records')
        BY <2>4, SMTT(30) DEF Range
      <3> QED
        BY <3>1
    <2> HIDE DEF S
    <2>6. /\ interrupted' \in Seq(Record)
          /\ \A i \in 1..Len(interrupted') :
               \E j \in 1..Len(records') : records'[j] = interrupted'[i]
          /\ \A j \in 1..Len(records') :
               records'[j] \in S => \E i \in 1..Len(interrupted') : interrupted'[i] = records'[j]
      <3>1. PICK recs : recs = records'
        OBVIOUS
      <3>2. PICK M : M = S
        OBVIOUS
      <3>3. PICK R : R = Record
        OBVIOUS
      <3>4. recs \in Seq(R) /\ interrupted' = Keep(recs, M)
        BY <2>1, <2>4, <3>1, <3>2, <3>3
      <3>5. /\ interrupted' \in Seq(R)
            /\ \A i \in 1..Len(interrupted') : \E j \in 1..Len(recs) : recs[j] = interrupted'[i]
            /\ \A j \in 1..Len(recs) :
                 recs[j] \in M => \E i \in 1..Len(interrupted') : interrupted'[i] = recs[j]
        <4>1. SameElements(interrupted', recs, M)
          BY <3>4, KeepElements
        <4> QED
          BY <3>4, <4>1, KeepElements DEF SameElements
      <3> QED
        BY <3>1, <3>2, <3>3, <3>5
    <2>7. \A x : Done(x) => Done(x)'
      BY <1>2, DoneStays
    <2>8. \A i \in 1..Len(records') : Done(records[i])'
      BY <2>3, <2>4
    <2>9. \A i \in 1..Len(interrupted') : Done(interrupted[i])'
      <3> SUFFICES ASSUME NEW i \in 1..Len(interrupted')
                   PROVE  Done(interrupted[i])'
        OBVIOUS
      <3>1. PICK y : y = interrupted'[i]
        OBVIOUS
      <3>2. PICK j \in 1..Len(records') : records'[j] = y
        BY <2>6, <3>1
      <3>3. Done(records[j])'
        BY <2>8
      <3>4. Done(y)'
        BY <3>2, <3>3
      <3> QED
        BY <3>1, <3>4
    <2>10. Stored'
      <3>1. Shutdown' = Shutdown
        BY DEF Shutdown
      <3>2. \A i, j \in 1..Len(records') : records'[i].id = records'[j].id => i = j
        BY <2>3, <2>4 DEF IInv, Stored
      <3> QED
        BY <1>1, <1>3, <2>4, <2>6, <2>7, <2>8, <2>9, <3>1, <3>2 DEF IInv, Stored
    <2>11. ASSUME NEW i \in 1..Len(records')
           PROVE  OnItsWay(records[i])'
      <3>1. PICK y : y = records'[i]
        OBVIOUS
      <3>2. i \in 1..Len(records)
        BY <2>4
      <3>3. CASE y.outcome = "interrupted"
        <4>1. \E j \in 1..Len(interrupted') : interrupted'[j] = y
          BY <2>5, <2>6, <3>1, <3>3
        <4> QED
          BY <3>1, <4>1 DEF OnItsWay
      <3>4. CASE y.outcome # "interrupted"
        <4>1. y = records[i] /\ y.outcome # "in_flight"
          BY <2>3, <3>1, <3>2, <3>4
        <4>2. OnItsWay(y) /\ interrupted = <<>>
          BY <1>1, <1>7, <3>2, <4>1 DEF IInv, Drained
        <4>3. live[y.id].pc # "persist"
          <5>1. y.id \in Requests
            BY <3>2, <4>1, IdsOfDeque DEF IInv
          <5> QED
            BY <5>1 DEF DropStore
        <4>4. Safe(y) => Safe(y)'
          BY <1>1, SafeStays
        <4>5. ~ \E j \in 1..Len(interrupted) : interrupted[j] = y
          BY <4>2, SMTT(30)
        <4>6. OnItsWay(y)'
          BY <1>1, <4>1, <4>2, <4>3, <4>4, <4>5 DEF OnItsWay
        <4> QED
          BY <3>1, <4>6
      <3> QED
        BY <3>3, <3>4
    <2>12. Drained'
      BY <1>3, <2>1, <2>11 DEF Drained
    <2> QED
      BY <1>2, <1>3, <1>4, <1>5, <2>10, <2>12 DEF IInv
  <1> QED
    BY <1>6, <1>7

\* The process starts again from the table.
LEMMA RestartInv ==
  ASSUME IInv, deployment' = deployment, Restart
  PROVE  IInv'
  <1>1. /\ process \in {"stopped", "killed"} /\ starts < MaxStarts /\ starts' = starts + 1
        /\ UNCHANGED <<live, unsaved, sub>>
    BY DEF Restart
  <1>2. PICK n \in Retentions : start(n, db)
    BY DEF Restart
  <1>3. PICK k : k = clamp(n)
    OBVIOUS
  <1>4. /\ process' = "running" /\ retention' = n /\ interrupted' = <<>> /\ queue' = <<>>
        /\ flag' = FALSE /\ writer' = IF Persistent THEN "starting" ELSE "exited"
        /\ db' = IF Persistent THEN prune_records(db, k) ELSE db
        /\ records' = IF Persistent THEN load_latest_records(db, k) ELSE <<>>
    BY <1>2, <1>3 DEF start
  <1>5. /\ Requests' = Requests /\ Retentions' = Retentions /\ MaxStarts' = MaxStarts
        /\ Subscribers' = Subscribers /\ StreamType' = StreamType /\ Record' = Record
        /\ EventCapacity' = EventCapacity /\ QueueCapacity' = QueueCapacity
        /\ Persistent' = Persistent /\ \A m : clamp(m)' = clamp(m)
    BY SameDeployment
  <1>6. k \in Nat /\ MaxStarts \in Nat /\ QueueCapacity \in Nat
    <2>1. k \in 1..MaxRetention
      BY <1>2, <1>3, Clamped DEF IInv, Kinds
    <2> QED
      BY <2>1, Fixed, SMTT(30) DEF IInv, Kinds
  <1>7. Kinds'
    <2>1. starts' \in 1..MaxStarts
      BY <1>1, <1>6, SMTT(30) DEF IInv, Kinds
    <2> QED
      BY <1>1, <1>2, <1>4, <1>5, <2>1 DEF IInv, Kinds
  <1>8. \A r \in Requests : Proceeds(live[r])'
    BY <1>1, <1>4, ProceedsStays DEF IInv
  <1>9. /\ db \subseteq Record /\ IsFiniteSet(db) /\ Table(db) /\ \A row \in db : Done(row)
    BY TableOfOutcomes DEF IInv, Kinds, Stored
  <1>10. db' \in SUBSET db /\ IsFiniteSet(db')
    <2>1. prune_records(db, k) \subseteq db
      BY DEF prune_records
    <2>2. db' \in SUBSET db
      BY <1>4, <2>1
    <2> QED
      BY <1>9, <2>2, FS_Subset
  <1>11. /\ records' \in Seq(db') /\ Len(records') <= k
         /\ \A i, j \in 1..Len(records') : records'[i].id = records'[j].id => i = j
    <2>1. CASE Persistent
      <3>1. db' = prune_records(db, k) /\ records' = load_latest_records(db, k)
        BY <1>4, <2>1
      <3>2. PICK rows : rows = db
        OBVIOUS
      <3>3. PICK seq : seq = load_latest_records(rows, k)
        OBVIOUS
      <3>4. /\ seq \in Seq(prune_records(rows, k)) /\ Len(seq) <= k
            /\ \A i, j \in 1..Len(seq) : seq[i].id = seq[j].id => i = j
        BY <1>6, <1>9, <3>2, <3>3, LoadedRecords
      <3> QED
        BY <3>1, <3>2, <3>3, <3>4
    <2>2. CASE ~Persistent
      <3>1. records' = <<>>
        BY <1>4, <2>2
      <3> QED
        BY <1>6, <3>1, SMTT(30)
    <2> QED
      BY <2>1, <2>2
  <1>12. \A i \in 1..Len(records') : records'[i] \in db'
    BY <1>11, SMTT(30)
  <1>13. \A x : Done(x) => Done(x)'
    BY <1>1, SameRecords
  <1>14. Stored'
    <2>1. Shutdown' = Shutdown
      BY DEF Shutdown
    <2>2. records' \in Seq(Record)
      BY <1>9, <1>10, <1>11, SMTT(30)
    <2>3. \A i \in 1..Len(records') : Done(records[i])'
      <3>1. \A i \in 1..Len(records') : Done(records'[i])
        BY <1>9, <1>10, <1>12
      <3> QED
        BY <1>13, <3>1
    <2>4. \A row \in db' : Done(row)'
      BY <1>9, <1>10, <1>13
    <2>5. interrupted' \in Seq(Record) /\ Len(interrupted') = 0
      BY <1>4, SMTT(30)
    <2>6. \A i \in 1..Len(interrupted') : Done(interrupted[i])'
      BY <2>5, SMTT(30)
    <2>7. unsaved' \subseteq Record \cup {Shutdown.record} /\ db' \subseteq Record
      BY <1>1, <1>9, <1>10 DEF IInv, Stored
    <2>8. \E m \in Retentions : Len(records') <= clamp(m)
      BY <1>2, <1>3, <1>11
    <2> QED
      BY <1>5, <1>10, <1>11, <2>1, <2>2, <2>3, <2>4, <2>5, <2>6, <2>7, <2>8 DEF Stored
  <1>15. Queued'
    <2>1. queue' \in Seq(Messages' \cup {Shutdown'}) /\ Len(queue') = 0
      BY <1>4, SMTT(30)
    <2> QED
      BY <1>4, <1>5, <1>6, <2>1, SMTT(30) DEF Queued
  <1>16. Drained'
    <2>1. \A x \in db' : OnItsWay(x)'
      BY DEF OnItsWay, Safe
    <2>2. \A i \in 1..Len(records') : OnItsWay(records[i])'
      BY <1>12, <2>1
    <2> QED
      BY <1>4, <2>2 DEF Drained
  <1>17. \A s \in Subscribers : Follows(sub[s])'
    <2>1. \A s \in Subscribers : sub[s].state = "off" /\ sub'[s] = sub[s]
      BY <1>1 DEF IInv, Follows
    <2> QED
      BY <1>5, <2>1 DEF IInv, Follows
  <1> QED
    BY <1>5, <1>7, <1>8, <1>14, <1>15, <1>16, <1>17 DEF IInv

-----------------------------------------------------------------------------
(***************************************************************************)
(* Event streams.                                                          *)
(***************************************************************************)

\* A step that only moves one event stream keeps the invariant, if that stream
\* still follows the records.
LEMMA StreamStep ==
  ASSUME IInv, deployment' = deployment, UNCHANGED storeVars, UNCHANGED writerVars,
         NEW s \in Subscribers, NEW u \in StreamType, sub' = [sub EXCEPT ![s] = u], Follows(u)
  PROVE  IInv'
  <1>1. /\ UNCHANGED <<process, starts, retention, records, live, interrupted>>
        /\ UNCHANGED <<queue, flag, writer, db, unsaved>>
    BY DEF storeVars, writerVars
  <1>2. /\ Requests' = Requests /\ Retentions' = Retentions /\ MaxStarts' = MaxStarts
        /\ Subscribers' = Subscribers /\ StreamType' = StreamType
        /\ EventCapacity' = EventCapacity /\ SnapshotLimit' = SnapshotLimit
    BY SameDeployment
  <1>3. /\ sub \in [Subscribers -> StreamType] /\ sub' \in [Subscribers -> StreamType]
        /\ \A q \in Subscribers : sub'[q] = IF q = s THEN u ELSE sub[q]
    BY DEF IInv, Kinds
  <1>4. Kinds'
    BY <1>1, <1>2, <1>3 DEF IInv, Kinds
  <1>5. \A r \in Requests : Proceeds(live[r])'
    <2>1. process # "running" \/ process' = "running"
      BY <1>1
    <2> QED
      BY <1>1, <2>1, ProceedsStays DEF IInv
  <1>6. LiveStep
    BY <1>1, NothingSettles
  <1>7. \A x : Current(x) => Current(x)'
    BY <1>1, SameRecords
  <1>8. Stored'
    BY <1>1, <1>6, <1>7, StoredStays DEF IInv
  <1>9. Queued'
    BY <1>1, <1>6, QueuedStays DEF IInv
  <1>10. Drained'
    BY <1>1, DrainedStays DEF IInv
  <1>11. ASSUME NEW q \in Subscribers
         PROVE  Follows(sub[q])'
    <2>1. PICK t : t = sub'[q]
      OBVIOUS
    <2>2. Follows(t)
      BY <1>3, <2>1 DEF IInv
    <2>3. \A i : InWindow(i)' <=> InWindow(i)
      BY <1>1, <1>2 DEF InWindow
    <2>4. \A i \in 1..Len(records) : UpToDate(t, records[i]) => UpToDate(sub[q], records[i])'
      BY <1>1, <2>1
    <2> QED
      BY <1>1, <1>2, <2>1, <2>2, <2>3, <2>4 DEF Follows
  <1> QED
    BY <1>2, <1>4, <1>5, <1>8, <1>9, <1>10, <1>11 DEF IInv

\* The limited records are those at the positions of the window.
IsWindow(out, deque, limit) ==
  /\ \A i \in 1..Len(deque) :
       i + limit > Len(deque) => \E k \in 1..Len(out) : out[k] = deque[i]
  /\ \A k \in 1..Len(out) :
       \E i \in 1..Len(deque) : i + limit > Len(deque) /\ out[k] = deque[i]

\* That is what records_limited returns.
LEMMA Window ==
  ASSUME NEW S, NEW deque \in Seq(S), NEW limit \in Nat \ {0},
         NEW out, out = records_limited(deque, limit)
  PROVE  out \in Seq(S) /\ IsWindow(out, deque, limit)
  <1>1. Len(deque) \in Nat /\ \A i \in 1..Len(deque) : deque[i] \in S
    BY SMTT(30)
  <1>2. CASE Len(deque) <= limit
    <2>1. out = deque
      BY <1>2 DEF records_limited
    <2>2. \A i \in 1..Len(deque) : i + limit > Len(deque)
      BY <1>1, <1>2, SMTT(30)
    <2> QED
      BY <2>1, <2>2 DEF IsWindow
  <1>3. CASE ~(Len(deque) <= limit)
    <2> DEFINE c == Len(deque) - limit
    <2>1. out = SubSeq(deque, c + 1, Len(deque))
      BY <1>3 DEF records_limited
    <2>2. c \in Nat /\ c + 1 \in 1..Len(deque) /\ c + limit = Len(deque)
      BY <1>1, <1>3, SMTT(30)
    <2> HIDE DEF c
    <2>3. /\ out \in Seq(S) /\ Len(out) = limit
          /\ \A k \in 1..limit : out[k] = deque[c + k]
      <3>1. out = [k \in 1..(Len(deque) - (c + 1) + 1) |-> deque[(c + 1) + k - 1]]
        BY <1>1, <2>1, <2>2, SeqPart, SMTT(30)
      <3>2. Len(deque) - (c + 1) + 1 = limit /\ \A k \in 1..limit : (c + 1) + k - 1 = c + k
        BY <1>1, <2>2, SMTT(30)
      <3>3. out = [k \in 1..limit |-> deque[c + k]]
        BY <3>1, <3>2
      <3>4. \A k \in 1..limit : c + k \in 1..Len(deque)
        BY <1>1, <2>2, SMTT(30)
      <3>5. out \in [1..limit -> S]
        BY <1>1, <3>3, <3>4
      <3>6. out \in Seq(S) /\ Len(out) = limit
        BY <3>5, SMTT(30)
      <3> QED
        BY <3>3, <3>6
    <2>4. ASSUME NEW i \in 1..Len(deque), i + limit > Len(deque)
          PROVE  \E k \in 1..Len(out) : out[k] = deque[i]
      <3>1. i - c \in 1..limit /\ c + (i - c) = i
        BY <1>1, <2>2, <2>4, SMTT(30)
      <3> QED
        BY <2>3, <3>1
    <2>5. ASSUME NEW k \in 1..Len(out)
          PROVE  \E i \in 1..Len(deque) : i + limit > Len(deque) /\ out[k] = deque[i]
      <3>1. k \in 1..limit /\ c + k \in 1..Len(deque) /\ (c + k) + limit > Len(deque)
        BY <1>1, <2>2, <2>3, SMTT(30)
      <3> QED
        BY <2>3, <3>1
    <2> QED
      BY <2>3, <2>4, <2>5 DEF IsWindow
  <1> QED
    BY <1>2, <1>3

\* A client that is shown records knows each of them, and what it knew of others.
Tells(new, view, recs) ==
  /\ \A r \in Requests : (\A k \in 1..Len(recs) : recs[k].id # r) => new[r] = view[r]
  /\ \A k \in 1..Len(recs) :
       (\A m \in 1..Len(recs) : recs[m].id = recs[k].id => recs[m] = recs[k])
         => new[recs[k].id] = {recs[k]}

\* That is what the page shows after it received recs.
LEMMA Shown ==
  ASSUME NEW view \in [Requests -> SUBSET Record], NEW recs \in Seq(Record),
         NEW new, new = shown(view, recs)
  PROVE  new \in [Requests -> SUBSET Record] /\ Tells(new, view, recs)
  <1>1. DOMAIN recs = 1..Len(recs) /\ \A k \in 1..Len(recs) : recs[k] \in Record
    BY SMTT(30)
  <1>2. ASSUME NEW r \in Requests
        PROVE  /\ new[r] \in SUBSET Record
               /\ (\A k \in 1..Len(recs) : recs[k].id # r) => new[r] = view[r]
               /\ \A k \in 1..Len(recs) :
                    r = recs[k].id /\ (\A m \in 1..Len(recs) : recs[m].id = r => recs[m] = recs[k])
                      => new[r] = {recs[k]}
    <2> DEFINE c == CHOOSE i \in 1..Len(recs) : recs[i].id = r
    <2>1. CASE \E i \in 1..Len(recs) : recs[i].id = r
      <3>1. c \in 1..Len(recs) /\ recs[c].id = r
        BY <2>1
      <3>2. new[r] = {recs[c]}
        BY <1>1, <2>1 DEF shown
      <3> HIDE DEF c
      <3> QED
        BY <1>1, <2>1, <3>1, <3>2
    <2>2. CASE \A i \in 1..Len(recs) : recs[i].id # r
      <3>1. new[r] = view[r]
        BY <1>1, <2>2 DEF shown
      <3> QED
        BY <2>2, <3>1
    <2> QED
      BY <2>1, <2>2
  <1>3. new = [r \in Requests |-> new[r]]
    BY DEF shown
  <1>4. new \in [Requests -> SUBSET Record]
    BY <1>2, <1>3
  <1>5. \A k \in 1..Len(recs) : recs[k].id \in Requests
    BY <1>1 DEF Record
  <1> QED
    BY <1>2, <1>4, <1>5 DEF Tells

\* A stream that has shown its snapshot.
LEMMA Viewed ==
  ASSUME NEW t \in StreamType, NEW state, NEW view, NEW u,
         u = [t EXCEPT !.state = state, !.view = view]
  PROVE  u = [state |-> state, pending |-> t.pending, skipped |-> t.skipped, told |-> t.told,
              view |-> view]
  BY DEF StreamType

\* A stream that has shown an event.
LEMMA Received ==
  ASSUME NEW t \in StreamType, NEW p, NEW view, NEW u,
         u = [t EXCEPT !.pending = p, !.view = view]
  PROVE  u = [state |-> t.state, pending |-> p, skipped |-> t.skipped, told |-> t.told,
              view |-> view]
  BY DEF StreamType

\* A stream that has told its page to reload.
LEMMA Lagged ==
  ASSUME NEW t \in StreamType, NEW u, u = [t EXCEPT !.skipped = 0, !.told = TRUE]
  PROVE  u = [state |-> t.state, pending |-> t.pending, skipped |-> 0, told |-> TRUE,
              view |-> t.view]
  BY DEF StreamType

\* A stream sends its snapshot.
LEMMA SnapshotInv ==
  ASSUME IInv, deployment' = deployment, NEW s \in Subscribers, Snapshot(s)
  PROVE  IInv'
  <1>1. PICK t \in StreamType : t = sub[s] /\ Follows(t)
    BY DEF IInv, Kinds
  <1>2. PICK limit : limit = SnapshotLimit
    OBVIOUS
  <1>3. PICK deque : deque = records
    OBVIOUS
  <1>4. PICK recs : recs = records_limited(deque, limit)
    OBVIOUS
  <1>5. PICK view : view = shown(t.view, recs)
    OBVIOUS
  <1>6. PICK live_state : live_state = "live"
    OBVIOUS
  <1>7. PICK u : u = [sub[s] EXCEPT !.state = "live",
                                    !.view = shown(sub[s].view,
                                                   records_limited(records, SnapshotLimit))]
    OBVIOUS
  <1>8. /\ t.state = "subscribed" /\ sub' = [sub EXCEPT ![s] = u]
        /\ UNCHANGED storeVars /\ UNCHANGED writerVars
    BY <1>1, <1>7 DEF Snapshot
  <1>9. u = [state |-> "live", pending |-> t.pending, skipped |-> t.skipped, told |-> t.told,
             view |-> view]
    <2>1. u = [t EXCEPT !.state = live_state, !.view = view]
      BY <1>1, <1>2, <1>3, <1>4, <1>5, <1>6, <1>7
    <2> QED
      BY <1>6, <2>1, Viewed
  <1>10. /\ t.pending \in Seq(Record) /\ t.skipped \in Nat /\ t.told \in BOOLEAN
         /\ t.view \in [Requests -> SUBSET Record]
    BY StreamFields
  <1>11. limit \in Nat \ {0} /\ deque \in Seq(Record)
    BY <1>2, <1>3, Fixed DEF IInv, Kinds, Stored
  <1>12. recs \in Seq(Record) /\ IsWindow(recs, deque, limit)
    BY <1>4, <1>11, Window
  <1>13. \A i, j \in 1..Len(deque) : deque[i].id = deque[j].id => i = j
    BY <1>3 DEF IInv, Stored
  <1>14. ASSUME NEW k \in 1..Len(recs), NEW m \in 1..Len(recs), recs[m].id = recs[k].id
         PROVE  recs[m] = recs[k]
    <2>1. PICK i \in 1..Len(deque) : recs[k] = deque[i]
      BY <1>12 DEF IsWindow
    <2>2. PICK j \in 1..Len(deque) : recs[m] = deque[j]
      BY <1>12 DEF IsWindow
    <2> QED
      BY <1>13, <1>14, <2>1, <2>2
  <1>15. /\ view \in [Requests -> SUBSET Record]
         /\ \A k \in 1..Len(recs) : view[recs[k].id] = {recs[k]}
    <2>1. view \in [Requests -> SUBSET Record] /\ Tells(view, t.view, recs)
      BY <1>5, <1>10, <1>12, Shown
    <2> QED
      BY <1>14, <2>1 DEF Tells
  <1>16. u \in StreamType
    BY <1>9, <1>10, <1>15 DEF StreamType
  <1>17. Follows(u)
    <2>1. ASSUME ~u.told, u.skipped = 0, NEW i \in 1..Len(records), InWindow(i)
          PROVE  live[records[i].id].pc \in {"persist", "notify"} \/ UpToDate(u, records[i])
      <3>1. PICK x : x = records[i]
        OBVIOUS
      <3>2. live[x.id].pc \in {"persist", "notify"} \/ UpToDate(t, x)
        BY <1>1, <1>8, <1>9, <2>1, <3>1 DEF Follows
      <3>3. view[x.id] = {x}
        <4>1. \E k \in 1..Len(recs) : recs[k] = x
          BY <1>2, <1>3, <1>12, <2>1, <3>1 DEF InWindow, IsWindow
        <4> QED
          BY <1>15, <4>1
      <3>4. UpToDate(t, x) => UpToDate(u, x)
        <4>1. u.pending = t.pending /\ u.view = view
          BY <1>9
        <4> QED
          BY <3>3, <4>1 DEF UpToDate
      <3> QED
        BY <3>1, <3>2, <3>4
    <2>2. /\ u.pending = t.pending /\ u.skipped = t.skipped /\ t.state # "off"
      BY <1>8, <1>9
    <2> QED
      BY <1>1, <2>1, <2>2 DEF Follows
  <1> QED
    BY <1>8, <1>16, <1>17, StreamStep

\* A stream receives an event, or learns that it lags.
LEMMA ReceiveEventInv ==
  ASSUME IInv, deployment' = deployment, NEW s \in Subscribers, ReceiveEvent(s)
  PROVE  IInv'
  <1>1. PICK t \in StreamType : t = sub[s] /\ Follows(t)
    BY DEF IInv, Kinds
  <1>2. sub \in [Subscribers -> StreamType]
    BY DEF IInv, Kinds
  <1>3. /\ t.pending \in Seq(Record) /\ t.skipped \in Nat /\ t.told \in BOOLEAN
        /\ t.state = "live" /\ t.pending # <<>> /\ t.view \in [Requests -> SUBSET Record]
        /\ UNCHANGED storeVars /\ UNCHANGED writerVars
    BY <1>1, StreamFields DEF ReceiveEvent
  <1>4. CASE t.skipped > 0
    <2>1. PICK u : u = [t EXCEPT !.skipped = 0, !.told = TRUE]
      OBVIOUS
    <2>2. sub' = [sub EXCEPT ![s] = u]
      BY <1>1, <1>2, <1>4, <2>1 DEF ReceiveEvent
    <2>3. u = [state |-> t.state, pending |-> t.pending, skipped |-> 0, told |-> TRUE,
               view |-> t.view]
      BY <2>1, Lagged
    <2>4. u \in StreamType
      BY <1>3, <2>3 DEF StreamType
    <2>5. Follows(u)
      BY <1>1, <2>3 DEF Follows
    <2> QED
      BY <1>3, <2>2, <2>4, <2>5, StreamStep
  <1>5. CASE ~(t.skipped > 0)
    <2>1. PICK p : p = Tail(t.pending)
      OBVIOUS
    <2>2. PICK e : e = Head(t.pending)
      OBVIOUS
    <2>3. PICK view : view = shown(t.view, <<e>>)
      OBVIOUS
    <2>4. PICK u : u = [sub[s] EXCEPT !.pending = Tail(sub[s].pending),
                                      !.view = shown(sub[s].view, <<Head(sub[s].pending)>>)]
      OBVIOUS
    <2>5. sub' = [sub EXCEPT ![s] = u]
      BY <1>1, <1>5, <2>4 DEF ReceiveEvent
    <2>6. u = [state |-> t.state, pending |-> p, skipped |-> t.skipped, told |-> t.told,
               view |-> view]
      <3>1. u = [t EXCEPT !.pending = p, !.view = view]
        BY <1>1, <2>1, <2>2, <2>3, <2>4
      <3> QED
        BY <3>1, Received
    <2>7. PICK q \in Seq(Record) : q = t.pending
      BY <1>3
    <2>8. /\ e \in Record /\ e = q[1] /\ Len(q) \in Nat \ {0}
          /\ p \in Seq(Record) /\ Len(p) = Len(q) - 1
          /\ \A i \in 1..Len(p) : p[i] = q[i + 1]
      <3> DEFINE R == Record
      <3>1. q \in Seq(R) /\ q # <<>> /\ e = Head(q) /\ p = Tail(q)
        BY <1>3, <2>1, <2>2, <2>7
      <3> HIDE DEF R
      <3>2. /\ e \in R /\ e = q[1] /\ Len(q) \in Nat \ {0}
            /\ p \in Seq(R) /\ Len(p) = Len(q) - 1
            /\ \A i \in 1..Len(p) : p[i] = q[i + 1]
        BY <3>1, SeqTail, SeqIsFunction, SeqOfNothing, SMTT(30)
      <3> QED
        BY <3>2 DEF R
    <2>9. PICK one \in Seq(Record) : one = <<e>> /\ Len(one) = 1 /\ one[1] = e
      <3>1. <<e>> \in Seq(Record)
        BY <2>8, SMTT(30)
      <3>2. Len(<<e>>) = 1 /\ <<e>>[1] = e
        OBVIOUS
      <3> QED
        BY <3>1, <3>2
    <2>10. /\ view \in [Requests -> SUBSET Record]
           /\ \A r \in Requests : r # e.id => view[r] = t.view[r]
           /\ view[e.id] = {e}
      <3>1. view \in [Requests -> SUBSET Record] /\ Tells(view, t.view, one)
        BY <1>3, <2>3, <2>9, Shown
      <3>2. \A k \in 1..Len(one) : k = 1
        BY <2>9, SMTT(30)
      <3>3. 1 \in 1..Len(one)
        BY <2>9, SMTT(30)
      <3> QED
        BY <2>9, <3>1, <3>2, <3>3, SMTT(30) DEF Tells
    <2>11. u \in StreamType
      BY <1>3, <2>6, <2>8, <2>10 DEF StreamType
    <2>12. ASSUME NEW x, x.id \in Requests, UpToDate(t, x)
           PROVE  UpToDate(u, x)
      <3>1. \A i \in 1..Len(p) : i + 1 \in 1..Len(q)
        BY <2>8, SMTT(30)
      <3>2. CASE \E k \in 1..Len(q) : q[k] = x /\ \A m \in 1..Len(q) : m > k => q[m].id # x.id
        <4>1. PICK k \in 1..Len(q) : q[k] = x /\ \A m \in 1..Len(q) : m > k => q[m].id # x.id
          BY <3>2
        <4>2. CASE k = 1
          <5>1. e = x
            BY <2>8, <4>1, <4>2
          <5>2. \A i \in 1..Len(p) : p[i].id # x.id
            <6>1. \A i \in 1..Len(p) : i + 1 > 1
              BY <2>8, SMTT(30)
            <6> QED
              BY <2>8, <3>1, <4>1, <4>2, <6>1
          <5> QED
            BY <2>6, <2>10, <5>1, <5>2 DEF UpToDate
        <4>3. CASE k # 1
          <5>1. k - 1 \in 1..Len(p) /\ (k - 1) + 1 = k
            BY <2>8, <4>3, SMTT(30)
          <5>2. p[k - 1] = x
            BY <2>8, <4>1, <5>1
          <5>3. \A m \in 1..Len(p) : m > k - 1 => m + 1 > k
            BY <2>8, SMTT(30)
          <5>4. \A m \in 1..Len(p) : m > k - 1 => p[m].id # x.id
            BY <2>8, <3>1, <4>1, <5>3
          <5> QED
            BY <2>6, <5>1, <5>2, <5>4 DEF UpToDate
        <4> QED
          BY <4>2, <4>3
      <3>3. CASE \A k \in 1..Len(q) : q[k].id # x.id
        <4>1. t.view[x.id] = {x}
          BY <1>3, <2>7, <2>12, <3>3 DEF UpToDate
        <4>2. e.id # x.id
          <5>1. 1 \in 1..Len(q)
            BY <2>8, SMTT(30)
          <5> QED
            BY <2>8, <3>3, <5>1
        <4>3. \A i \in 1..Len(p) : p[i].id # x.id
          BY <2>8, <3>1, <3>3
        <4>4. view[x.id] = {x}
          BY <2>10, <2>12, <4>1, <4>2
        <4> QED
          BY <2>6, <4>3, <4>4 DEF UpToDate
      <3> QED
        BY <2>7, <2>12, <3>2, <3>3 DEF UpToDate
    <2>13. Follows(u)
      <3>1. Len(p) <= EventCapacity
        <4>1. Len(q) <= EventCapacity /\ EventCapacity \in Nat
          BY <1>1, <2>7, Fixed DEF Follows, IInv, Kinds
        <4> QED
          BY <2>8, <4>1, SMTT(30)
      <3>2. u.skipped = 0
        <4>1. t.skipped = 0
          BY <1>3, <1>5, SMTT(30)
        <4> QED
          BY <2>6, <4>1
      <3>3. ASSUME ~u.told, NEW i \in 1..Len(records), InWindow(i)
            PROVE  live[records[i].id].pc \in {"persist", "notify"} \/ UpToDate(u, records[i])
        <4>1. records[i].id \in Requests
          BY IdsOfDeque DEF IInv
        <4>2. live[records[i].id].pc \in {"persist", "notify"} \/ UpToDate(t, records[i])
          BY <1>1, <1>3, <2>6, <3>2, <3>3 DEF Follows
        <4> QED
          BY <2>12, <4>1, <4>2
      <3>4. process = "running"
        BY <1>1, <1>3 DEF Follows
      <3> QED
        BY <2>6, <3>1, <3>2, <3>3, <3>4 DEF Follows
    <2> QED
      BY <1>3, <2>5, <2>11, <2>13, StreamStep
  <1> QED
    BY <1>4, <1>5

\* Every step of a stream.
LEMMA StreamInv ==
  ASSUME IInv, deployment' = deployment, NEW s \in Subscribers, Stream(s)
  PROVE  IInv'
  <1>1. 0 <= EventCapacity
    BY Fixed, SMTT(30) DEF IInv, Kinds
  <1>2. CASE Subscribe(s)
    <2>1. PICK u : u = [NoStream EXCEPT !.state = "subscribed"]
      OBVIOUS
    <2>2. u = [state |-> "subscribed", pending |-> <<>>, skipped |-> 0, told |-> FALSE,
               view |-> [r \in Requests |-> {}]]
      BY <2>1 DEF NoStream
    <2>3. u \in StreamType
      BY <2>2, SMTT(30) DEF StreamType
    <2>4. u.pending = <<>> /\ u.skipped = 0 /\ u.state = "subscribed" /\ process = "running"
      BY <1>2, <2>2 DEF Subscribe
    <2>5. \A x : UpToDate(u, x)
      BY <2>4, SMTT(30) DEF UpToDate
    <2>6. Follows(u)
      BY <1>1, <2>4, <2>5 DEF Follows
    <2>7. sub' = [sub EXCEPT ![s] = u] /\ UNCHANGED storeVars /\ UNCHANGED writerVars
      BY <1>2, <2>1 DEF Subscribe
    <2> QED
      BY <2>3, <2>6, <2>7, StreamStep
  <1>3. CASE Snapshot(s)
    BY <1>3, SnapshotInv
  <1>4. CASE ReceiveEvent(s)
    BY <1>4, ReceiveEventInv
  <1>5. CASE Unsubscribe(s)
    <2>1. PICK u : u = NoStream
      OBVIOUS
    <2>2. u \in StreamType /\ u.pending = <<>> /\ u.skipped = 0 /\ u.state = "off"
      BY <2>1, SMTT(30) DEF NoStream, StreamType
    <2>3. Follows(u)
      BY <1>1, <2>2 DEF Follows
    <2>4. sub' = [sub EXCEPT ![s] = u] /\ UNCHANGED storeVars /\ UNCHANGED writerVars
      BY <1>5, <2>1 DEF Unsubscribe
    <2> QED
      BY <2>2, <2>3, <2>4, StreamStep
  <1> QED
    BY <1>2, <1>3, <1>4, <1>5 DEF Stream

-----------------------------------------------------------------------------
(***************************************************************************)
(* The invariant holds.                                                    *)
(***************************************************************************)
LEMMA InitInv ==
  ASSUME Init
  PROVE  IInv
  <1>1. /\ MaxRequests \in Nat /\ MaxUpdates \in Nat /\ MaxStarts \in Nat \ {0}
        /\ Retentions # {} /\ QueueCapacity \in Nat /\ EventCapacity \in Nat
        /\ MaxRetention \in Nat
    BY Fixed DEF Init
  <1>2. NewRequest \in LiveType /\ NoStream \in StreamType
    BY SMTT(30) DEF NewRequest, LiveType, Pcs, NoStream, StreamType
  <1>3. Kinds
    <2>1. 1 \in 1..MaxStarts
      BY <1>1, SMTT(30)
    <2> QED
      BY <1>2, <2>1 DEF Init, Kinds
  <1>4. ASSUME NEW r \in Requests
        PROVE  Proceeds(live[r])
    <2>1. live[r] = NewRequest
      BY DEF Init
    <2>2. Fits(NewRequest, MaxUpdates)
      BY <1>1, SMTT(30) DEF Fits, NewRequest
    <2> QED
      BY <2>1, <2>2 DEF Proceeds, NewRequest, Init
  <1>5. Stored
    <2>1. \E n \in Retentions : 0 <= clamp(n)
      <3>1. PICK n \in Retentions : TRUE
        BY <1>1
      <3>2. clamp(n) \in 1..MaxRetention
        BY Clamped DEF Init
      <3>3. 0 <= clamp(n)
        BY <1>1, <3>2, SMTT(30)
      <3> QED
        BY <3>3
    <2>2. IsFiniteSet({})
      BY FS_EmptySet
    <2> QED
      BY <2>1, <2>2, SMTT(30) DEF Init, Stored
  <1>6. Queued
    BY <1>1, SMTT(30) DEF Init, Queued
  <1>7. Drained
    BY SMTT(30) DEF Init, Drained
  <1>8. ASSUME NEW s \in Subscribers
        PROVE  Follows(sub[s])
    <2>1. sub[s] = NoStream
      BY DEF Init
    <2>2. NoStream.pending = <<>> /\ NoStream.skipped = 0 /\ NoStream.state = "off"
      BY DEF NoStream
    <2>3. 0 <= EventCapacity
      BY <1>1, SMTT(30)
    <2> QED
      BY <2>1, <2>2, <2>3 DEF Follows
  <1> QED
    BY <1>3, <1>4, <1>5, <1>6, <1>7, <1>8 DEF IInv

\* Nothing happens.
LEMMA StutterInv ==
  ASSUME IInv, UNCHANGED vars
  PROVE  IInv'
  <1>1. /\ deployment' = deployment /\ UNCHANGED storeVars /\ sub' = sub
        /\ UNCHANGED <<process, starts, retention, records, live, interrupted>>
        /\ UNCHANGED <<queue, flag, writer, db, unsaved>>
    BY DEF vars, storeVars
  <1>2. LiveStep
    BY <1>1, NothingSettles
  <1>3. Queued'
    BY <1>1, <1>2, QueuedStays DEF IInv
  <1>4. \A x : OnItsWay(x) => OnItsWay(x)'
    <2>1. \A x : Safe(x) => Safe(x)'
      BY <1>1, SafeStays
    <2> QED
      BY <1>1, <2>1 DEF OnItsWay
  <1>5. /\ writer' \in {"starting", "top", "receiving", "draining", "exited"}
        /\ process = "stopped" => writer' = "exited" \/ ~Persistent
    BY <1>1 DEF IInv, Kinds, Drained
  <1>6. /\ db' \subseteq Record /\ IsFiniteSet(db') /\ \A row \in db' : Done(row)
        /\ unsaved' \subseteq Record \cup {Shutdown.record}
    BY <1>1 DEF IInv, Stored
  <1> QED
    BY <1>1, <1>3, <1>4, <1>5, <1>6, WriterStep

\* Every step keeps the invariant.
LEMMA NextInv ==
  ASSUME IInv, [Next]_vars
  PROVE  IInv'
  <1>1. CASE UNCHANGED vars
    BY <1>1, StutterInv
  <1>2. CASE Next
    <2>1. deployment' = deployment
      BY <1>2 DEF Next
    <2>2. CASE Restart
      BY <2>1, <2>2, RestartInv
    <2>3. CASE Reload
      BY <2>1, <2>3, ReloadInv
    <2>4. CASE Crash
      BY <2>1, <2>4, CrashInv
    <2>5. CASE DropStore
      BY <2>1, <2>5, DropStoreInv
    <2>6. CASE Drop
      BY <2>1, <2>6, DropInv
    <2>7. CASE Writer
      BY <2>1, <2>7, WriterInv
    <2>8. CASE \E r \in Requests : Request(r)
      BY <2>1, <2>8, RequestInv
    <2>9. CASE \E s \in Subscribers : Stream(s)
      BY <2>1, <2>9, StreamInv
    <2> QED
      BY <1>2, <2>2, <2>3, <2>4, <2>5, <2>6, <2>7, <2>8, <2>9 DEF Next
  <1> QED
    BY <1>1, <1>2

\* So it holds throughout.
LEMMA Invariant == Spec => []IInv
  <1>1. Init => IInv
    BY InitInv
  <1>2. IInv /\ [Next]_vars => IInv'
    BY NextInv
  <1> QED
    BY <1>1, <1>2, PTL DEF Spec

-----------------------------------------------------------------------------
(***************************************************************************)
(* What it implies.                                                        *)
(***************************************************************************)
LEMMA Types ==
  ASSUME IInv
  PROVE  TypeOK
  <1>1. ASSUME NEW r \in Requests
        PROVE  live[r] \in [pc : {"new", "arrived", "live", "persist", "notify", "gone"},
                            version : {0} \cup Versions, retention : {0} \cup Retentions,
                            final : BOOLEAN]
    <2>1. live[r] \in LiveType /\ Proceeds(live[r])
      BY LiveAt
    <2>2. live[r].version \in {0} \cup Versions
      <3> DEFINE v == live[r].version
      <3>1. v \in Nat /\ v <= MaxUpdates + 2 /\ MaxUpdates \in Nat
        BY <2>1, Fixed DEF LiveType, Proceeds, Fits, IInv, Kinds
      <3> HIDE DEF v
      <3>2. v \in {0} \cup Versions
        BY <3>1, SMTT(30) DEF Versions
      <3> QED
        BY <3>2 DEF v
    <2>3. live[r].retention \in {0} \cup Retentions
      BY <2>1 DEF Proceeds
    <2> QED
      BY <2>1, <2>2, <2>3 DEF LiveType, Pcs
  <1>2. live \in [Requests ->
                   [pc : {"new", "arrived", "live", "persist", "notify", "gone"},
                    version : {0} \cup Versions, retention : {0} \cup Retentions,
                    final : BOOLEAN]]
    <2>1. live = [r \in Requests |-> live[r]]
      BY DEF IInv, Kinds
    <2> QED
      BY <1>1, <2>1
  <1>3. ASSUME NEW s \in Subscribers
        PROVE  /\ sub[s].state \in {"off", "subscribed", "live"}
               /\ sub[s].pending \in Seq(Record) /\ Len(sub[s].pending) <= EventCapacity
               /\ sub[s].skipped \in Nat /\ sub[s].told \in BOOLEAN
               /\ \A r \in Requests : sub[s].view[r] \subseteq Record
    <2>1. PICK t \in StreamType : t = sub[s] /\ Follows(t)
      BY DEF IInv, Kinds
    <2>2. /\ t.state \in {"off", "subscribed", "live"} /\ t.pending \in Seq(Record)
          /\ t.skipped \in Nat /\ t.told \in BOOLEAN /\ t.view \in [Requests -> SUBSET Record]
      BY StreamFields
    <2> QED
      BY <2>1, <2>2 DEF Follows
  <1>4. \A m \in Range(queue) :
          m = Shutdown \/ (m.record \in Record /\ m.retention \in 1..MaxRetention)
    <2>1. \A i \in 1..Len(queue) : queue[i] \in Messages \cup {Shutdown}
      BY SMTT(30) DEF IInv, Queued
    <2>2. DOMAIN queue = 1..Len(queue)
      BY SMTT(30) DEF IInv, Queued
    <2>3. \A m \in Range(queue) : m \in Messages \cup {Shutdown}
      BY <2>1, <2>2 DEF Range
    <2> QED
      BY <2>3 DEF Messages
  <1> QED
    BY <1>2, <1>3, <1>4 DEF IInv, Kinds, Stored, Queued, TypeOK

\* The deque is current.
LEMMA Deque ==
  ASSUME IInv
  PROVE  DequeIsCurrent
  <1>1. DOMAIN records = 1..Len(records)
    BY SMTT(30) DEF IInv, Stored
  <1>2. ASSUME NEW i \in 1..Len(records), process = "running",
               live[records[i].id].pc \notin {"new", "gone"}
        PROVE  records[i] = written(records[i].id)
    <2>1. PICK x : x = records[i]
      OBVIOUS
    <2>2. Done(x) \/ Current(x)
      BY <2>1 DEF IInv, Stored
    <2>3. CASE Current(x)
      BY <2>1, <2>3 DEF Current
    <2>4. CASE Done(x)
      <3>1. live[x.id].final /\ x = outcome(x.id)
        BY <1>2, <2>1, <2>4 DEF Done, Settled
      <3> QED
        BY <2>1, <3>1 DEF outcome, written
    <2> QED
      BY <2>2, <2>3, <2>4
  <1> QED
    BY <1>1, <1>2 DEF IInv, Stored, DequeIsCurrent

\* The table has outcomes.
LEMMA Outcomes ==
  ASSUME IInv
  PROVE  TableHoldsOutcomes
  BY DoneIsOutcome, OneOutcome DEF IInv, Stored, TableHoldsOutcomes

\* What was in the deque when the process stopped is in the table, was given up,
\* or was pruned.
LEMMA Drains ==
  ASSUME IInv
  PROVE  DrainSavesDeque
  <1> SUFFICES ASSUME Persistent, process = "stopped", NEW i \in 1..Len(records)
               PROVE  \/ records[i] \in db
                      \/ records[i] \in unsaved
                      \/ \E n \in Retentions :
                           Cardinality({row \in db : row.id > records[i].id}) >= clamp(n)
    <2>1. DOMAIN records = 1..Len(records)
      BY SMTT(30) DEF IInv, Stored
    <2> QED
      BY <2>1 DEF DrainSavesDeque
  <1>1. PICK x : x = records[i]
    OBVIOUS
  <1>2. OnItsWay(x) /\ interrupted = <<>> /\ writer = "exited"
    BY <1>1 DEF IInv, Drained
  <1>3. queue = <<>>
    BY <1>2 DEF IInv, Queued
  <1>4. live[x.id].pc # "persist"
    <2>1. x.id \in Requests
      BY <1>1, IdsOfDeque DEF IInv
    <2> QED
      BY <2>1 DEF IInv, Proceeds
  <1>5. Safe(x)
    BY <1>2, <1>3, <1>4, SMTT(30) DEF OnItsWay
  <1> QED
    BY <1>1, <1>5 DEF Safe, newer, Newer

\* A stream with an empty backlog shows the newest records.
LEMMA Subscriber ==
  ASSUME IInv
  PROVE  SubscriberIsCurrent
  <1> SUFFICES ASSUME NEW s \in Subscribers, sub[s].state = "live", sub[s].pending = <<>>,
                      ~sub[s].told,
                      NEW x \in Range(records_limited(records, SnapshotLimit))
               PROVE  live[x.id].pc \in {"persist", "notify"} \/ sub[s].view[x.id] = {x}
    BY DEF SubscriberIsCurrent
  <1>1. PICK t \in StreamType : t = sub[s] /\ Follows(t)
    BY DEF IInv, Kinds
  <1>2. PICK deque : deque = records
    OBVIOUS
  <1>3. PICK limit : limit = SnapshotLimit
    OBVIOUS
  <1>4. PICK recs : recs = records_limited(deque, limit)
    OBVIOUS
  <1>5. deque \in Seq(Record) /\ limit \in Nat \ {0}
    BY <1>2, <1>3, Fixed DEF IInv, Kinds, Stored
  <1>6. recs \in Seq(Record) /\ IsWindow(recs, deque, limit)
    BY <1>4, <1>5, Window
  <1>7. PICK k \in 1..Len(recs) : x = recs[k]
    <2>1. DOMAIN recs = 1..Len(recs)
      BY <1>6, SMTT(30)
    <2> QED
      BY <1>2, <1>3, <1>4, <2>1 DEF Range
  <1>8. PICK i \in 1..Len(records) : x = records[i] /\ InWindow(i)
    BY <1>2, <1>3, <1>6, <1>7 DEF IsWindow, InWindow
  <1>9. t.skipped = 0
    BY <1>1 DEF Follows
  <1>10. live[x.id].pc \in {"persist", "notify"} \/ UpToDate(t, x)
    BY <1>1, <1>8, <1>9 DEF Follows
  <1>11. UpToDate(t, x) => t.view[x.id] = {x}
    BY <1>1, SMTT(30) DEF UpToDate
  <1> QED
    BY <1>1, <1>10, <1>11

-----------------------------------------------------------------------------
(***************************************************************************)
(* What a step does to outcomes.                                           *)
(***************************************************************************)

\* A record of the deque is one that was in it, an outcome, or written by a
\* request that had no outcome yet.
DequeStep ==
  \A j \in 1..Len(records') :
    \/ \E i \in 1..Len(records) : records'[j] = records[i]
    \/ Done(records[j])'
    \/ ~Settled(live[records'[j].id])

\* Not by a write.
LEMMA StoreStep ==
  ASSUME IInv, deployment' = deployment, NEW r \in Requests, NEW final \in BOOLEAN,
         live[r].pc \in {"arrived", "live"}, store(r, final)
  PROVE  LiveStep /\ DequeStep
  <1>1. /\ live[r] \in LiveType /\ Proceeds(live[r]) /\ live \in [Requests -> LiveType]
    BY LiveAt DEF IInv, Kinds
  <1>2. ~Settled(live[r])
    BY <1>1 DEF Settled, Proceeds
  <1>3. \A q \in Requests : q # r => live'[q] = live[q]
    BY <1>1 DEF store
  <1>4. LiveStep
    BY <1>2, <1>3 DEF LiveStep
  <1>5. PICK x : x = written(r)'
    OBVIOUS
  <1>6. PICK n : n = clamp(live[r].retention)
    OBVIOUS
  <1>7. PICK deque : deque = records
    OBVIOUS
  <1>8. PICK out : out = records'
    OBVIOUS
  <1>9. PICK S : S = Record \cup {x}
    OBVIOUS
  <1>10. /\ out = upsert_with_fifo_eviction(deque, x, n) /\ deque \in Seq(S) /\ Distinct(deque)
         /\ x \in S /\ x.id = r
    BY <1>5, <1>6, <1>7, <1>8, <1>9, SMTT(30) DEF store, IInv, Stored, written, Distinct
  <1>11. n \in Nat \ {0}
    <2>1. live[r].retention \in Retentions
      BY <1>1 DEF Proceeds
    <2>2. clamp(live[r].retention) \in 1..MaxRetention /\ MaxRetention \in Nat
      BY <2>1, Clamped, Fixed DEF IInv, Kinds
    <2> QED
      BY <1>6, <2>2, SMTT(30)
  <1>12. \A j \in 1..Len(out) : out[j] = x \/ \E i \in 1..Len(deque) : out[j] = deque[i]
    BY <1>10, <1>11, Upsert, SMTT(30)
  <1>13. DequeStep
    BY <1>2, <1>7, <1>8, <1>10, <1>12, SMTT(30) DEF DequeStep
  <1> QED
    BY <1>4, <1>13

\* Not by any step of a request.
LEMMA RequestOutcomes ==
  ASSUME IInv, deployment' = deployment, NEW r \in Requests, Request(r)
  PROVE  LiveStep /\ DequeStep
  <1>1. live[r] \in LiveType /\ Proceeds(live[r]) /\ live \in [Requests -> LiveType]
    BY LiveAt DEF IInv, Kinds
  <1>2. CASE Publish(r) \/ Update(r) \/ Finalize(r)
    <2>1. PICK final \in BOOLEAN : store(r, final)
      BY <1>2 DEF Publish, Update, Finalize
    <2>2. live[r].pc \in {"arrived", "live"}
      BY <1>2 DEF Publish, Update, Finalize
    <2> QED
      BY <2>1, <2>2, StoreStep
  <1>3. CASE Arrive(r)
    <2>1. records' = records /\ \A q \in Requests : q # r => live'[q] = live[q]
      BY <1>1, <1>3 DEF Arrive
    <2>2. ~Settled(live[r])
      BY <1>1, <1>3 DEF Arrive, Settled, Proceeds
    <2> QED
      BY <2>1, <2>2 DEF LiveStep, DequeStep
  <1>4. CASE Persist(r) \/ Notify(r) \/ HandlerDropped(r)
    <2>1. PICK p : live' = [live EXCEPT ![r].pc = p]
      BY <1>4 DEF Persist, Notify, HandlerDropped
    <2>2. records' = records /\ live[r].pc # "gone"
      BY <1>4 DEF Persist, Notify, HandlerDropped
    <2>3. /\ live'[r] = [live[r] EXCEPT !.pc = p]
          /\ \A q \in Requests : q # r => live'[q] = live[q]
      BY <1>1, <2>1
    <2>4. live'[r].version = live[r].version /\ live'[r].final = live[r].final
      BY <1>1, <2>3 DEF LiveType
    <2> QED
      BY <2>2, <2>3, <2>4 DEF LiveStep, DequeStep, Settled
  <1> QED
    BY <1>2, <1>3, <1>4 DEF Request

\* A restart loads rows of the table.
LEMMA RestoredRecords ==
  ASSUME IInv, Restart
  PROVE  \A i \in 1..Len(records') : records'[i] \in db
  <1>1. PICK n \in Retentions : start(n, db)
    BY DEF Restart
  <1>2. PICK rows : rows = db
    OBVIOUS
  <1>3. PICK k \in Nat : k = clamp(n)
    <2>1. clamp(n) \in 1..MaxRetention /\ MaxRetention \in Nat
      BY Clamped, Fixed DEF IInv, Kinds
    <2> QED
      BY <2>1, SMTT(30)
  <1>4. CASE Persistent
    <2>1. PICK seq : seq = load_latest_records(rows, k)
      OBVIOUS
    <2>2. records' = seq
      BY <1>1, <1>2, <1>3, <1>4, <2>1 DEF start
    <2>3. Table(rows)
      BY <1>2, TableOfOutcomes DEF IInv, Kinds, Stored
    <2>4. seq \in Seq(prune_records(rows, k))
      BY <2>1, <2>3, LoadedRecords
    <2>5. \A i \in 1..Len(seq) : seq[i] \in prune_records(rows, k)
      BY <2>4, SMTT(30)
    <2> QED
      BY <1>2, <2>2, <2>5 DEF prune_records
  <1>5. CASE ~Persistent
    <2>1. records' = <<>>
      BY <1>1, <1>5 DEF start
    <2> QED
      BY <2>1, SMTT(30)
  <1> QED
    BY <1>4, <1>5

\* Drop marks only records in flight.
LEMMA DroppedRecords ==
  ASSUME IInv, deployment' = deployment, DropStore
  PROVE  DequeStep
  <1>1. tasks_dropped /\ process' # "running"
    BY DEF DropStore
  <1>2. /\ DOMAIN records = 1..Len(records) /\ Len(records) \in Nat
        /\ \A i \in 1..Len(records) : /\ records[i] \in Record
                                      /\ Done(records[i]) \/ Current(records[i])
    BY SMTT(30) DEF IInv, Stored
  <1>3. CASE records' = records
    BY <1>3 DEF DequeStep
  <1>4. CASE records' = [i \in DOMAIN records |-> mark_record_interrupted(records[i])]
    <2>1. Len(records') = Len(records)
      BY <1>2, <1>4, SMTT(30)
    <2>2. ASSUME NEW i \in 1..Len(records')
          PROVE  Done(records[i])'
      <3>1. PICK x \in Record : x = records[i] /\ (Done(x) \/ Current(x))
        BY <1>2, <2>1
      <3>2. PICK y : y = records'[i]
        OBVIOUS
      <3>3. y = mark_record_interrupted(x)
        BY <1>2, <1>4, <2>1, <3>1, <3>2
      <3>4. Done(y)'
        BY <1>1, <3>1, <3>3, Marked
      <3> QED
        BY <3>2, <3>4
    <2> QED
      BY <2>2 DEF DequeStep
  <1> QED
    BY <1>3, <1>4 DEF DropStore

\* So in no step.
LEMMA OutcomeStep ==
  ASSUME IInv, [Next]_vars
  PROVE  deployment' = deployment /\ LiveStep /\ DequeStep
  <1>1. deployment' = deployment
    BY DEF Next, vars
  <1>2. live' = live /\ records' = records => LiveStep /\ DequeStep
    BY NothingSettles DEF DequeStep
  <1>3. CASE UNCHANGED vars
    BY <1>1, <1>2, <1>3 DEF vars
  <1>4. CASE Restart
    <2>1. LiveStep
      BY <1>4, NothingSettles DEF Restart
    <2>2. ASSUME NEW i \in 1..Len(records')
          PROVE  Done(records[i])'
      <3>1. PICK y : y = records'[i]
        OBVIOUS
      <3>2. Done(y)
        BY <1>4, <3>1, RestoredRecords DEF IInv, Stored
      <3>3. Done(y)'
        BY <1>1, <2>1, <3>2, DoneStays
      <3> QED
        BY <3>1, <3>3
    <2> QED
      BY <1>1, <2>1, <2>2 DEF DequeStep
  <1>5. CASE Reload \/ Drop
    BY <1>1, <1>2, <1>5 DEF Reload, Drop, SendInterrupted, RequestShutdown, JoinWriter
  <1>6. CASE Crash
    <2>1. tasks_dropped /\ process' # "running" /\ records' = <<>>
      BY <1>6 DEF Crash
    <2> QED
      BY <1>1, <2>1, TasksDropped, SMTT(30) DEF DequeStep
  <1>7. CASE DropStore
    <2>1. tasks_dropped /\ process' # "running"
      BY <1>7 DEF DropStore
    <2> QED
      BY <1>1, <1>7, <2>1, TasksDropped, DroppedRecords
  <1>8. CASE Writer
    BY <1>1, <1>2, <1>8
    DEF Writer, WriterStart, WriterTop, WriterReceive, WriterTimeout, WriterDeadline, storeVars
  <1>9. CASE \E r \in Requests : Request(r)
    BY <1>1, <1>9, RequestOutcomes
  <1>10. CASE \E s \in Subscribers : Stream(s)
    BY <1>1, <1>2, <1>10
    DEF Stream, Subscribe, Snapshot, ReceiveEvent, Unsubscribe, storeVars
  <1> QED
    BY <1>3, <1>4, <1>5, <1>6, <1>7, <1>8, <1>9, <1>10 DEF Next

-----------------------------------------------------------------------------
(***************************************************************************)
(* Theorems.                                                               *)
(***************************************************************************)

\* Every variable of the store keeps its type.  The deque is never longer than a
\* clamped retention_requests (upsert_with_fifo_eviction, load_latest_records),
\* the queue to the writer and the backlog of a subscriber than their capacities.
THEOREM TypeCorrect == Spec => []TypeOK
  BY Types, Invariant, PTL

\* upsert_with_fifo_eviction and the restore at start-up leave one entry for a
\* record in the deque, and while its request runs it is what it wrote last.
THEOREM CurrentDeque == Spec => []DequeIsCurrent
  BY Deque, Invariant, PTL

\* persist_record and prune_records leave a table with one row for a record,
\* none of them in flight: LiveRecord::update never reaches the writer.
THEOREM OutcomesOnly == Spec => []TableHoldsOutcomes
  BY Outcomes, Invariant, PTL

\* Drop for InspectorStoreInner loses nothing silently: when it returns, each
\* record of the deque is a row, was given up on, or is older than as many rows
\* as a retention allows.
THEOREM SavedDeque == Spec => []DrainSavesDeque
  BY Drains, Invariant, PTL

\* inspector_events subscribes before it takes the snapshot: a client that was
\* told of no gap and has received everything knows the newest records as the
\* deque has them.
THEOREM CurrentSubscriber == Spec => []SubscriberIsCurrent
  BY Subscriber, Invariant, PTL

\* Neither persist_record, a restart, mark_record_interrupted nor an update puts
\* another outcome in the place of one that is in the table or in the deque.
THEOREM StableOutcomes == Spec => OutcomesStay
  <1>1. ASSUME IInv, IInv', [Next]_vars
        PROVE  /\ \A old \in db, new \in db' : old.id = new.id => old = new
               /\ \A i \in DOMAIN records, j \in DOMAIN records' :
                    records[i].id = records'[j].id /\ records[i].outcome # "in_flight"
                      => records[i] = records'[j]
    <2>1. deployment' = deployment /\ LiveStep /\ DequeStep
      BY <1>1, OutcomeStep
    <2>2. \A x : Done(x) => Done(x)'
      BY <2>1, DoneStays
    <2>3. \A x, y : Done(x)' /\ Done(y)' /\ x.id = y.id => x = y
      BY DEF Done
    <2>4. \A old \in db, new \in db' : old.id = new.id => old = new
      BY <1>1, <2>2, <2>3 DEF IInv, Stored
    <2>5. DOMAIN records = 1..Len(records) /\ DOMAIN records' = 1..Len(records')
      BY <1>1, SMTT(30) DEF IInv, Stored
    <2>6. ASSUME NEW i \in 1..Len(records), NEW j \in 1..Len(records'),
                 records[i].id = records'[j].id, records[i].outcome # "in_flight"
          PROVE  records[i] = records'[j]
      <3>1. PICK x : x = records[i]
        OBVIOUS
      <3>2. PICK y : y = records'[j]
        OBVIOUS
      <3>3. Done(x)
        <4>1. Done(x) \/ Current(x)
          BY <1>1, <3>1 DEF IInv, Stored
        <4> QED
          BY <2>6, <3>1, <4>1, SMTT(30) DEF Current, Done, written, outcome, Settled
      <3>4. CASE \E k \in 1..Len(records) : y = records[k]
        <4>1. PICK k \in 1..Len(records) : y = records[k]
          BY <3>4
        <4>2. k = i
          BY <1>1, <2>6, <3>1, <3>2, <4>1 DEF IInv, Stored
        <4> QED
          BY <3>1, <3>2, <4>1, <4>2
      <3>5. CASE Done(y)'
        BY <2>2, <2>3, <2>6, <3>1, <3>2, <3>3, <3>5
      <3>6. Settled(live[y.id])
        BY <2>6, <3>1, <3>2, <3>3 DEF Done
      <3> QED
        BY <2>1, <3>2, <3>4, <3>5, <3>6 DEF DequeStep
    <2> QED
      BY <2>4, <2>5, <2>6
  <1> QED
    BY <1>1, Invariant, PTL DEF Spec, OutcomesStay

=============================================================================
