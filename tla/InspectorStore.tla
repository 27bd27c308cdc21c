---------------------------- MODULE InspectorStore ----------------------------
(***************************************************************************)
(* The inspector store: the bounded deque of request records that the      *)
(* proxy's LiveRecords write to, the broadcast of every change to the      *)
(* subscribers of /_onair/inspector/events, and the optional persistence:  *)
(* a bounded queue, a writer thread, an SQLite table that outlives the     *)
(* process, the restore at start-up and the drain when the store is        *)
(* dropped.                                                                *)
(*                                                                         *)
(* A record is its id, its version (which write of its request it is) and  *)
(* whether it is in flight, final or interrupted.  Requests are numbered   *)
(* in the order of (started_at_unix_ms, record_id), in which they arrive.  *)
(***************************************************************************)
EXTENDS Keep, FiniteSets, Functions

CONSTANT Deployments  \* the servers, one of which is considered

ASSUME DeploymentsAssumption ==
  \A d \in Deployments :
    /\ {d.requests, d.updates} \subseteq Nat
    /\ d.retentions # {} /\ d.retentions \subseteq Nat \ {0}
    /\ {d.starts, d.max_retention, d.queue_capacity, d.event_capacity, d.snapshot_limit}
         \subseteq Nat \ {0}
    /\ d.persistent \in BOOLEAN /\ d.io_may_fail \in BOOLEAN

VARIABLES deployment,   \* which of the deployments this is
          process,      \* running, dropping its store, joining the writer,
                        \* stopped in order, or killed
          starts,       \* processes started so far
          retention,    \* retention_requests of the active configuration
          records,      \* the deque
          live,         \* live[r]: the request that writes record r
          interrupted,  \* what Drop has yet to hand to the writer
          queue,        \* the channel to the persistence writer
          flag,         \* the shutdown flag of the writer
          writer,       \* where the writer thread is
          db,           \* the rows of inspector_records
          unsaved,      \* history: records the persistence gave up on
          sub           \* sub[s]: the event stream of s

vars == <<deployment, process, starts, retention, records, live, interrupted,
          queue, flag, writer, db, unsaved, sub>>

storeVars == <<process, starts, retention, records, live, interrupted>>
writerVars == <<queue, flag, writer, db, unsaved>>

MaxRequests == deployment.requests          \* bound on the requests of all processes
MaxUpdates == deployment.updates            \* bound on the updates of one live record
MaxStarts == deployment.starts              \* bound on the processes started
Retentions == deployment.retentions         \* values of retention_requests in configurations
MaxRetention == deployment.max_retention    \* MAX_RETENTION_REQUESTS
Persistent == deployment.persistent         \* [inspector.persistence].enabled
QueueCapacity == deployment.queue_capacity  \* WRITER_QUEUE_CAPACITY
IoMayFail == deployment.io_may_fail         \* whether the writer may meet SQLite errors
Subscribers == deployment.subscribers       \* clients of the event stream
EventCapacity == deployment.event_capacity  \* EVENT_CHANNEL_CAPACITY
SnapshotLimit == deployment.snapshot_limit  \* snapshot_limit of an event stream

Requests == 1..MaxRequests
Versions == 1..(MaxUpdates + 2)

Record == [id : Requests, version : Versions,
           outcome : {"in_flight", "final", "interrupted"}]

\* A message to the writer; retention 0 marks PersistenceMessage::Shutdown.
Message(record, n) == [record |-> record, retention |-> n]
Shutdown == Message([id |-> 0, version |-> 0, outcome |-> "final"], 0)

\* A request has not arrived, has arrived, is between two writes of its record
\* ("live"), is inside one (record stored, to be persisted or announced), or is
\* gone.  retention is what its configuration said when it arrived.
NewRequest == [pc |-> "new", version |-> 0, retention |-> 0, final |-> FALSE]

\* An event stream: what it has yet to receive, how many events it skipped,
\* and the last thing its client was told of every record.
NoStream == [state |-> "off", pending |-> <<>>, skipped |-> 0, told |-> FALSE,
             view |-> [r \in Requests |-> {}]]

-----------------------------------------------------------------------------
(***************************************************************************)
(* The deque and the table.                                                *)
(***************************************************************************)

\* The clamp of retention_requests on its way into the store.
clamp(n) == IF n > MaxRetention THEN MaxRetention ELSE n

\* Mutant: an update of a stored record is pushed like a new one.
upsert_pushed(deque, record, n) ==
  Append(IF Len(deque) >= n THEN Tail(deque) ELSE deque, record)

\* Mutant: the deque is cut after the push, one record too late.
upsert_off_by_one(deque, record, n) ==
  IF \E i \in DOMAIN deque : deque[i].id = record.id
  THEN [i \in DOMAIN deque |-> IF deque[i].id = record.id THEN record ELSE deque[i]]
  ELSE Append(IF Len(deque) > n THEN Tail(deque) ELSE deque, record)

\* A known record is replaced in place; a new one is pushed to the back, and
\* the front makes room for it.
upsert_with_fifo_eviction(deque, record, n) ==
  IF \E i \in DOMAIN deque : deque[i].id = record.id
  THEN [i \in DOMAIN deque |-> IF deque[i].id = record.id THEN record ELSE deque[i]]
  ELSE Append(IF Len(deque) >= n THEN Tail(deque) ELSE deque, record)

\* Mutant: final records are marked as well.
mark_every_record(record) == [record EXCEPT !.outcome = "interrupted"]

mark_record_interrupted(record) ==
  IF record.outcome = "in_flight" THEN [record EXCEPT !.outcome = "interrupted"]
                                  ELSE record

\* The newest limit records.
records_limited(deque, limit) ==
  IF Len(deque) <= limit THEN deque
  ELSE SubSeq(deque, Len(deque) - limit + 1, Len(deque))

\* INSERT OR REPLACE by record_id.
insert(rows, record) == {row \in rows : row.id # record.id} \cup {record}

\* Mutant: the oldest rows are kept.
prune_newest(rows, n) ==
  {row \in rows : Cardinality({other \in rows : other.id < row.id}) < n}

\* All but the newest n rows, by (started_at_unix_ms, record_id), are deleted.
prune_records(rows, n) ==
  {row \in rows : Cardinality({other \in rows : other.id > row.id}) < n}

\* The newest n rows, oldest first.
load_latest_records(rows, n) ==
  LET latest == prune_records(rows, n) IN
  CHOOSE seq \in [1..Cardinality(latest) -> latest] :
    \A i, j \in 1..Cardinality(latest) : i < j => seq[i].id < seq[j].id

-----------------------------------------------------------------------------
(***************************************************************************)
(* Starting, reloading and stopping the process.                           *)
(***************************************************************************)

\* InspectorStore::from_config over an existing table: prune, load, and spawn
\* the writer of a new queue.
start(n, rows) ==
  /\ process' = "running"
  /\ retention' = n
  /\ interrupted' = <<>>
  /\ queue' = <<>>
  /\ flag' = FALSE
  /\ writer' = IF Persistent THEN "starting" ELSE "exited"
  /\ db' = IF Persistent THEN prune_records(rows, clamp(n)) ELSE rows
  /\ records' = IF Persistent THEN load_latest_records(rows, clamp(n)) ELSE <<>>

Init ==
  /\ deployment \in Deployments
  /\ process = "running"
  /\ starts = 1
  /\ retention \in Retentions
  /\ records = <<>>
  /\ live = [r \in Requests |-> NewRequest]
  /\ interrupted = <<>>
  /\ queue = <<>>
  /\ flag = FALSE
  /\ writer = IF Persistent THEN "starting" ELSE "exited"
  /\ db = {}
  /\ unsaved = {}
  /\ sub = [s \in Subscribers |-> NoStream]

Restart ==
  /\ process \in {"stopped", "killed"}
  /\ starts < MaxStarts
  /\ starts' = starts + 1
  /\ \E n \in Retentions : start(n, db)
  /\ UNCHANGED <<live, unsaved, sub>>

\* A reload changes what requests that arrive from now on are told.
Reload ==
  /\ process = "running"
  /\ retention' \in Retentions \ {retention}
  /\ UNCHANGED <<process, starts, records, live, interrupted, sub>>
  /\ UNCHANGED writerVars

\* The tasks of the process are gone: requests and event streams with them.
tasks_dropped ==
  /\ live' = [r \in Requests |-> IF live[r].pc = "new" THEN live[r]
                                 ELSE [live[r] EXCEPT !.pc = "gone"]]
  /\ sub' = [s \in Subscribers |-> NoStream]

\* The process is killed: only the table survives.
Crash ==
  /\ process \in {"running", "dropping", "joining"}
  /\ process' = "killed"
  /\ tasks_dropped
  /\ records' = <<>>
  /\ interrupted' = <<>>
  /\ queue' = <<>>
  /\ writer' = "exited"
  /\ UNCHANGED <<starts, retention, flag, db, unsaved>>

\* The last clone of the store is dropped with the last task, none of which is
\* inside a write then.  Drop for InspectorStoreInner marks what is in flight
\* and collects everything that is interrupted, what was restored included.
DropStore ==
  /\ process = "running"
  /\ \A r \in Requests : live[r].pc \notin {"persist", "notify"}
  /\ tasks_dropped
  /\ IF Persistent
     THEN /\ process' = "dropping"
          /\ records' = [i \in DOMAIN records |-> mark_record_interrupted(records[i])]
          /\ interrupted' = Keep(records', {x \in Range(records') : x.outcome = "interrupted"})
     ELSE /\ process' = "stopped"
          /\ UNCHANGED <<records, interrupted>>
  /\ UNCHANGED <<starts, retention>>
  /\ UNCHANGED writerVars

-----------------------------------------------------------------------------
(***************************************************************************)
(* The persistence writer.                                                 *)
(***************************************************************************)

\* InspectorPersistenceWriter::record: try_send.  The flag is not raised while
\* anyone else can call it.
writer_record(record, n) ==
  /\ IF writer # "exited" /\ Len(queue) < QueueCapacity
     THEN queue' = Append(queue, Message(record, n)) /\ UNCHANGED unsaved
     ELSE unsaved' = unsaved \cup {record} /\ UNCHANGED queue
  /\ UNCHANGED <<flag, writer, db>>

\* Drop hands the interrupted records over, one by one.
SendInterrupted ==
  /\ process = "dropping"
  /\ interrupted # <<>>
  /\ writer_record(Head(interrupted), MaxRetention)
  /\ interrupted' = Tail(interrupted)
  /\ UNCHANGED <<process, starts, retention, records, live, sub>>

\* Mutant: only the message is sent, and a full queue drops it.
request_shutdown_unflagged ==
  /\ queue' = IF writer # "exited" /\ Len(queue) < QueueCapacity
              THEN Append(queue, Shutdown) ELSE queue
  /\ UNCHANGED flag

request_shutdown ==
  /\ flag' = TRUE
  /\ queue' = IF writer # "exited" /\ Len(queue) < QueueCapacity
              THEN Append(queue, Shutdown) ELSE queue

RequestShutdown ==
  /\ process = "dropping"
  /\ interrupted = <<>>
  /\ process' = "joining"
  /\ request_shutdown
  /\ UNCHANGED <<starts, retention, records, live, interrupted>>
  /\ UNCHANGED <<writer, db, unsaved, sub>>

\* The join returns, and with it the process.
JoinWriter ==
  /\ process = "joining"
  /\ writer = "exited"
  /\ process' = "stopped"
  /\ UNCHANGED <<starts, retention, records, live, interrupted, sub>>
  /\ UNCHANGED writerVars

\* The writer opens its own connection.
WriterStart ==
  /\ writer = "starting"
  /\ \/ writer' = "top" /\ UNCHANGED <<queue, unsaved>>
     \/ /\ IoMayFail
        /\ writer' = "exited"
        /\ unsaved' = unsaved \cup {m.record : m \in Range(queue)}
        /\ queue' = <<>>
  /\ UNCHANGED storeVars
  /\ UNCHANGED <<flag, db, sub>>

\* The flag is read at the top of the loop, before the wait.
WriterTop ==
  /\ writer = "top"
  /\ writer' = IF flag THEN "draining" ELSE "receiving"
  /\ UNCHANGED storeVars
  /\ UNCHANGED <<queue, flag, db, unsaved, sub>>

\* The row is inserted and the table pruned; either statement may fail.
persist_record(m) ==
  \/ db' = prune_records(insert(db, m.record), m.retention) /\ UNCHANGED unsaved
  \/ IoMayFail /\ db' = insert(db, m.record) /\ UNCHANGED unsaved
  \/ IoMayFail /\ unsaved' = unsaved \cup {m.record} /\ UNCHANGED db

WriterReceive ==
  /\ writer \in {"receiving", "draining"}
  /\ queue # <<>>
  /\ queue' = Tail(queue)
  /\ IF Head(queue) = Shutdown THEN writer' = "draining" /\ UNCHANGED <<db, unsaved>>
     ELSE /\ writer' = IF writer = "receiving" THEN "top" ELSE writer
          /\ persist_record(Head(queue))
  /\ UNCHANGED storeVars
  /\ UNCHANGED <<flag, sub>>

WriterTimeout ==
  /\ writer = "receiving"
  /\ queue = <<>>
  /\ writer' = "top"
  /\ UNCHANGED storeVars
  /\ UNCHANGED <<queue, flag, db, unsaved, sub>>

\* The drain deadline passes: what is still queued is dropped.
WriterDeadline ==
  /\ writer = "draining"
  /\ writer' = "exited"
  /\ unsaved' = unsaved \cup {m.record : m \in Range(queue)}
  /\ queue' = <<>>
  /\ UNCHANGED storeVars
  /\ UNCHANGED <<flag, db, sub>>

Writer ==
  WriterStart \/ WriterTop \/ WriterReceive \/ WriterTimeout \/ WriterDeadline

-----------------------------------------------------------------------------
(***************************************************************************)
(* Requests writing their records.                                         *)
(***************************************************************************)

\* The record as the request last wrote it.
written(r) == [id |-> r, version |-> live[r].version,
               outcome |-> IF live[r].final THEN "final" ELSE "in_flight"]

\* Mutant: every write is persisted, not only the final one.
store_persisted(r, final) ==
  /\ live' = [live EXCEPT ![r] = [pc |-> "persist", version |-> @.version + 1,
                                  retention |-> @.retention, final |-> final]]
  /\ records' = upsert_with_fifo_eviction(records, written(r)', clamp(live[r].retention))
  /\ UNCHANGED <<process, starts, retention, interrupted, sub>>
  /\ UNCHANGED writerVars

\* The locked part of record, upsert and upsert_final.
store(r, final) ==
  /\ live' = [live EXCEPT ![r] = [pc |-> IF final THEN "persist" ELSE "notify",
                                  version |-> @.version + 1,
                                  retention |-> @.retention, final |-> final]]
  /\ records' = upsert_with_fifo_eviction(records, written(r)', clamp(live[r].retention))
  /\ UNCHANGED <<process, starts, retention, interrupted, sub>>
  /\ UNCHANGED writerVars

\* proxy_v1 takes its configuration; LiveRecord::new publishes nothing yet.
Arrive(r) ==
  /\ process = "running"
  /\ live[r].pc = "new"
  /\ \A q \in 1..(r - 1) : live[q].pc # "new"
  /\ live' = [live EXCEPT ![r] = [@ EXCEPT !.pc = "arrived", !.retention = retention]]
  /\ UNCHANGED <<process, starts, retention, records, interrupted, sub>>
  /\ UNCHANGED writerVars

\* LiveRecord::publish_initial, or InspectorStore::record for a request that
\* is refused before it is routed.
Publish(r) ==
  /\ live[r].pc = "arrived"
  /\ \E final \in BOOLEAN : store(r, final)

\* LiveRecord::update and LiveRecord::finalize.
Update(r) ==
  /\ live[r].pc = "live"
  /\ live[r].version <= MaxUpdates
  /\ store(r, FALSE)

Finalize(r) ==
  /\ live[r].pc = "live"
  /\ store(r, TRUE)

\* The rest of record and upsert_final, after the lock is released: the writer
\* is handed the final record ...
Persist(r) ==
  /\ live[r].pc = "persist"
  /\ live' = [live EXCEPT ![r].pc = "notify"]
  /\ IF Persistent THEN writer_record(written(r), clamp(live[r].retention))
                   ELSE UNCHANGED writerVars
  /\ UNCHANGED <<process, starts, retention, records, interrupted, sub>>

\* tokio's broadcast channel: a receiver that is EventCapacity events behind
\* is overtaken, and told how many it missed before its next event.
broadcast(stream, record) ==
  IF stream.state = "off" THEN stream
  ELSE IF Len(stream.pending) < EventCapacity
       THEN [stream EXCEPT !.pending = Append(@, record)]
       ELSE [stream EXCEPT !.pending = Append(Tail(@), record), !.skipped = @ + 1]

\* ... and, last, every subscriber is sent the record.
Notify(r) ==
  /\ live[r].pc = "notify"
  /\ live' = [live EXCEPT ![r].pc = IF live[r].final THEN "gone" ELSE "live"]
  /\ sub' = [s \in Subscribers |-> broadcast(sub[s], written(r))]
  /\ UNCHANGED <<process, starts, retention, records, interrupted>>
  /\ UNCHANGED writerVars

\* The handler's future is dropped between two writes.
HandlerDropped(r) ==
  /\ live[r].pc \in {"arrived", "live"}
  /\ live' = [live EXCEPT ![r].pc = "gone"]
  /\ UNCHANGED <<process, starts, retention, records, interrupted, sub>>
  /\ UNCHANGED writerVars

Request(r) ==
  \/ Arrive(r) \/ Publish(r) \/ Update(r) \/ Finalize(r)
  \/ Persist(r) \/ Notify(r) \/ HandlerDropped(r)

-----------------------------------------------------------------------------
(***************************************************************************)
(* Event streams.                                                          *)
(***************************************************************************)

\* The client learns the records of a sequence, later ones last.
shown(view, recs) ==
  [r \in Requests |-> IF \E i \in DOMAIN recs : recs[i].id = r
                      THEN {recs[CHOOSE i \in DOMAIN recs : recs[i].id = r]}
                      ELSE view[r]]

\* inspector_events subscribes first ...
Subscribe(s) ==
  /\ process = "running"
  /\ sub[s].state = "off"
  /\ sub' = [sub EXCEPT ![s] = [NoStream EXCEPT !.state = "subscribed"]]
  /\ UNCHANGED storeVars
  /\ UNCHANGED writerVars

\* ... and then takes the snapshot that the stream starts with.
Snapshot(s) ==
  /\ sub[s].state = "subscribed"
  /\ sub' = [sub EXCEPT ![s] =
               [sub[s] EXCEPT !.state = "live",
                              !.view = shown(sub[s].view,
                                             records_limited(records, SnapshotLimit))]]
  /\ UNCHANGED storeVars
  /\ UNCHANGED writerVars

\* Mutant: RecvError::Lagged is swallowed.
ReceiveEvent_unlagged(s) ==
  /\ sub[s].state = "live"
  /\ sub[s].pending # <<>>
  /\ sub' = [sub EXCEPT ![s] =
               [sub[s] EXCEPT !.skipped = 0, !.pending = Tail(sub[s].pending),
                              !.view = shown(sub[s].view, <<Head(sub[s].pending)>>)]]
  /\ UNCHANGED storeVars
  /\ UNCHANGED writerVars

\* receiver.recv: RecvError::Lagged, or the next event.
ReceiveEvent(s) ==
  /\ sub[s].state = "live"
  /\ sub[s].pending # <<>>
  /\ sub' = [sub EXCEPT ![s] =
               IF sub[s].skipped > 0
               THEN [sub[s] EXCEPT !.skipped = 0, !.told = TRUE]
               ELSE [sub[s] EXCEPT !.pending = Tail(sub[s].pending),
                                   !.view = shown(sub[s].view, <<Head(sub[s].pending)>>)]]
  /\ UNCHANGED storeVars
  /\ UNCHANGED writerVars

\* The client closes its stream.
Unsubscribe(s) ==
  /\ sub[s].state = "live"
  /\ sub' = [sub EXCEPT ![s] = NoStream]
  /\ UNCHANGED storeVars
  /\ UNCHANGED writerVars

Stream(s) == Subscribe(s) \/ Snapshot(s) \/ ReceiveEvent(s) \/ Unsubscribe(s)

-----------------------------------------------------------------------------
Drop == SendInterrupted \/ RequestShutdown \/ JoinWriter

Next ==
  /\ \/ Restart \/ Reload \/ Crash \/ DropStore
     \/ Drop
     \/ Writer
     \/ \E r \in Requests : Request(r)
     \/ \E s \in Subscribers : Stream(s)
  /\ UNCHANGED deployment

Spec == Init /\ [][Next]_vars

\* The thread that drops the store and the writer thread are scheduled, and
\* the clock reaches the drain deadline.
FairSpec == /\ Spec
            /\ WF_vars(Drop /\ UNCHANGED deployment)
            /\ WF_vars(Writer /\ UNCHANGED deployment)

-----------------------------------------------------------------------------
(***************************************************************************)
(* Properties.                                                             *)
(***************************************************************************)

\* Every variable has its type; the deque, the queue to the writer and the
\* backlog of a subscriber stay within their bounds.
TypeOK ==
  /\ process \in {"running", "dropping", "joining", "stopped", "killed"}
  /\ starts \in 1..MaxStarts
  /\ retention \in Retentions
  /\ records \in Seq(Record) /\ \E n \in Retentions : Len(records) <= clamp(n)
  /\ live \in [Requests -> [pc : {"new", "arrived", "live", "persist", "notify", "gone"},
                            version : {0} \cup Versions, retention : {0} \cup Retentions,
                            final : BOOLEAN]]
  /\ interrupted \in Seq(Record)
  /\ Len(queue) <= QueueCapacity
  /\ \A m \in Range(queue) :
       m = Shutdown \/ (m.record \in Record /\ m.retention \in 1..MaxRetention)
  /\ flag \in BOOLEAN
  /\ writer \in {"starting", "top", "receiving", "draining", "exited"}
  /\ db \subseteq Record
  /\ unsaved \subseteq Record \cup {Shutdown.record}
  /\ \A s \in Subscribers :
       /\ sub[s].state \in {"off", "subscribed", "live"}
       /\ sub[s].pending \in Seq(Record) /\ Len(sub[s].pending) <= EventCapacity
       /\ sub[s].skipped \in Nat /\ sub[s].told \in BOOLEAN
       /\ \A r \in Requests : sub[s].view[r] \subseteq Record

\* A record is in the deque once, and a reader finds it as its request last
\* wrote it: no write of one request is undone by a write of another.
DequeIsCurrent ==
  \A i \in DOMAIN records :
    /\ \A j \in DOMAIN records : records[i].id = records[j].id => i = j
    /\ process = "running" /\ live[records[i].id].pc \notin {"new", "gone"}
         => records[i] = written(records[i].id)

\* The table has one row for a record, and never a request in flight: what a
\* crashed process had not finished is not restored as if it still ran.
TableHoldsOutcomes ==
  \A row \in db :
    /\ row.outcome # "in_flight"
    /\ \A other \in db : row.id = other.id => row = other

\* Once written, the outcome of a request is not replaced by another one,
\* neither in the table nor by a restart or a drop in the deque.
OutcomesStay ==
  [][ /\ \A old \in db, new \in db' : old.id = new.id => old = new
      /\ \A i \in DOMAIN records, j \in DOMAIN records' :
           records[i].id = records'[j].id /\ records[i].outcome # "in_flight"
             => records[i] = records'[j] ]_vars

\* When the store has been dropped in order, a record of its deque is missing
\* from the table only if the persistence gave up on it (full queue, drain
\* deadline, SQLite error), or if the table holds at least as many newer
\* records as it may retain.
DrainSavesDeque ==
  Persistent /\ process = "stopped" =>
    \A i \in DOMAIN records :
      \/ records[i] \in db
      \/ records[i] \in unsaved
      \/ \E n \in Retentions :
           Cardinality({row \in db : row.id > records[i].id}) >= clamp(n)

\* A subscriber that was told of no gap and has nothing left to receive knows
\* every record of the snapshot's range as the deque has it, unless the write
\* is just being announced.
SubscriberIsCurrent ==
  \A s \in Subscribers :
    sub[s].state = "live" /\ sub[s].pending = <<>> /\ ~sub[s].told =>
      \A record \in Range(records_limited(records, SnapshotLimit)) :
        live[record.id].pc \in {"persist", "notify"} \/ sub[s].view[record.id] = {record}

\* Dropping the store ends: the writer is told even when its queue is full.
DropReturns == process = "dropping" ~> process \in {"stopped", "killed"}

\* What a test says of a drained store: "Evicted records must not appear in
\* the restored file."
EvictedStayOut ==
  [][ process = "stopped" /\ process' = "running" /\ unsaved = {} =>
        \A i \in DOMAIN records' :
          \E j \in DOMAIN records : records[j].id = records'[i].id ]_vars
=============================================================================
