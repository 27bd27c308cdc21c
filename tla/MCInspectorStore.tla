--------------------------- MODULE MCInspectorStore ---------------------------
(***************************************************************************)
(* The inspector store in small deployments.                               *)
(***************************************************************************)
EXTENDS InspectorStore

\* Two lives of a process with evictions, a queue of one and SQLite errors.
Durable ==
  [requests |-> 3, updates |-> 0, starts |-> 2, retentions |-> {2}, max_retention |-> 3,
   persistent |-> TRUE, queue_capacity |-> 1, io_may_fail |-> TRUE,
   subscribers |-> {}, event_capacity |-> 1, snapshot_limit |-> 1]

\* An event stream under a retention that changes, and is once above its limit.
Watched ==
  [requests |-> 2, updates |-> 1, starts |-> 1, retentions |-> {1, 3}, max_retention |-> 2,
   persistent |-> FALSE, queue_capacity |-> 1, io_may_fail |-> FALSE,
   subscribers |-> {"s"}, event_capacity |-> 2, snapshot_limit |-> 1]

\* A queue that is never full and a disk that never fails.
Reliable == [Durable EXCEPT !.queue_capacity = 3, !.io_may_fail = FALSE]

MCDeployments == {Durable, Watched}
ReliableDeployments == {Reliable}
=============================================================================
