---------------------------- MODULE StreamCapture ----------------------------
(***************************************************************************)
(* The streaming debug capture of one response: on each side of the proxy  *)
(* a bounded channel, a writer thread that turns events into lines of an   *)
(* NDJSON file, and the timings they share.  The stream loop records       *)
(* without ever blocking; when the stream ends, Drop for StreamMetrics     *)
(* finishes the upstream side, then the client side, and puts both         *)
(* summaries into the metadata of the debug capture.                       *)
(*                                                                         *)
(* An event is the number of its recording on its side.  Time is left out: *)
(* a deadline passes whenever the writer is waiting on it.                 *)
(***************************************************************************)
EXTENDS Integers, Sequences

CONSTANTS MaxEvents,        \* bound on the events recorded on a side
          ChannelCapacity,  \* CHANNEL_CAPACITY
          OpenMayFail,      \* whether opening the file can fail
          WriteMayFail      \* whether writing a line can fail

ASSUME CapacityAssumption == ChannelCapacity \in Nat \ {0}
ASSUME EventsAssumption == MaxEvents \in Nat
ASSUME FailureAssumption == OpenMayFail \in BOOLEAN /\ WriteMayFail \in BOOLEAN

VARIABLES pc,         \* the stream loop and the drop of its StreamMetrics
          recorded,   \* recorded[s]: events handed to record_*
          queue,      \* queue[s]: the channel
          shutdown,   \* shutdown[s]: the flag the writer polls
          writer,     \* writer[s]: where the writer thread is
          file,       \* file[s]: the lines of the NDJSON file
          timings,    \* timings[s]: the shared StreamTimings
          summary,    \* summary[s]: what finish returned, for metadata.json
          cut         \* history: events left behind at the drain deadline

vars == <<pc, recorded, queue, shutdown, writer, file, timings, summary, cut>>

Sides == {"upstream_response", "client_response"}

\* The writer has yet to open its file, is at the top of its loop, waits in
\* recv_timeout, waits with a drain deadline, has no file and discards what it
\* receives, or has returned.
WriterStates == {"opening", "top", "receiving", "draining", "discarding", "exited"}

Timings == [event_count : Nat, dropped_events : Nat, truncated : BOOLEAN,
            completed : BOOLEAN]

NewTimings == [event_count |-> 0, dropped_events |-> 0, truncated |-> FALSE,
               completed |-> FALSE]

\* The owner streams, joins a writer in finish, or is done.
Pcs == {"streaming", "done"} \cup Sides

\* Every variable has its type, and the channel never exceeds its capacity.
TypeOK ==
  /\ pc \in Pcs
  /\ recorded \in [Sides -> 0..MaxEvents]
  /\ queue \in [Sides -> Seq(1..MaxEvents)]
  /\ \A s \in Sides : Len(queue[s]) <= ChannelCapacity
  /\ shutdown \in [Sides -> BOOLEAN]
  /\ writer \in [Sides -> WriterStates]
  /\ file \in [Sides -> Seq(1..MaxEvents)]
  /\ timings \in [Sides -> Timings]
  /\ summary \in [Sides -> SUBSET Timings]
  /\ cut \in [Sides -> Nat]

\* StreamCapture::new on both sides; the writers are spawned.
Init ==
  /\ pc = "streaming"
  /\ recorded = [s \in Sides |-> 0]
  /\ queue = [s \in Sides |-> <<>>]
  /\ shutdown = [s \in Sides |-> FALSE]
  /\ writer = [s \in Sides |-> "opening"]
  /\ file = [s \in Sides |-> <<>>]
  /\ timings = [s \in Sides |-> NewTimings]
  /\ summary = [s \in Sides |-> {}]
  /\ cut = [s \in Sides |-> 0]

-----------------------------------------------------------------------------
(***************************************************************************)
(* The stream loop and Drop for StreamMetrics.                             *)
(***************************************************************************)

\* A lost event: counted, and the capture marked truncated.
Overflow(t) == [t EXCEPT !.dropped_events = @ + 1, !.truncated = TRUE]

\* Mutant: the channel takes one event more than its capacity.
send_unbounded(s) ==
  LET event == recorded[s] + 1
      gone == writer[s] = "exited"
      full == Len(queue[s]) > ChannelCapacity IN
  /\ recorded' = [recorded EXCEPT ![s] = event]
  /\ queue' = [queue EXCEPT ![s] = IF gone \/ full THEN @ ELSE Append(@, event)]
  /\ timings' = [timings EXCEPT ![s] = IF full /\ ~gone THEN Overflow(@) ELSE @]

\* Mutant: an overflow is counted but the capture not marked.
send_unmarked(s) ==
  LET event == recorded[s] + 1
      gone == writer[s] = "exited"
      full == Len(queue[s]) >= ChannelCapacity IN
  /\ recorded' = [recorded EXCEPT ![s] = event]
  /\ queue' = [queue EXCEPT ![s] = IF gone \/ full THEN @ ELSE Append(@, event)]
  /\ timings' = [timings EXCEPT ![s].dropped_events = IF full /\ ~gone THEN @ + 1 ELSE @]

\* Mutant: a full channel makes room by giving up its oldest event's place.
send_newest(s) ==
  LET event == recorded[s] + 1
      gone == writer[s] = "exited"
      full == Len(queue[s]) >= ChannelCapacity IN
  /\ recorded' = [recorded EXCEPT ![s] = event]
  /\ queue' = [queue EXCEPT ![s] = IF gone THEN @
                                   ELSE IF full THEN <<event>> \o Tail(@)
                                   ELSE Append(@, event)]
  /\ timings' = [timings EXCEPT ![s] = IF full /\ ~gone THEN Overflow(@) ELSE @]

\* StreamCaptureHandle::send, behind every record_* method.  An event that finds
\* the channel full is counted; one that finds the writer gone is in no count.
send(s) ==
  LET event == recorded[s] + 1
      gone == writer[s] = "exited"
      full == Len(queue[s]) >= ChannelCapacity IN
  /\ recorded' = [recorded EXCEPT ![s] = event]
  /\ queue' = [queue EXCEPT ![s] = IF gone \/ full THEN @ ELSE Append(@, event)]
  /\ timings' = [timings EXCEPT ![s] = IF full /\ ~gone THEN Overflow(@) ELSE @]

Record(s) ==
  /\ pc = "streaming"
  /\ recorded[s] < MaxEvents
  /\ send(s)
  /\ UNCHANGED <<pc, shutdown, writer, file, summary, cut>>

\* The stream is over or was dropped: the loop's handles go first, then Drop
\* for StreamMetrics calls finish on the upstream side.
StreamEnds ==
  /\ pc = "streaming"
  /\ pc' = "upstream_response"
  /\ shutdown' = [shutdown EXCEPT !["upstream_response"] = TRUE]
  /\ UNCHANGED <<recorded, queue, writer, file, timings, summary, cut>>

\* Mutant: the summary is taken before the writer is joined.
finish_unjoined(s) ==
  /\ pc = s
  /\ summary' = [summary EXCEPT ![s] = {timings[s]}]

\* StreamCapture::finish: the join returns once the writer has, and the timings
\* are copied.  The capture's own handle, a sender of the channel, goes last, so
\* no writer that finish waits for sees RecvTimeoutError::Disconnected.
finish(s) ==
  /\ pc = s
  /\ writer[s] = "exited"
  /\ summary' = [summary EXCEPT ![s] = {timings[s]}]

FinishUpstream ==
  /\ finish("upstream_response")
  /\ pc' = "client_response"
  /\ shutdown' = [shutdown EXCEPT !["client_response"] = TRUE]
  /\ UNCHANGED <<recorded, queue, writer, file, timings, cut>>

FinishClient ==
  /\ finish("client_response")
  /\ pc' = "done"
  /\ UNCHANGED <<recorded, queue, shutdown, writer, file, timings, cut>>

-----------------------------------------------------------------------------
(***************************************************************************)
(* The writer thread.                                                      *)
(***************************************************************************)

OwnerUnchanged == UNCHANGED <<pc, recorded, shutdown, summary>>

\* open_capture_file; without a file the writer only empties the channel.
Open(s) ==
  /\ writer[s] = "opening"
  /\ \/ writer' = [writer EXCEPT ![s] = "top"]
     \/ OpenMayFail /\ writer' = [writer EXCEPT ![s] = "discarding"]
  /\ OwnerUnchanged
  /\ UNCHANGED <<queue, file, timings, cut>>

\* Mutant: the writer never looks at the flag.
LoopTop_deaf(s) ==
  /\ writer[s] = "top"
  /\ writer' = [writer EXCEPT ![s] = "receiving"]
  /\ OwnerUnchanged
  /\ UNCHANGED <<queue, file, timings, cut>>

\* The flag is read once per iteration, before the wait.
LoopTop(s) ==
  /\ writer[s] = "top"
  /\ writer' = [writer EXCEPT ![s] = IF shutdown[s] THEN "draining" ELSE "receiving"]
  /\ OwnerUnchanged
  /\ UNCHANGED <<queue, file, timings, cut>>

\* Mutant: a line that cannot be written is forgotten.
write_event_silent(s) ==
  \/ file' = [file EXCEPT ![s] = Append(@, Head(queue[s]))] /\ UNCHANGED timings
  \/ WriteMayFail /\ UNCHANGED <<file, timings>>

\* A line is written, or is counted as lost.
write_event(s) ==
  \/ file' = [file EXCEPT ![s] = Append(@, Head(queue[s]))] /\ UNCHANGED timings
  \/ WriteMayFail /\ timings' = [timings EXCEPT ![s] = Overflow(@)] /\ UNCHANGED file

\* recv_timeout returns an event, with or without a drain deadline.
Receive(s) ==
  /\ writer[s] \in {"receiving", "draining"}
  /\ queue[s] # <<>>
  /\ queue' = [queue EXCEPT ![s] = Tail(@)]
  /\ write_event(s)
  /\ writer' = [writer EXCEPT ![s] = IF @ = "receiving" THEN "top" ELSE @]
  /\ OwnerUnchanged
  /\ UNCHANGED cut

\* The loop breaks: flush, and complete the timings.  The receiver goes with the
\* thread, and with it what is still in the channel.
exit(s) ==
  /\ writer' = [writer EXCEPT ![s] = "exited"]
  /\ timings' = [timings EXCEPT ![s] = [@ EXCEPT !.completed = TRUE, !.event_count = Len(file[s])]]
  /\ queue' = [queue EXCEPT ![s] = <<>>]
  /\ cut' = [cut EXCEPT ![s] = Len(queue[s])]

\* Mutant: a timeout breaks the loop, whether or not the writer drains.
ReceiveTimeout_breaking(s) ==
  /\ writer[s] = "receiving"
  /\ queue[s] = <<>>
  /\ exit(s)
  /\ OwnerUnchanged
  /\ UNCHANGED file

\* RUNNING_RECV_TIMEOUT passes: back to the top of the loop.
ReceiveTimeout(s) ==
  /\ writer[s] = "receiving"
  /\ queue[s] = <<>>
  /\ writer' = [writer EXCEPT ![s] = "top"]
  /\ OwnerUnchanged
  /\ UNCHANGED <<queue, file, timings, cut>>

\* The drain deadline passes, whatever is still in the channel.
DrainDeadline(s) ==
  /\ writer[s] = "draining"
  /\ exit(s)
  /\ OwnerUnchanged
  /\ UNCHANGED file

\* A writer without a file receives until every sender is gone.  finish holds one
\* while it waits for the writer (finish), so the writer only ever discards.
Discard(s) ==
  /\ writer[s] = "discarding"
  /\ queue[s] # <<>>
  /\ queue' = [queue EXCEPT ![s] = Tail(@)]
  /\ OwnerUnchanged
  /\ UNCHANGED <<writer, file, timings, cut>>

Writer(s) ==
  \/ Open(s) \/ LoopTop(s) \/ Receive(s) \/ ReceiveTimeout(s)
  \/ DrainDeadline(s) \/ Discard(s)

Next ==
  \/ \E s \in Sides : Record(s) \/ Writer(s)
  \/ StreamEnds \/ FinishUpstream \/ FinishClient

Spec == Init /\ [][Next]_vars

\* The operating system schedules the writers and the thread that joins them,
\* and the clock reaches a deadline.  Nothing is assumed of the stream itself.
FairSpec ==
  /\ Spec
  /\ WF_vars(FinishUpstream \/ FinishClient)
  /\ \A s \in Sides : WF_vars(Writer(s))

-----------------------------------------------------------------------------
(***************************************************************************)
(* Properties.                                                             *)
(***************************************************************************)

\* A summary in the metadata is the writer's last word: it was taken after the
\* writer completed the timings, and counts exactly the lines of the file.
SummaryMatchesFile ==
  \A s \in Sides : \A t \in summary[s] :
    t = timings[s] /\ t.completed /\ t.event_count = Len(file[s])

\* As long as the writer has its file, each recorded event is a line, waits in
\* the channel, is counted in dropped_events, or was in the channel when the
\* drain deadline passed (cut): never two of these.  The last are in no count of
\* the program, so the sum is exact only with them.
EveryEventAccounted ==
  \A s \in Sides :
    writer[s] # "discarding" =>
      recorded[s] = Len(file[s]) + Len(queue[s]) + timings[s].dropped_events + cut[s]

\* What a summary leaves out: its event_count and dropped_events together never
\* exceed the events recorded, and fall short of them by at most one full
\* channel, the most that writer_loop abandons at its drain deadline.
SummaryLossBounded ==
  \A s \in Sides : \A t \in summary[s] :
    recorded[s] - (t.event_count + t.dropped_events) \in 0..ChannelCapacity

\* A summary that does not say truncated stands for a file with every event
\* recorded, unless the drain deadline cut the channel off.
UntruncatedIsComplete ==
  \A s \in Sides : \A t \in summary[s] :
    ~t.truncated /\ cut[s] = 0 => file[s] = [n \in 1..recorded[s] |-> n]

\* The file lists events in the order they were recorded, whatever is lost in
\* between, and the channel continues that order.
LinesInOrder ==
  \A s \in Sides :
    LET lines == file[s] \o queue[s] IN
    \A m, n \in DOMAIN lines : m < n => lines[m] < lines[n]

\* A response that has ended is held up by its captures for at most their
\* drain budgets, unless a writer has no file.
FinishReturnsWithFiles ==
  pc = "upstream_response" ~> pc = "done" \/ \E s \in Sides : writer[s] = "discarding"

\* finish returns: a response that has ended is not held up by its captures
\* for ever ("drains with a bounded budget, joins the writer").
FinishReturns == pc = "upstream_response" ~> pc = "done"

=============================================================================
