-------------------------- MODULE StreamCaptureProofs --------------------------
(***************************************************************************)
(* Theorems about StreamCapture, for any number of events, any capacity of *)
(* the channels and any failures of files.                                 *)
(***************************************************************************)
EXTENDS StreamCapture, SequenceTheorems, TLAPS

\* Zenon proves the steps that name no prover.
USE ZenonT(20)

-----------------------------------------------------------------------------
(***************************************************************************)
(* A file f of a lines and a channel q of b events, on a side that has     *)
(* recorded n events.                                                      *)
(***************************************************************************)

\* Events are in order: in the file, in the channel, the file before the
\* channel, and none is newer than the last one recorded.
InOrder(f, a, q, b, n) ==
  /\ \A i \in 1..a : f[i] \in 1..n
  /\ \A i \in 1..b : q[i] \in 1..n
  /\ \A i, j \in 1..a : i < j => f[i] < f[j]
  /\ \A i, j \in 1..b : i < j => q[i] < q[j]
  /\ \A i \in 1..a, j \in 1..b : f[i] < q[j]

\* Nothing is missing: event i is line i, and the channel continues the file.
Gapless(f, a, q, b) ==
  /\ \A i \in 1..a : f[i] = i
  /\ \A i \in 1..b : q[i] = a + i

\* The channel takes the next event.
LEMMA SendLines ==
  ASSUME NEW f, NEW a \in Nat, NEW q, NEW b \in Nat, NEW n \in Nat, NEW p,
         \A i \in 1..b : p[i] = q[i], p[b + 1] = n + 1
  PROVE  /\ InOrder(f, a, q, b, n) => InOrder(f, a, p, b + 1, n + 1)
         /\ Gapless(f, a, q, b) /\ a + b = n => Gapless(f, a, p, b + 1)
  BY SMTT(30) DEF InOrder, Gapless

\* The next event is lost.
LEMMA LoseLines ==
  ASSUME NEW f, NEW a \in Nat, NEW q, NEW b \in Nat, NEW n \in Nat,
         InOrder(f, a, q, b, n)
  PROVE  InOrder(f, a, q, b, n + 1)
  BY SMTT(30) DEF InOrder

\* The writer takes an event from the channel, and may write it.
LEMMA ReceiveLines ==
  ASSUME NEW f, NEW a \in Nat, NEW q, NEW b \in Nat \ {0}, NEW n \in Nat, NEW g, NEW p,
         \A i \in 1..(b - 1) : p[i] = q[i + 1],
         \A i \in 1..a : g[i] = f[i], g[a + 1] = q[1]
  PROVE  /\ InOrder(f, a, q, b, n) => InOrder(f, a, p, b - 1, n)
         /\ InOrder(f, a, q, b, n) => InOrder(g, a + 1, p, b - 1, n)
         /\ Gapless(f, a, q, b) => Gapless(g, a + 1, p, b - 1)
  BY SMTT(30) DEF InOrder, Gapless

\* The channel goes with the writer, whatever it holds.
LEMMA ExitLines ==
  ASSUME NEW f, NEW a \in Nat, NEW q, NEW b \in Nat, NEW n \in Nat, NEW p
  PROVE  /\ InOrder(f, a, q, b, n) => InOrder(f, a, p, 0, n)
         /\ Gapless(f, a, q, b) => Gapless(f, a, p, 0)
  <1>1. \A i \in 1..0 : FALSE
    BY SMTT(30)
  <1> QED
    BY <1>1 DEF InOrder, Gapless

-----------------------------------------------------------------------------
(***************************************************************************)
(* A side as its writer w, the number n of its events, its file f, its     *)
(* channel q, the number c of events cut off and its timings t.            *)
(***************************************************************************)

\* Every event is accounted for, in order, and none is missing unless one was
\* counted as dropped, which marks the capture.
SideLines(w, n, f, q, c, t) ==
  /\ InOrder(f, Len(f), q, Len(q), n)
  /\ t.dropped_events # 0 => t.truncated
  /\ w # "discarding" =>
       /\ n = Len(f) + Len(q) + t.dropped_events + c
       /\ t.dropped_events = 0 => Gapless(f, Len(f), q, Len(q))

\* StreamCaptureHandle::send counts one lost event and marks the timings truncated.
LEMMA OverflowCounts ==
  ASSUME NEW t \in Timings
  PROVE  /\ t.dropped_events \in Nat
         /\ Overflow(t) \in Timings
         /\ Overflow(t).dropped_events = t.dropped_events + 1
         /\ Overflow(t).truncated
         /\ Overflow(t).completed = t.completed
         /\ Overflow(t).event_count = t.event_count
  <1>1. t.dropped_events \in Nat
    BY DEF Timings
  <1> DEFINE d == t.dropped_events + 1
  <1>2. Overflow(t) = [t EXCEPT !.dropped_events = d, !.truncated = TRUE]
    BY DEF Overflow
  <1>3. d \in Nat
    BY <1>1, SMTT(30)
  <1> HIDE DEF d
  <1>4. Overflow(t) = [event_count |-> t.event_count, dropped_events |-> d,
                       truncated |-> TRUE, completed |-> t.completed]
    BY <1>2 DEF Timings
  <1> QED
    BY <1>1, <1>3, <1>4, SMTT(30) DEF Timings, d

\* What the timings of a writer that has returned say.
LEMMA CompletedTimings ==
  ASSUME NEW t \in Timings, NEW n \in Nat, NEW u,
         u = [t EXCEPT !.completed = TRUE, !.event_count = n]
  PROVE  u = [event_count |-> n, dropped_events |-> t.dropped_events,
              truncated |-> t.truncated, completed |-> TRUE]
  BY DEF Timings

\* send keeps it, whether or not the channel has room.
LEMMA SendSide ==
  ASSUME NEW w, NEW n \in Nat, NEW S, NEW f \in Seq(S), NEW q \in Seq(S), NEW t \in Timings,
         n + 1 \in S, SideLines(w, n, f, q, 0, t)
  PROVE  /\ SideLines(w, n + 1, f, Append(q, n + 1), 0, t)
         /\ SideLines(w, n + 1, f, q, 0, Overflow(t))
  <1> DEFINE d == t.dropped_events
             p == Append(q, n + 1)
             u == Overflow(t)
  <1>1. d \in Nat /\ u.dropped_events = d + 1 /\ u.truncated
    BY OverflowCounts
  <1>2. Len(f) \in Nat /\ Len(q) \in Nat
    BY SMTT(30)
  <1>3. /\ Len(p) = Len(q) + 1
        /\ \A i \in 1..Len(q) : p[i] = q[i]
        /\ p[Len(q) + 1] = n + 1
    BY AppendProperties, SMTT(30)
  <1>4. /\ InOrder(f, Len(f), q, Len(q), n)
        /\ d # 0 => t.truncated
        /\ w # "discarding" =>
             n = Len(f) + Len(q) + d + 0 /\ (d = 0 => Gapless(f, Len(f), q, Len(q)))
    BY DEF SideLines
  <1> HIDE DEF d, p, u
  <1>5. /\ InOrder(f, Len(f), p, Len(p), n + 1)
        /\ w # "discarding" /\ d = 0 => Gapless(f, Len(f), p, Len(p))
    BY <1>1, <1>2, <1>3, <1>4, SendLines, SMTT(30)
  <1>6. InOrder(f, Len(f), q, Len(q), n + 1)
    BY <1>2, <1>4, LoseLines
  <1>7. SideLines(w, n + 1, f, p, 0, t)
    <2>1. w # "discarding" => n + 1 = Len(f) + Len(p) + d + 0
      BY <1>1, <1>2, <1>3, <1>4, SMTT(30)
    <2> QED
      BY <1>4, <1>5, <2>1 DEF SideLines, d
  <1>8. SideLines(w, n + 1, f, q, 0, u)
    BY <1>1, <1>2, <1>4, <1>6, SMTT(30) DEF SideLines
  <1> QED
    BY <1>7, <1>8 DEF p, u

\* The writer takes an event and writes it, counts it as lost, or discards it.
LEMMA ReceiveSide ==
  ASSUME NEW w, NEW v, NEW n \in Nat, NEW S, NEW f \in Seq(S), NEW q \in Seq(S),
         NEW c \in Nat, NEW t \in Timings, q # <<>>, SideLines(w, n, f, q, c, t),
         v = "discarding" <=> w = "discarding"
  PROVE  /\ w # "discarding" => SideLines(v, n, Append(f, Head(q)), Tail(q), c, t)
         /\ w # "discarding" => SideLines(v, n, f, Tail(q), c, Overflow(t))
         /\ w = "discarding" => SideLines(v, n, f, Tail(q), c, t)
  <1> DEFINE d == t.dropped_events
             p == Tail(q)
             g == Append(f, Head(q))
             u == Overflow(t)
  <1>1. d \in Nat /\ u.dropped_events = d + 1 /\ u.truncated
    BY OverflowCounts
  <1>2. Len(f) \in Nat /\ Len(q) \in Nat \ {0}
    BY EmptySeq, SMTT(30)
  <1>3. /\ Len(p) = Len(q) - 1
        /\ \A i \in 1..(Len(q) - 1) : p[i] = q[i + 1]
    BY HeadTailProperties
  <1>4. /\ Len(g) = Len(f) + 1
        /\ \A i \in 1..Len(f) : g[i] = f[i]
        /\ g[Len(f) + 1] = q[1]
    BY AppendProperties, HeadTailProperties, SMTT(30)
  <1>5. /\ InOrder(f, Len(f), q, Len(q), n)
        /\ d # 0 => t.truncated
        /\ w # "discarding" =>
             n = Len(f) + Len(q) + d + c /\ (d = 0 => Gapless(f, Len(f), q, Len(q)))
    BY DEF SideLines
  <1> HIDE DEF d, p, g, u
  <1>6. /\ InOrder(f, Len(f), p, Len(p), n)
        /\ InOrder(g, Len(g), p, Len(p), n)
        /\ w # "discarding" /\ d = 0 => Gapless(g, Len(g), p, Len(p))
    <2> DEFINE a == Len(f)
               b == Len(q)
    <2>1. a \in Nat /\ b \in Nat \ {0} /\ Len(p) = b - 1 /\ Len(g) = a + 1
      BY <1>2, <1>3, <1>4
    <2> HIDE DEF a, b
    <2>2. /\ InOrder(f, a, q, b, n) => InOrder(f, a, p, b - 1, n)
          /\ InOrder(f, a, q, b, n) => InOrder(g, a + 1, p, b - 1, n)
          /\ Gapless(f, a, q, b) => Gapless(g, a + 1, p, b - 1)
      BY <1>3, <1>4, <2>1, ReceiveLines DEF a, b
    <2> QED
      BY <1>5, <2>1, <2>2 DEF a, b
  <1>7. w # "discarding" => SideLines(v, n, g, p, c, t)
    BY <1>1, <1>2, <1>3, <1>4, <1>5, <1>6, SMTT(30) DEF SideLines, d
  <1>8. w # "discarding" => SideLines(v, n, f, p, c, u)
    BY <1>1, <1>2, <1>3, <1>5, <1>6, SMTT(30) DEF SideLines
  <1>9. w = "discarding" => SideLines(v, n, f, p, c, t)
    BY <1>5, <1>6 DEF SideLines, d
  <1> QED
    BY <1>7, <1>8, <1>9 DEF p, g, u

\* At its end the writer leaves the channel behind, and completes the timings.
LEMMA ExitSide ==
  ASSUME NEW w, NEW n \in Nat, NEW S, NEW f \in Seq(S), NEW q \in Seq(S), NEW t \in Timings,
         SideLines(w, n, f, q, 0, t), w # "discarding",
         NEW u, u.dropped_events = t.dropped_events, u.truncated = t.truncated
  PROVE  SideLines("exited", n, f, <<>>, Len(q), u)
  <1> DEFINE d == t.dropped_events
  <1>1. d \in Nat
    BY OverflowCounts
  <1>2. Len(f) \in Nat /\ Len(q) \in Nat /\ Len(<<>>) = 0
    BY SMTT(30)
  <1>3. /\ InOrder(f, Len(f), q, Len(q), n)
        /\ d # 0 => t.truncated
        /\ n = Len(f) + Len(q) + d + 0
        /\ d = 0 => Gapless(f, Len(f), q, Len(q))
    BY DEF SideLines
  <1> HIDE DEF d
  <1>4. /\ InOrder(f, Len(f), <<>>, 0, n)
        /\ d = 0 => Gapless(f, Len(f), <<>>, 0)
    BY <1>2, <1>3, ExitLines
  <1>5. n = Len(f) + 0 + d + Len(q)
    BY <1>1, <1>2, <1>3, SMTT(30)
  <1> QED
    BY <1>2, <1>3, <1>4, <1>5 DEF SideLines, d

-----------------------------------------------------------------------------
(***************************************************************************)
(* The inductive invariant.                                                *)
(***************************************************************************)
Lines(s) == SideLines(writer[s], recorded[s], file[s], queue[s], cut[s], timings[s])

\* The flag is raised after the stream, a writer drains only under the flag, the
\* summary comes after the end of the writer, and only that end cuts events off.
Phase(s) ==
  /\ shutdown[s] => pc # "streaming"
  /\ writer[s] \in {"draining", "exited"} => shutdown[s]
  /\ writer[s] # "exited" => cut[s] = 0
  /\ summary[s] \subseteq {timings[s]}
  /\ summary[s] # {} => writer[s] = "exited"
  /\ writer[s] = "exited" =>
       /\ timings[s].completed
       /\ timings[s].event_count = Len(file[s])
       /\ queue[s] = <<>>
       /\ cut[s] <= ChannelCapacity

IInv == TypeOK /\ \A s \in Sides : Lines(s) /\ Phase(s)

-----------------------------------------------------------------------------
(***************************************************************************)
(* Steps.  An action of one side leaves the other alone.                   *)
(***************************************************************************)

\* The invariant holds when the capture starts.
LEMMA InitInv == Init => IInv
  <1> SUFFICES ASSUME Init PROVE IInv
    OBVIOUS
  <1> USE DEF Init, NewTimings
  <1>1. TypeOK
    BY EventsAssumption, CapacityAssumption, SMTT(30)
    DEF TypeOK, Pcs, Sides, WriterStates, Timings
  <1>2. \A s \in Sides : Lines(s) /\ Phase(s)
    BY SMTT(30) DEF Lines, SideLines, Phase, InOrder, Gapless
  <1> QED
    BY <1>1, <1>2 DEF IInv

\* What a step of side s leaves alone.
Apart(s) ==
  \A t \in Sides \ {s} :
    /\ recorded'[t] = recorded[t] /\ queue'[t] = queue[t]
    /\ shutdown'[t] = shutdown[t] /\ writer'[t] = writer[t] /\ file'[t] = file[t]
    /\ timings'[t] = timings[t] /\ summary'[t] = summary[t] /\ cut'[t] = cut[t]

\* So a step has to be looked at on its own side.
LEMMA OneSide ==
  ASSUME IInv, NEW s \in Sides, Apart(s), TypeOK', pc = "streaming" \/ pc' # "streaming",
         Lines(s)', Phase(s)'
  PROVE  IInv'
  <1>1. ASSUME NEW t \in Sides, t # s
        PROVE  Lines(t)' /\ Phase(t)'
    <2>1. Lines(t)'
      BY <1>1 DEF IInv, Apart, Lines
    <2>2. Phase(t)'
      BY <1>1, SMTT(30) DEF IInv, Apart, Phase
    <2> QED
      BY <2>1, <2>2
  <1> QED
    BY <1>1 DEF IInv

\* An event is recorded: sent, or counted as lost.
LEMMA RecordInv ==
  ASSUME IInv, NEW s \in Sides, Record(s)
  PROVE  IInv'
  <1> DEFINE n == recorded[s]
             q == queue[s]
             t == timings[s]
  <1>1. /\ n \in Nat /\ n + 1 \in 1..MaxEvents
        /\ q \in Seq(1..MaxEvents) /\ file[s] \in Seq(1..MaxEvents)
        /\ t \in Timings
    BY EventsAssumption, SMTT(30) DEF IInv, TypeOK, Record
  <1>2. /\ Apart(s)
        /\ pc = "streaming" /\ pc' = pc
        /\ recorded' = [recorded EXCEPT ![s] = n + 1] /\ recorded'[s] = n + 1
        /\ writer'[s] = writer[s] /\ file'[s] = file[s]
        /\ UNCHANGED <<pc, shutdown, writer, file, summary, cut>>
    BY DEF IInv, TypeOK, Record, send, Apart
  <1>3. writer[s] # "exited" /\ summary[s] = {} /\ cut[s] = 0 /\ cut'[s] = 0
    BY <1>2 DEF IInv, Phase
  <1>4. /\ SideLines(writer[s], n + 1, file[s], Append(q, n + 1), 0, t)
        /\ SideLines(writer[s], n + 1, file[s], q, 0, Overflow(t))
    <2>1. SideLines(writer[s], n, file[s], q, 0, t)
      BY <1>3 DEF IInv, Lines
    <2> QED
      BY <1>1, <2>1, SendSide
  <1>5. CASE Len(q) < ChannelCapacity
    <2>1. queue' = [queue EXCEPT ![s] = Append(q, n + 1)] /\ timings' = timings
      <3>1. /\ ~(Len(q) >= ChannelCapacity)
            /\ queue' = [queue EXCEPT ![s] = IF writer[s] = "exited" \/ Len(q) >= ChannelCapacity
                                             THEN q ELSE Append(q, n + 1)]
            /\ timings' = [timings EXCEPT ![s] = IF Len(q) >= ChannelCapacity /\ writer[s] # "exited"
                                                 THEN Overflow(t) ELSE t]
        BY <1>1, <1>5, CapacityAssumption, SMTT(30) DEF Record, send
      <3>2. timings = [timings EXCEPT ![s] = t]
        BY DEF IInv, TypeOK
      <3> QED
        BY <1>3, <3>1, <3>2
    <2>2. queue'[s] = Append(q, n + 1) /\ timings'[s] = t
      BY <2>1 DEF IInv, TypeOK
    <2>3. /\ Append(q, n + 1) \in Seq(1..MaxEvents)
          /\ Len(Append(q, n + 1)) <= ChannelCapacity
      BY <1>1, <1>5, CapacityAssumption, SMTT(30)
    <2> HIDE DEF n, q, t
    <2>4. TypeOK'
      BY <1>1, <1>2, <2>1, <2>3, EventsAssumption, SMTT(30) DEF IInv, TypeOK
    <2>5. Lines(s)'
      BY <1>2, <1>3, <1>4, <2>2 DEF Lines
    <2>6. Phase(s)'
      BY <1>2, <1>3, <2>1 DEF IInv, Phase
    <2> QED
      BY <1>2, <2>4, <2>5, <2>6, OneSide
  <1>6. CASE ~(Len(q) < ChannelCapacity)
    <2>1. queue' = queue /\ timings' = [timings EXCEPT ![s] = Overflow(t)]
      <3>1. /\ Len(q) >= ChannelCapacity
            /\ queue' = [queue EXCEPT ![s] = IF writer[s] = "exited" \/ Len(q) >= ChannelCapacity
                                             THEN q ELSE Append(q, n + 1)]
            /\ timings' = [timings EXCEPT ![s] = IF Len(q) >= ChannelCapacity /\ writer[s] # "exited"
                                                 THEN Overflow(t) ELSE t]
        BY <1>1, <1>6, CapacityAssumption, SMTT(30) DEF Record, send
      <3>2. queue = [queue EXCEPT ![s] = q]
        BY DEF IInv, TypeOK
      <3> QED
        BY <1>3, <3>1, <3>2
    <2>2. queue'[s] = q /\ timings'[s] = Overflow(t)
      BY <2>1 DEF IInv, TypeOK
    <2>3. Overflow(t) \in Timings
      BY <1>1, OverflowCounts
    <2> HIDE DEF n, q, t
    <2>4. TypeOK'
      BY <1>1, <1>2, <2>1, <2>3, EventsAssumption, SMTT(30) DEF IInv, TypeOK
    <2>5. Lines(s)'
      BY <1>2, <1>3, <1>4, <2>2 DEF Lines
    <2>6. Phase(s)'
      BY <1>2, <1>3 DEF IInv, Phase
    <2> QED
      BY <1>2, <2>4, <2>5, <2>6, OneSide
  <1> QED
    BY <1>5, <1>6

\* The writer receives an event.
LEMMA ReceiveInv ==
  ASSUME IInv, NEW s \in Sides, Receive(s)
  PROVE  IInv'
  <1> DEFINE n == recorded[s]
             q == queue[s]
             f == file[s]
             t == timings[s]
             v == writer'[s]
  <1>1. /\ n \in Nat
        /\ q \in Seq(1..MaxEvents) /\ f \in Seq(1..MaxEvents) /\ q # <<>>
        /\ cut[s] \in Nat /\ t \in Timings /\ Len(q) <= ChannelCapacity
    BY EventsAssumption, SMTT(30) DEF IInv, TypeOK, Receive
  <1>2. /\ Apart(s)
        /\ queue' = [queue EXCEPT ![s] = Tail(q)] /\ queue'[s] = Tail(q)
        /\ writer' = [writer EXCEPT ![s] = v]
        /\ writer[s] \in {"receiving", "draining"}
        /\ v = IF writer[s] = "receiving" THEN "top" ELSE writer[s]
        /\ UNCHANGED <<pc, recorded, shutdown, summary, cut>>
    BY DEF IInv, TypeOK, Receive, write_event, OwnerUnchanged, Apart
  <1>3. /\ Tail(q) \in Seq(1..MaxEvents) /\ Len(Tail(q)) <= ChannelCapacity
        /\ Head(q) \in 1..MaxEvents
    <2> DEFINE S == 1..MaxEvents
    <2>0. q \in Seq(S) /\ q # <<>>
      BY <1>1
    <2> HIDE DEF q, S
    <2>1. Head(q) \in S /\ Tail(q) \in Seq(S) /\ Len(Tail(q)) = Len(q) - 1 /\ Len(q) \in Nat
      BY <2>0, HeadTailProperties, SMTT(30)
    <2> QED
      BY <1>1, <2>1, CapacityAssumption, SMTT(30) DEF S
  <1>4. /\ SideLines(v, n, Append(f, Head(q)), Tail(q), cut[s], t)
        /\ SideLines(v, n, f, Tail(q), cut[s], Overflow(t))
    <2>1. SideLines(writer[s], n, f, q, cut[s], t) /\ writer[s] # "discarding" /\ v # "discarding"
      BY <1>2 DEF IInv, Lines
    <2> HIDE DEF n, q, f, t, v
    <2> QED
      BY <1>1, <2>1, ReceiveSide
  <1>5. summary[s] = {} /\ cut[s] = 0
    BY <1>2 DEF IInv, Phase
  <1>6. CASE file' = [file EXCEPT ![s] = Append(f, Head(q))] /\ UNCHANGED timings
    <2>1. file'[s] = Append(f, Head(q)) /\ timings'[s] = t
      BY <1>6 DEF IInv, TypeOK
    <2>2. Append(f, Head(q)) \in Seq(1..MaxEvents)
      BY <1>1, <1>3, SMTT(30)
    <2> HIDE DEF n, q, f, t
    <2>3. TypeOK'
      BY <1>2, <1>3, <1>6, <2>2, EventsAssumption DEF IInv, TypeOK, WriterStates
    <2>4. Lines(s)'
      BY <1>2, <1>4, <2>1 DEF Lines, n
    <2>5. Phase(s)'
      BY <1>2, <1>5, <1>6 DEF IInv, Phase
    <2> QED
      BY <1>2, <2>3, <2>4, <2>5, OneSide
  <1>7. CASE timings' = [timings EXCEPT ![s] = Overflow(t)] /\ UNCHANGED file
    <2>1. file'[s] = f /\ timings'[s] = Overflow(t)
      BY <1>7 DEF IInv, TypeOK
    <2>2. Overflow(t) \in Timings
      BY <1>1, OverflowCounts
    <2> HIDE DEF n, q, f, t
    <2>3. TypeOK'
      BY <1>2, <1>3, <1>7, <2>2, EventsAssumption DEF IInv, TypeOK, WriterStates
    <2>4. Lines(s)'
      BY <1>2, <1>4, <2>1 DEF Lines, n
    <2>5. Phase(s)'
      BY <1>2, <1>5, <1>7 DEF IInv, Phase
    <2> QED
      BY <1>2, <2>3, <2>4, <2>5, OneSide
  <1> QED
    BY <1>6, <1>7 DEF Receive, write_event

\* A writer without a file discards it.
LEMMA DiscardInv ==
  ASSUME IInv, NEW s \in Sides, Discard(s)
  PROVE  IInv'
  <1> DEFINE q == queue[s]
  <1>1. /\ recorded[s] \in Nat
        /\ q \in Seq(1..MaxEvents) /\ file[s] \in Seq(1..MaxEvents) /\ q # <<>>
        /\ cut[s] \in Nat /\ timings[s] \in Timings /\ Len(q) <= ChannelCapacity
    BY EventsAssumption, SMTT(30) DEF IInv, TypeOK, Discard
  <1>2. /\ Apart(s)
        /\ queue' = [queue EXCEPT ![s] = Tail(q)] /\ queue'[s] = Tail(q)
        /\ writer[s] = "discarding"
        /\ UNCHANGED <<pc, recorded, shutdown, writer, file, timings, summary, cut>>
    BY DEF IInv, TypeOK, Discard, OwnerUnchanged, Apart
  <1>3. SideLines(writer[s], recorded[s], file[s], q, cut[s], timings[s])
    BY DEF IInv, Lines
  <1> HIDE DEF q
  <1>4. Tail(q) \in Seq(1..MaxEvents) /\ Len(Tail(q)) <= ChannelCapacity
    <2>1. Tail(q) \in Seq(1..MaxEvents) /\ Len(Tail(q)) = Len(q) - 1 /\ Len(q) \in Nat
      BY <1>1, HeadTailProperties, SMTT(30)
    <2> QED
      BY <1>1, <2>1, CapacityAssumption, SMTT(30)
  <1>5. SideLines(writer[s], recorded[s], file[s], Tail(q), cut[s], timings[s])
    BY <1>1, <1>2, <1>3, ReceiveSide
  <1>6. TypeOK'
    BY <1>2, <1>4, EventsAssumption DEF IInv, TypeOK
  <1>7. Lines(s)'
    BY <1>2, <1>5 DEF Lines
  <1>8. Phase(s)'
    BY <1>2 DEF IInv, Phase
  <1> QED
    BY <1>2, <1>6, <1>7, <1>8, OneSide

\* The writer starts, or returns to the top of its loop.
LEMMA MoveInv ==
  ASSUME IInv, NEW s \in Sides, Open(s) \/ LoopTop(s) \/ ReceiveTimeout(s)
  PROVE  IInv'
  <1>1. /\ Apart(s)
        /\ writer' = [writer EXCEPT ![s] = writer'[s]]
        /\ writer[s] \in {"opening", "top", "receiving"}
        /\ writer'[s] \in {"top", "receiving", "draining", "discarding"}
        /\ writer'[s] = "draining" => shutdown[s]
        /\ UNCHANGED <<pc, recorded, queue, shutdown, file, timings, summary, cut>>
    BY DEF IInv, TypeOK, Open, LoopTop, ReceiveTimeout, OwnerUnchanged, Apart
  <1>2. TypeOK'
    BY <1>1 DEF IInv, TypeOK, WriterStates
  <1>3. Lines(s)'
    BY <1>1 DEF IInv, Lines, SideLines
  <1>4. Phase(s)'
    BY <1>1 DEF IInv, Phase
  <1> QED
    BY <1>1, <1>2, <1>3, <1>4, OneSide

\* The drain deadline passes.
LEMMA DrainDeadlineInv ==
  ASSUME IInv, NEW s \in Sides, DrainDeadline(s)
  PROVE  IInv'
  <1> DEFINE t == timings[s]
             n == Len(file[s])
             u == [event_count |-> n, dropped_events |-> t.dropped_events,
                   truncated |-> t.truncated, completed |-> TRUE]
  <1>1. /\ t \in Timings /\ Len(file[s]) \in Nat /\ Len(queue[s]) \in 0..ChannelCapacity
        /\ recorded[s] \in Nat
        /\ file[s] \in Seq(1..MaxEvents) /\ queue[s] \in Seq(1..MaxEvents)
        /\ writer[s] = "draining"
    BY EventsAssumption, CapacityAssumption, SMTT(30) DEF IInv, TypeOK, DrainDeadline
  <1>2. timings' = [timings EXCEPT ![s] = u]
    <2> DEFINE x == [t EXCEPT !.completed = TRUE, !.event_count = n]
    <2>1. timings' = [timings EXCEPT ![s] = x]
      BY DEF DrainDeadline, exit
    <2>2. x = u
      BY <1>1, CompletedTimings
    <2> HIDE DEF x, u
    <2> QED
      BY <2>1, <2>2
  <1>3. u \in Timings
    BY <1>1 DEF Timings
  <1>4. timings'[s] = u
    BY <1>2 DEF IInv, TypeOK
  <1>5. u.dropped_events = t.dropped_events /\ u.truncated = t.truncated
        /\ u.completed /\ u.event_count = Len(file[s])
    OBVIOUS
  <1> HIDE DEF u
  <1>6. /\ Apart(s)
        /\ writer' = [writer EXCEPT ![s] = "exited"] /\ writer'[s] = "exited"
        /\ cut' = [cut EXCEPT ![s] = Len(queue[s])] /\ cut'[s] = Len(queue[s])
        /\ queue' = [queue EXCEPT ![s] = <<>>] /\ queue'[s] = <<>>
        /\ recorded'[s] = recorded[s] /\ file'[s] = file[s]
        /\ UNCHANGED <<pc, recorded, shutdown, file, summary>>
    BY <1>2 DEF IInv, TypeOK, DrainDeadline, exit, OwnerUnchanged, Apart
  <1>7. TypeOK'
    <2>1. /\ <<>> \in Seq(1..MaxEvents) /\ Len(<<>>) <= ChannelCapacity
          /\ Len(queue[s]) \in Nat
      BY <1>1, CapacityAssumption, SMTT(30)
    <2> QED
      BY <1>2, <1>3, <1>6, <2>1 DEF IInv, TypeOK, WriterStates
  <1>8. Lines(s)'
    <2>1. SideLines(writer[s], recorded[s], file[s], queue[s], 0, t)
      BY <1>1 DEF IInv, Lines, Phase
    <2>2. SideLines("exited", recorded[s], file[s], <<>>, Len(queue[s]), u)
      BY <1>1, <1>5, <2>1, ExitSide
    <2> QED
      BY <1>4, <1>6, <2>2 DEF Lines
  <1>9. Phase(s)'
    <2>1. Len(queue[s]) <= ChannelCapacity
      BY DEF IInv, TypeOK
    <2> QED
      BY <1>1, <1>4, <1>5, <1>6, <2>1 DEF IInv, Phase
  <1> QED
    BY <1>6, <1>7, <1>8, <1>9, OneSide

\* The stream ends and its upstream side is told to stop.
LEMMA StreamEndsInv ==
  ASSUME IInv, StreamEnds
  PROVE  IInv'
  <1> PICK s \in Sides : s = "upstream_response"
    BY DEF Sides
  <1>1. /\ Apart(s)
        /\ pc' = s
        /\ shutdown' = [shutdown EXCEPT ![s] = TRUE] /\ shutdown'[s]
        /\ UNCHANGED <<recorded, queue, writer, file, timings, summary, cut>>
    BY DEF IInv, TypeOK, Sides, StreamEnds, Apart
  <1>2. TypeOK'
    BY <1>1 DEF IInv, TypeOK, Pcs
  <1>3. Lines(s)'
    BY <1>1 DEF IInv, Lines
  <1>4. Phase(s)'
    BY <1>1 DEF IInv, Phase
  <1>5. pc = "streaming" \/ pc' # "streaming"
    BY DEF StreamEnds
  <1> QED
    BY <1>1, <1>2, <1>3, <1>4, <1>5, OneSide

\* A joined writer's side is summarised; the client side is then told to end.
LEMMA FinishInv ==
  ASSUME IInv, FinishUpstream \/ FinishClient
  PROVE  IInv'
  <1> PICK s \in Sides :
        /\ pc = s /\ writer[s] = "exited"
        /\ summary' = [summary EXCEPT ![s] = {timings[s]}]
    BY DEF FinishUpstream, FinishClient, finish, Sides
  <1>1. /\ pc # "streaming" /\ pc' # "streaming" /\ pc' \in Pcs
        /\ shutdown' \in [Sides -> BOOLEAN]
        /\ \A t \in Sides : shutdown[t] => shutdown'[t]
        /\ UNCHANGED <<recorded, queue, writer, file, timings, cut>>
    <2>1. shutdown \in [Sides -> BOOLEAN]
      BY DEF IInv, TypeOK
    <2>2. CASE FinishUpstream
      BY <2>1, <2>2 DEF FinishUpstream, finish, Sides, Pcs
    <2>3. CASE FinishClient
      BY <2>1, <2>3 DEF FinishClient, finish, Sides, Pcs
    <2> QED
      BY <2>2, <2>3
  <1>2. TypeOK'
    BY <1>1 DEF IInv, TypeOK
  <1>3. ASSUME NEW t \in Sides
        PROVE  Lines(t)'
    BY <1>1 DEF IInv, Lines
  <1>4. ASSUME NEW t \in Sides
        PROVE  Phase(t)'
    <2>1. CASE t = s
      BY <1>1, <2>1 DEF IInv, TypeOK, Phase
    <2>2. CASE t # s
      BY <1>1, <2>2 DEF IInv, TypeOK, Phase
    <2> QED
      BY <2>1, <2>2
  <1> QED
    BY <1>2, <1>3, <1>4 DEF IInv

\* Every step keeps the invariant.
LEMMA NextInv ==
  ASSUME IInv, [Next]_vars
  PROVE  IInv'
  <1>1. CASE UNCHANGED vars
    BY <1>1 DEF IInv, vars, TypeOK, Lines, Phase
  <1> QED
    BY <1>1, RecordInv, ReceiveInv, DiscardInv, MoveInv, DrainDeadlineInv, StreamEndsInv,
       FinishInv DEF Next, Writer

\* So it holds throughout.
LEMMA Invariant == Spec => []IInv
  BY InitInv, NextInv, PTL DEF Spec

-----------------------------------------------------------------------------
(***************************************************************************)
(* What holds of one side at rest.                                         *)
(***************************************************************************)

\* With nothing dropped, nothing cut off and the channel empty, the file has every event.
LEMMA CompleteFile ==
  ASSUME NEW w, NEW n \in Nat, NEW S, NEW f \in Seq(S), NEW q, NEW t,
         SideLines(w, n, f, q, 0, t), w # "discarding", t.dropped_events = 0, Len(q) = 0
  PROVE  f = [i \in 1..n |-> i]
  <1>1. n = Len(f) /\ \A i \in 1..Len(f) : f[i] = i
    <2>1. Len(f) \in Nat
      BY SMTT(30)
    <2>2. n = Len(f) + 0 + 0 + 0 /\ Gapless(f, Len(f), q, 0)
      BY DEF SideLines
    <2> QED
      BY <2>1, <2>2, SMTT(30) DEF Gapless
  <1> QED
    BY <1>1, SMTT(30)

\* The lines and then the channel, as one sequence, increase.
LEMMA OneOrder ==
  ASSUME NEW S, NEW f \in Seq(S), NEW q \in Seq(S), NEW n \in Nat,
         InOrder(f, Len(f), q, Len(q), n),
         NEW i \in DOMAIN (f \o q), NEW j \in DOMAIN (f \o q), i < j
  PROVE  (f \o q)[i] < (f \o q)[j]
  <1> DEFINE a == Len(f)
             b == Len(q)
             c == f \o q
  <1>1. a \in Nat /\ b \in Nat
    BY SMTT(30)
  <1>2. DOMAIN c = 1..(a + b)
    BY ConcatProperties, SMTT(30)
  <1>3. \A k \in 1..(a + b) : c[k] = IF k <= a THEN f[k] ELSE q[k - a]
    BY ConcatProperties
  <1>4. InOrder(f, a, q, b, n) /\ i \in DOMAIN c /\ j \in DOMAIN c
    OBVIOUS
  <1> HIDE DEF a, b, c
  <1>5. i \in 1..(a + b) /\ j \in 1..(a + b)
    BY <1>2, <1>4
  <1>6. c[i] < c[j]
    <2>1. CASE j <= a
      <3>1. i \in 1..a /\ j \in 1..a /\ c[i] = f[i] /\ c[j] = f[j]
        BY <1>1, <1>3, <1>5, <2>1, SMTT(30)
      <3> QED
        BY <1>4, <3>1 DEF InOrder
    <2>2. CASE i <= a /\ ~(j <= a)
      <3>1. i \in 1..a /\ j - a \in 1..b /\ c[i] = f[i] /\ c[j] = q[j - a]
        BY <1>1, <1>3, <1>5, <2>2, SMTT(30)
      <3> QED
        BY <1>4, <3>1 DEF InOrder
    <2>3. CASE ~(i <= a) /\ ~(j <= a)
      <3> DEFINE x == i - a
                 y == j - a
      <3>1. x \in 1..b /\ y \in 1..b /\ x < y
        BY <1>1, <1>5, <2>3, SMTT(30)
      <3>2. c[i] = q[x] /\ c[j] = q[y]
        BY <1>1, <1>3, <1>5, <2>3
      <3> HIDE DEF x, y
      <3> QED
        BY <1>4, <3>1, <3>2 DEF InOrder
    <2> QED
      BY <1>1, <1>5, <2>1, <2>2, <2>3
  <1> QED
    BY <1>6 DEF c

-----------------------------------------------------------------------------
(***************************************************************************)
(* Theorems.                                                               *)
(***************************************************************************)

\* Every variable of the capture keeps its type, and try_send never puts more
\* into a channel than its capacity.
THEOREM TypeCorrect == Spec => []TypeOK
  BY Invariant, PTL DEF IInv

\* The summary that Drop for StreamMetrics puts into the metadata was taken
\* after writer_loop completed the timings, and counts the lines of the file.
THEOREM FaithfulSummary == Spec => []SummaryMatchesFile
  <1>1. IInv => SummaryMatchesFile
    BY DEF IInv, Phase, SummaryMatchesFile
  <1> QED
    BY <1>1, Invariant, PTL

\* Each event given to StreamCaptureHandle::send is a line, in the channel, in
\* dropped_events, or was in the channel when writer_loop reached its drain
\* deadline: never two of these.  Only the last are in no count of the program.
THEOREM Accounted == Spec => []EveryEventAccounted
  <1>1. IInv => EveryEventAccounted
    BY DEF IInv, Lines, SideLines, EveryEventAccounted
  <1> QED
    BY <1>1, Invariant, PTL

\* What the counts of a summary leave out is what writer_loop found in the channel
\* at its drain deadline: at most CHANNEL_CAPACITY events, and never less than none.
THEOREM LossBounded == Spec => []SummaryLossBounded
  <1>1. ASSUME IInv
        PROVE  SummaryLossBounded
    <2> SUFFICES ASSUME NEW s \in Sides, NEW t \in summary[s]
                 PROVE  recorded[s] - (t.event_count + t.dropped_events) \in 0..ChannelCapacity
      BY DEF SummaryLossBounded
    <2>1. t = timings[s] /\ writer[s] = "exited"
      BY <1>1 DEF IInv, Phase
    <2>2. t.event_count = Len(file[s]) /\ queue[s] = <<>> /\ cut[s] <= ChannelCapacity
      BY <1>1, <2>1 DEF IInv, Phase
    <2>3. recorded[s] = Len(file[s]) + Len(queue[s]) + t.dropped_events + cut[s]
      BY <1>1, <2>1 DEF IInv, Lines, SideLines
    <2>4. /\ timings[s] \in Timings /\ cut[s] \in Nat
          /\ Len(file[s]) \in Nat /\ Len(queue[s]) = 0
      BY <1>1, <2>2, SMTT(30) DEF IInv, TypeOK
    <2>5. t.dropped_events \in Nat
      BY <2>1, <2>4 DEF Timings
    <2> QED
      BY <2>2, <2>3, <2>4, <2>5, CapacityAssumption, SMTT(30)
  <1> QED
    BY <1>1, Invariant, PTL

\* A summary that does not say truncated, of a channel the deadline did not cut
\* off, stands for a file with every event in its place.
THEOREM CompleteUnlessTruncated == Spec => []UntruncatedIsComplete
  <1>1. ASSUME IInv
        PROVE  UntruncatedIsComplete
    <2> SUFFICES ASSUME NEW s \in Sides, NEW t \in summary[s], ~t.truncated, cut[s] = 0
                 PROVE  file[s] = [n \in 1..recorded[s] |-> n]
      BY DEF UntruncatedIsComplete
    <2>1. t = timings[s] /\ writer[s] = "exited" /\ queue[s] = <<>>
      BY <1>1 DEF IInv, Phase
    <2>2. SideLines(writer[s], recorded[s], file[s], queue[s], 0, t)
      BY <1>1, <2>1 DEF IInv, Lines
    <2>3. t.dropped_events = 0
      BY <2>2 DEF SideLines
    <2>4. recorded[s] \in Nat /\ file[s] \in Seq(1..MaxEvents)
      BY <1>1, EventsAssumption, SMTT(30) DEF IInv, TypeOK
    <2>5. Len(queue[s]) = 0
      BY <2>1, SMTT(30)
    <2> QED
      BY <2>1, <2>2, <2>3, <2>4, <2>5, CompleteFile
  <1> QED
    BY <1>1, Invariant, PTL

\* Whatever overflows or fails, the NDJSON file lists events in the order they
\* were sent, and the channel continues that order.
THEOREM Ordered == Spec => []LinesInOrder
  <1>1. ASSUME IInv
        PROVE  LinesInOrder
    <2> SUFFICES ASSUME NEW s \in Sides,
                        NEW i \in DOMAIN (file[s] \o queue[s]),
                        NEW j \in DOMAIN (file[s] \o queue[s]), i < j
                 PROVE  (file[s] \o queue[s])[i] < (file[s] \o queue[s])[j]
      BY DEF LinesInOrder
    <2>1. /\ recorded[s] \in Nat
          /\ file[s] \in Seq(1..MaxEvents) /\ queue[s] \in Seq(1..MaxEvents)
      BY <1>1, EventsAssumption, SMTT(30) DEF IInv, TypeOK
    <2>2. InOrder(file[s], Len(file[s]), queue[s], Len(queue[s]), recorded[s])
      BY <1>1 DEF IInv, Lines, SideLines
    <2> QED
      BY <2>1, <2>2, OneOrder
  <1> QED
    BY <1>1, Invariant, PTL

=============================================================================
