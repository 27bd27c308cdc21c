------------------------------ MODULE Operations ------------------------------
(***************************************************************************)
(* The life of the server around its requests: the configuration that is   *)
(* replaced while it serves, the tasks that work on it, and the end, when  *)
(* the signal comes while streams of the inspector are open.               *)
(***************************************************************************)
EXTENDS BackgroundTasks

CONSTANT Streams  \* requests for /_onair/inspector/events

VARIABLES server,   \* "serving", "draining" (accepts nothing more), "stopped"
          signal,   \* the watch channel: the signal has come
          streams   \* of each stream: where it is, and the value it has seen

serverVars == <<server, signal, streams>>
vars == <<configVars, healthVars, sizeVars, serverVars, limits>>

-----------------------------------------------------------------------------
ServerInit ==
  /\ server = "serving"
  /\ signal = FALSE
  /\ streams = [s \in Streams |-> [at |-> "none", seen |-> FALSE]]

Accept(s) ==
  /\ server = "serving" /\ watcher.at # "starting" /\ limits.streams > 0
  /\ streams[s].at = "none"
  /\ limits' = [limits EXCEPT !.streams = @ - 1]
  /\ streams' = [streams EXCEPT ![s].at = "accepted"]
  /\ UNCHANGED <<server, signal>>

\* inspector_events: the receiver counts the present value as seen.
inspector_events(s) ==
  /\ streams[s].at = "accepted"
  /\ streams' = [streams EXCEPT ![s] = [at |-> "open", seen |-> signal]]
  /\ UNCHANGED <<server, signal, limits>>

\* The stream ends when the value changes; waiting for a record, it has no
\* other reason to.
StreamEnds(s) ==
  /\ streams[s].at = "open" /\ signal # streams[s].seen
  /\ streams' = [streams EXCEPT ![s].at = "closed"]
  /\ UNCHANGED <<server, signal, limits>>

ClientLeaves(s) ==
  /\ streams[s].at \in {"accepted", "open"}
  /\ streams' = [streams EXCEPT ![s].at = "closed"]
  /\ UNCHANGED <<server, signal, limits>>

shutdown_signal ==
  /\ ~signal /\ watcher.at # "starting" /\ limits.signal
  /\ signal' = TRUE
  /\ UNCHANGED <<server, streams, limits>>

StopAccepting ==
  /\ server = "serving" /\ signal
  /\ server' = "draining"
  /\ UNCHANGED <<signal, streams, limits>>

\* Dropping the state and the watcher aborts their tasks.
Stop == server' = "stopped" /\ UNCHANGED <<signal, streams, limits>>

Idle == \A s \in Streams : streams[s].at \in {"none", "closed"}

Drained == server = "draining" /\ Idle /\ Stop

\* Mutant: serve waits for the streams however long they take.
ForcedStop_never == FALSE /\ Stop

\* GRACEFUL_SHUTDOWN_TIMEOUT is over.
ForcedStop == server = "draining" /\ Stop

ServerNext ==
  \/ \E s \in Streams : Accept(s) \/ inspector_events(s) \/ StreamEnds(s) \/ ClientLeaves(s)
  \/ shutdown_signal \/ StopAccepting \/ Drained \/ ForcedStop

-----------------------------------------------------------------------------
Running == server # "stopped"

Init == limits \in Limits /\ ConfigInit /\ HealthInit /\ SizesInit /\ ServerInit

Next ==
  /\ Running
  /\ \/ ConfigNext /\ UNCHANGED <<healthVars, sizeVars, serverVars>>
     \/ HealthNext /\ UNCHANGED <<configVars, sizeVars, serverVars>>
     \/ RefreshStep /\ UNCHANGED <<configVars, healthVars, serverVars, limits>>
     \/ ServerNext /\ UNCHANGED <<configVars, healthVars, sizeVars>>

(***************************************************************************)
(* Fairness: the runtime runs every task that can run, every timer fires,  *)
(* notify reports a change, and a fetch has a timeout.  Nothing is assumed *)
(* of whoever edits the file, of clients, or of what backends answer.      *)
(***************************************************************************)
FairWatcher == WF_vars(Running /\ WatcherStep /\ UNCHANGED <<healthVars, sizeVars, serverVars>>)
FairRefresh == WF_vars(Running /\ RefreshStep /\ UNCHANGED <<configVars, healthVars, serverVars, limits>>)
FairStreams == \A s \in Streams :
                 WF_vars(/\ Running
                         /\ inspector_events(s) \/ StreamEnds(s)
                         /\ UNCHANGED <<configVars, healthVars, sizeVars>>)
FairServer == WF_vars(/\ Running
                      /\ StopAccepting \/ Drained \/ ForcedStop
                      /\ UNCHANGED <<configVars, healthVars, sizeVars>>)

Spec == /\ Init /\ [][Next]_vars
        /\ FairWatcher /\ FairRefresh /\ FairStreams /\ FairServer

-----------------------------------------------------------------------------
(***************************************************************************)
(* Properties.                                                             *)
(***************************************************************************)
Observations(backend) ==
  [backend : {backend}, source : Sources, ok : BOOLEAN, time : Nat]
Of(backend) == Keep(log, Observations(backend))
Count(observations, source, ok) ==
  Cardinality({i \in DOMAIN observations : observations[i].source = source /\ observations[i].ok = ok})

\* The last n observations exist, are failures, and lie within the window.
LastFailed(observations, n) ==
  /\ Len(observations) >= n
  /\ \A i \in Len(observations) - n + 1 .. Len(observations) :
       /\ ~observations[i].ok
       /\ observations[i].time + FailureWindow >= observations[Len(observations)].time

\* HealthFromHistory: what the operator sees of a backend (snapshot) is what
\* the observations say, whichever way requests, probes and the clock
\* interleave: unknown until the first one, healthy exactly when the last one
\* succeeded, unhealthy exactly when the last UnhealthyThreshold ones failed
\* within one window; and every observation is counted once, for its source.
HealthFromHistory ==
  \A b \in Backends :
    LET seen == Of(b)
        shown == snapshot(b)
    IN /\ shown.status = "unknown" <=> seen = <<>>
       /\ shown.status = "healthy" <=> (seen # <<>> /\ seen[Len(seen)].ok)
       /\ shown.status = "unhealthy" <=> LastFailed(seen, UnhealthyThreshold)
       /\ \A source \in Sources :
            /\ shown.successes[source] = Count(seen, source, TRUE)
            /\ shown.failures[source] = Count(seen, source, FALSE)
       /\ \A n \in 1 .. Len(seen) : shown.consecutive_failures >= n <=> LastFailed(seen, n)

InForce == Load(file) # {} => config = Only(Load(file))

\* The sizes that /v1/models shows belong to the routes in force.  A route
\* without backends is left out: it keeps the size it had when it had some.
SizesInForce ==
  \A r \in Range(config.routes) :
    r.context_length.kind = "upstream" /\ r.backends # <<>> =>
      ShownSize(r) \in {{}, ContextSize(r.context_length.backend_id, r.context_length.backend_model)}

ForgottenSizes ==
  DOMAIN cache \subseteq {t.public : t \in collect_upstream_targets(config)}

\* Settles: once nobody edits the file any more, the configuration in force
\* becomes and stays the one the file holds (unless the file is rejected), and
\* the context sizes that are shown and kept become those of its routes: no
\* event is lost to the debounce, to a retry or to a reload under way, and a
\* refresh that began under an older configuration leaves nothing behind.  An
\* edit between the first load and the start of the watch (missed) is the
\* exception.
Settles == <>[](Running => /\ missed \/ InForce
                           /\ SizesInForce
                           /\ ForgottenSizes)

\* ServerStops: after the signal the server stops, even with streams that
\* subscribed after it and therefore never see it, and clients that stay.
ServerStops == signal ~> ~Running
=============================================================================
