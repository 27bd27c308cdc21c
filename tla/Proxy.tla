-------------------------------- MODULE Proxy --------------------------------
(***************************************************************************)
(* The life of a proxied request (proxy_v1, do_proxy, buffered_response,   *)
(* streaming_response and Drop for StreamMetrics) together with everything *)
(* it tells the metrics, the backend-health store, the debug captures, the *)
(* inspector and the client.                                               *)
(*                                                                         *)
(* Each request is a process.  Its state req[r] is the handler's context   *)
(* (ProxyContext and the locals of do_proxy); the code's &mut self methods *)
(* are operators from a context to a context, under the code's names.  An  *)
(* action runs from one await point of the handler to the next.            *)
(***************************************************************************)
EXTENDS Keep

CONSTANTS Requests,         \* requests handled in the life of the process
          Backends,         \* backend ids
          Candidates,       \* orders routing may return: non-empty sequences
                            \* of selected routes
          Configs,          \* configurations a request may find active
          UpstreamStatuses, \* HTTP statuses backends answer with
          UpstreamErrors,   \* kinds of errors that reqwest reports
          MaxFallback,      \* MAX_FALLBACK_ATTEMPTS of the configuration
          ErrorBodyCap      \* MAX_UPSTREAM_ERROR_CAPTURE_BYTES

VARIABLES req,              \* req[r]: the context of request r
          shutdown,         \* the value of the shutdown watch channel
          dropped           \* the inspector store has been dropped

vars == <<req, shutdown, dropped>>

SelectedRoute == [backend_id : Backends, expose_backend_errors : BOOLEAN,
                  stream_capture : BOOLEAN]

Config == [inspector : BOOLEAN,                          \* [inspector].enabled
           debug_capture : {"off", "failures", "all"},   \* [debug_capture]
           fallback_attempts : 0..MaxFallback]           \* [routing]

ASSUME CandidatesAssumption == Candidates \subseteq Seq(SelectedRoute) \ {<<>>}
ASSUME ConfigsAssumption == Configs \subseteq Config
ASSUME BoundsAssumption == /\ MaxFallback \in Nat
                           /\ ErrorBodyCap \in Nat \ {0}
                           /\ UpstreamStatuses \subseteq Nat

\* The errors of reqwest, as upstream_error_kind names them.
ErrorKinds == {"timeout", "connect", "request", "body", "decode", "redirect", "unknown"}

ASSUME ErrorsAssumption == UpstreamErrors \subseteq ErrorKinds

-----------------------------------------------------------------------------
(***************************************************************************)
(* The data a context holds.                                               *)
(***************************************************************************)

RR == INSTANCE RequestRecord
        WITH outcome <- [r \in Requests |-> req[r].record.outcome],
             listed <- [r \in Requests |-> Len(req[r].record.attempts)]

\* Option::None, and a route and an attempt that are not there.
None == "none"

NoRoute == [backend_id |-> None, expose_backend_errors |-> FALSE,
            stream_capture |-> FALSE]

\* Attempts are numbered from 1; 0 stands for Option::None where an attempt
\* number names the debug capture made for that attempt.
AttemptNumbers == 1..(MaxFallback + 1)

AttemptRecord == [attempt : AttemptNumbers, backend : Backends, status : Nat,
                  outcome : RR!AttemptOutcomes \cup {"in_progress"},
                  debug_capture_id : {0} \cup AttemptNumbers]

NoAttempt == [attempt |-> 0, backend |-> None, status |-> 0,
              outcome |-> None, debug_capture_id |-> 0]

InspectorRecord == [outcome : RR!FinalOutcomes \cup {"unpublished", "in_flight"},
                    status : Nat, attempts : Seq(AttemptRecord),
                    retried : Seq(AttemptRecord), exposed : BOOLEAN]

Unpublished == [outcome |-> "unpublished", status |-> 0, attempts |-> <<>>,
                retried |-> <<>>, exposed |-> FALSE]

\* What the client gets: nothing yet, a local error envelope, the forwarded
\* upstream error, a buffered body or a committed stream.
Response == [kind : {"none", "error", "forwarded", "buffered", "stream"}, status : Nat]

\* How far the upstream side of the stream capture has got.
StreamCaptureStates == {"closed", "open", "done", "error"}

\* sent, received_bytes, upstream_ended and client_bytes are history: requests
\* handed to reqwest, bytes of the error body, end of the backend's body, and
\* whether a chunk was passed on to the client.  No action reads them.
Context ==
  [pc : {"new", "route", "send", "error_body", "buffer", "stream", "done"},
   cfg : Config, stream : BOOLEAN, candidates : Seq(SelectedRoute),
   route : SelectedRoute \cup {NoRoute}, fallback_routes : Seq(SelectedRoute),
   labels_backend : Backends \cup {None},
   attempt : Nat, max_attempts : Nat,
   attempt_record : AttemptRecord \cup {NoAttempt},
   current_attempt : AttemptRecord \cup {NoAttempt},
   backend_attempts : Seq(AttemptRecord), retried_attempts : Seq(AttemptRecord),
   debug_capture : {0} \cup AttemptNumbers,
   pending_debug_capture : {0} \cup AttemptNumbers,
   captures : [AttemptNumbers -> RR!AttemptOutcomes \cup {None, "sent_to_upstream"}],
   sent : Nat, upstream_status : Nat, error_bytes : 0..ErrorBodyCap, truncated : BOOLEAN,
   received_bytes : Nat, upstream_ended : BOOLEAN, client_bytes : BOOLEAN,
   body_complete : BOOLEAN, stream_error_kind : ErrorKinds \cup {None},
   stream_capture : StreamCaptureStates,
   requests_total : Seq(Nat), backend_attempts_total : Seq(Backends),
   streams_total : Nat,
   health : Seq([backend : Backends, ok : BOOLEAN, status : Nat]),
   record : InspectorRecord, response : Response]

NewContext(cfg) ==
  [pc |-> "new", cfg |-> cfg, stream |-> FALSE, candidates |-> <<>>,
   route |-> NoRoute, fallback_routes |-> <<>>, labels_backend |-> None,
   attempt |-> 0, max_attempts |-> 0, attempt_record |-> NoAttempt,
   current_attempt |-> NoAttempt, backend_attempts |-> <<>>,
   retried_attempts |-> <<>>, debug_capture |-> 0, pending_debug_capture |-> 0,
   captures |-> [n \in AttemptNumbers |-> None],
   sent |-> 0, upstream_status |-> 0, error_bytes |-> 0, truncated |-> FALSE,
   received_bytes |-> 0, upstream_ended |-> FALSE, client_bytes |-> FALSE,
   body_complete |-> FALSE, stream_error_kind |-> None,
   stream_capture |-> "closed", requests_total |-> <<>>,
   backend_attempts_total |-> <<>>, streams_total |-> 0, health |-> <<>>,
   record |-> Unpublished, response |-> [kind |-> "none", status |-> 0]]

-----------------------------------------------------------------------------
(***************************************************************************)
(* What the handler tells the rest of the system.                          *)
(***************************************************************************)

\* Metrics::record_request and Metrics::record_backend_attempt.
record_request(c, status) == [c EXCEPT !.requests_total = Append(@, status)]

record_backend_attempt(c) ==
  [c EXCEPT !.backend_attempts_total = Append(@, c.labels_backend)]

\* BackendHealthStore, always under the backend of the current labels.
record_health(c, ok, status) ==
  [c EXCEPT !.health = Append(@, [backend |-> c.labels_backend, ok |-> ok,
                                  status |-> status])]

record_failure(c, status) == record_health(c, FALSE, status)

record_success(c, status) == record_health(c, TRUE, status)

\* LiveRecord::update, LiveRecord::finalize and InspectorStore::record: all of
\* them replace the stored record, and do nothing when the inspector is off.
upsert(c, record) == IF c.cfg.inspector THEN [c EXCEPT !.record = record] ELSE c

\* The in-flight record lists the finished attempts, then the one that has
\* reached its response headers.
build_live_record_from_context(c) ==
  [outcome |-> "in_flight", status |-> 0,
   attempts |-> IF c.current_attempt = NoAttempt
                THEN c.backend_attempts
                ELSE Append(c.backend_attempts,
                            [c.current_attempt EXCEPT !.outcome = "in_progress"]),
   retried |-> c.retried_attempts, exposed |-> FALSE]

live_upsert(c) == upsert(c, build_live_record_from_context(c))

\* record_context_inspector and record_inspector_request.
record_inspector(c, outcome, status, exposed) ==
  upsert(c, [outcome |-> outcome, status |-> status,
             attempts |-> c.backend_attempts,
             retried |-> c.retried_attempts, exposed |-> exposed])

\* The handler returns: nothing of the context is used afterwards.
respond(c, kind, status) ==
  [c EXCEPT !.pc = "done", !.response = [kind |-> kind, status |-> status]]

-----------------------------------------------------------------------------
(***************************************************************************)
(* Attempts and their debug captures.  A capture is named by the number of *)
(* the attempt it was made for; captures[n] is the outcome in its          *)
(* metadata.  Writing a capture may fail (written = FALSE), and the        *)
(* request goes on without it.                                             *)
(***************************************************************************)

\* PendingDebugCapture::capture, for the pending capture numbered n.
capture(c, n, written) ==
  IF written
  THEN [c EXCEPT !.debug_capture = n, !.captures[n] = "sent_to_upstream"]
  ELSE [c EXCEPT !.debug_capture = 0]

set_debug_capture(a, id) ==
  IF a = NoAttempt THEN a ELSE [a EXCEPT !.debug_capture_id = id]

\* Mutant: the attempt is not told which capture was made for it.
ensure_failure_debug_capture_unlinked(c, written) ==
  IF c.debug_capture = 0 /\ c.pending_debug_capture # 0
  THEN [capture(c, c.pending_debug_capture, written) EXCEPT !.pending_debug_capture = 0]
  ELSE c

\* The attempt record is still a local of do_proxy (attempt_record) or has
\* moved into the context (current_attempt); it is given the capture's id.
ensure_failure_debug_capture(c, written) ==
  LET taken == IF c.debug_capture = 0 /\ c.pending_debug_capture # 0
               THEN [capture(c, c.pending_debug_capture, written)
                       EXCEPT !.pending_debug_capture = 0]
               ELSE c
  IN [taken EXCEPT !.attempt_record = set_debug_capture(@, taken.debug_capture),
                   !.current_attempt = set_debug_capture(@, taken.debug_capture)]

record_outcome(c, outcome) ==
  IF c.debug_capture = 0 THEN c ELSE [c EXCEPT !.captures[c.debug_capture] = outcome]

finish(a, status, outcome) == [a EXCEPT !.status = status, !.outcome = outcome]

\* ProxyContext::apply_route: the context now speaks for the next backend.
apply_route(c, route) ==
  [c EXCEPT !.route = route, !.labels_backend = route.backend_id,
            !.debug_capture = 0, !.pending_debug_capture = 0]

\* Mutant: a retried attempt is listed only among the retried ones.
record_retried_attempt_once(c, a) ==
  live_upsert([c EXCEPT !.retried_attempts = Append(@, a)])

record_retried_attempt(c, a) ==
  live_upsert([c EXCEPT !.backend_attempts = Append(@, a),
                        !.retried_attempts = Append(@, a)])

\* ProxyContext::record_final_attempt and the equal steps of the response code.
record_final_attempt(c, status, outcome) ==
  [c EXCEPT !.backend_attempts = Append(@, finish(c.current_attempt, status, outcome)),
            !.current_attempt = NoAttempt]

\* prepare_outbound, when the body can be rewritten for the backend.
prepare_outbound(c, written) ==
  LET counted == record_backend_attempt(c)
      captured == CASE c.cfg.debug_capture = "off" ->
                         [counted EXCEPT !.debug_capture = 0, !.pending_debug_capture = 0]
                    [] c.cfg.debug_capture = "all" ->
                         [capture(counted, c.attempt, written)
                            EXCEPT !.pending_debug_capture = 0]
                    [] c.cfg.debug_capture = "failures" ->
                         [counted EXCEPT !.debug_capture = 0,
                                         !.pending_debug_capture = c.attempt]
  IN live_upsert([captured EXCEPT
       !.attempt_record = [attempt |-> c.attempt, backend |-> c.labels_backend,
                           status |-> 0, outcome |-> "in_progress",
                           debug_capture_id |-> captured.debug_capture]])

-----------------------------------------------------------------------------
(***************************************************************************)
(* Failures to get a response.                                             *)
(***************************************************************************)

client_status(kind) == IF kind = "timeout" THEN 504 ELSE 502

failure_outcome(kind) ==
  IF kind = "timeout" THEN "upstream_timeout" ELSE "upstream_request_failed"

\* FailureKind::is_retryable with retryable_send_error.
is_retryable(kind) == kind \in {"timeout", "connect", "request"}

\* Mutant: the next route is applied before the failure is recorded.
record_retry_applied_first(c, kind) ==
  LET status == client_status(kind)
      next == apply_route([record_outcome(c, failure_outcome(kind))
                             EXCEPT !.pc = "route", !.attempt = @ + 1,
                                    !.fallback_routes = Tail(@)],
                          Head(c.fallback_routes))
  IN record_retried_attempt([record_failure(next, status)
                               EXCEPT !.attempt_record = NoAttempt],
                            finish(c.attempt_record, status, failure_outcome(kind)))

\* The attempt failed and a fallback route is left.
record_retry(c, kind) ==
  LET status == client_status(kind)
      failed == record_failure(record_outcome(c, failure_outcome(kind)), status)
      listed == record_retried_attempt(
                  [failed EXCEPT !.attempt_record = NoAttempt],
                  finish(c.attempt_record, status, failure_outcome(kind)))
  IN apply_route([listed EXCEPT !.pc = "route", !.attempt = @ + 1,
                                !.fallback_routes = Tail(@)],
                 Head(c.fallback_routes))

\* The attempt failed and is the last one.
record_final_failure(c, kind) ==
  LET status == client_status(kind)
      failed == record_failure(
                  record_outcome(record_request(c, status), failure_outcome(kind)), status)
      listed == [failed EXCEPT
                   !.backend_attempts = Append(@, finish(c.attempt_record, status,
                                                         failure_outcome(kind))),
                   !.attempt_record = NoAttempt]
  IN respond(record_inspector(listed, failure_outcome(kind), status, FALSE),
             "error", status)

-----------------------------------------------------------------------------
(***************************************************************************)
(* Responses.                                                              *)
(***************************************************************************)

is_success(status) == status \in 200..299

map_upstream_status(status) == IF status \in {400, 408, 422, 429} THEN status ELSE 502

\* The response headers have arrived: the attempt moves into the context.
headers_received(c, status) ==
  live_upsert([c EXCEPT !.upstream_status = status,
                        !.current_attempt = c.attempt_record,
                        !.attempt_record = NoAttempt])

\* Both ends of the non-success path.  Metrics and the record get the status
\* the client sees, health the backend's own.
record_non_success(c, exposed) ==
  LET status == map_upstream_status(c.upstream_status)
      failed == record_failure(
                  record_outcome(record_request(c, status), "upstream_non_success"),
                  c.upstream_status)
      listed == record_final_attempt(failed, status, "upstream_non_success")
  IN respond(record_inspector(listed, "upstream_non_success", status, exposed),
             IF exposed THEN "forwarded" ELSE "error", status)

forward_upstream_error(c) == record_non_success(c, TRUE)

sanitize_upstream_error(c) == record_non_success(c, FALSE)

\* Mutant: a truncated body is forwarded as well.
error_body_done_truncated(c, captured) ==
  IF c.route.expose_backend_errors /\ captured
  THEN forward_upstream_error(c)
  ELSE sanitize_upstream_error(c)

\* do_proxy once the error body has been read (captured) or reading it failed.
error_body_done(c, captured) ==
  IF c.route.expose_backend_errors /\ captured /\ ~c.truncated
  THEN forward_upstream_error(c)
  ELSE sanitize_upstream_error(c)

\* buffered_response after the body was read, and after reading it failed.
buffered_ok(c) ==
  LET done == record_success(
                record_outcome(record_request(c, c.upstream_status), "completed"),
                c.upstream_status)
      listed == record_final_attempt(done, c.upstream_status, "completed")
  IN respond(record_inspector(listed, "completed", c.upstream_status, FALSE),
             "buffered", c.upstream_status)

buffered_failed(c, written) ==
  LET captured == ensure_failure_debug_capture(record_request(c, 502), written)
      failed == record_failure(record_outcome(captured, "upstream_body_read_failed"), 502)
      listed == record_final_attempt(failed, 502, "upstream_body_read_failed")
  IN respond(record_inspector(listed, "upstream_body_read_failed", 502, FALSE),
             "error", 502)

\* streaming_response: the status line is committed to the client here.  The
\* stream capture is opened only next to a debug capture that exists already.
streaming_response(c) ==
  [record_request(c, c.upstream_status) EXCEPT
     !.pc = "stream",
     !.response = [kind |-> "stream", status |-> c.upstream_status],
     !.stream_capture = IF c.route.stream_capture /\ c.debug_capture # 0
                        THEN "open" ELSE "closed"]

stream_outcome(c) ==
  IF c.stream_error_kind # None THEN "upstream_stream_failed"
  ELSE IF c.body_complete THEN "completed" ELSE "stream_incomplete"

\* Mutant: the drop counts the request that streaming_response has counted.
stream_dropped_counted(c, written) ==
  LET outcome == stream_outcome(c)
      listed == record_final_attempt(record_request(c, c.upstream_status),
                                     c.upstream_status, outcome)
  IN [record_inspector(listed, outcome, c.upstream_status, FALSE)
        EXCEPT !.pc = "done", !.streams_total = @ + 1]

\* Drop for StreamMetrics, however the stream came to its end.
stream_dropped(c, written) ==
  LET outcome == stream_outcome(c)
      captured == IF c.stream_error_kind # None
                  THEN ensure_failure_debug_capture(c, written) ELSE c
      listed == record_final_attempt(captured, c.upstream_status, outcome)
      judged == CASE outcome = "upstream_stream_failed" ->
                       record_failure(listed, c.upstream_status)
                  [] outcome = "completed" -> record_success(listed, c.upstream_status)
                  [] outcome = "stream_incomplete" -> listed
      final == record_inspector(record_outcome(judged, outcome), outcome,
                                c.upstream_status, FALSE)
  IN [final EXCEPT !.pc = "done", !.streams_total = @ + 1]

-----------------------------------------------------------------------------
(***************************************************************************)
(* The actions of one request.  written is the result of writing a debug   *)
(* capture, wherever the step may write one.                               *)
(***************************************************************************)

Become(r, c) == req' = [req EXCEPT ![r] = c] /\ UNCHANGED <<shutdown, dropped>>

At(r, pc) == req[r].pc = pc /\ ~dropped

\* Anthropic's count_tokens is answered before anything is observed.
CountTokens(r) ==
  /\ At(r, "new")
  /\ Become(r, respond(req[r], "error", 404))

handle_preflight_failure(c, status) ==
  respond(record_inspector(record_request(c, status), "preflight", status, FALSE),
          "error", status)

\* One of the stages auth, inspect, access and route refuses the request.
Preflight(r) ==
  /\ At(r, "new")
  /\ \E status \in {400, 401, 404} :
       Become(r, handle_preflight_failure(req[r], status))

\* Mutant: the head of the candidates is not counted against the fallbacks.
AdmitOneMore(r) ==
  /\ At(r, "new")
  /\ \E routes \in Candidates, stream \in BOOLEAN :
       LET taken == IF Len(routes) - 2 < req[r].cfg.fallback_attempts
                    THEN Len(routes) ELSE 2 + req[r].cfg.fallback_attempts
       IN Become(r, live_upsert(
            [req[r] EXCEPT !.pc = "route", !.stream = stream,
                           !.candidates = routes, !.route = Head(routes),
                           !.labels_backend = Head(routes).backend_id,
                           !.fallback_routes = SubSeq(routes, 2, taken),
                           !.attempt = 1, !.max_attempts = taken]))

\* The rest of proxy_v1: keep the head and the allowed fallbacks of the
\* candidates, and publish the initial record.
Admit(r) ==
  /\ At(r, "new")
  /\ \E routes \in Candidates, stream \in BOOLEAN :
       LET taken == IF Len(routes) - 1 < req[r].cfg.fallback_attempts
                    THEN Len(routes) ELSE 1 + req[r].cfg.fallback_attempts
       IN Become(r, live_upsert(
            [req[r] EXCEPT !.pc = "route", !.stream = stream,
                           !.candidates = routes, !.route = Head(routes),
                           !.labels_backend = Head(routes).backend_id,
                           !.fallback_routes = SubSeq(routes, 2, taken),
                           !.attempt = 1, !.max_attempts = taken]))

\* prepare_outbound and the start of send_upstream_request: the request is
\* handed to reqwest unless a shutdown has been signalled.
PrepareOutbound(r) ==
  /\ At(r, "route") /\ ~shutdown
  /\ \E written \in BOOLEAN :
       Become(r, [prepare_outbound(req[r], written) EXCEPT !.pc = "send", !.sent = @ + 1])

PrepareShutdown(r) ==
  /\ At(r, "route") /\ shutdown
  /\ \E written \in BOOLEAN :
       Become(r, respond(prepare_outbound(req[r], written), "error", 500))

\* The body cannot be rewritten for this backend: `?` leaves do_proxy after
\* the attempt was counted, and nothing else is recorded.
RewriteFailed(r) ==
  /\ At(r, "route")
  /\ Become(r, respond(record_backend_attempt(req[r]), "error", 400))

\* Mutant: the wait for the response goes on after the shutdown was seen.
SendShutdownIgnored(r) == At(r, "send") /\ shutdown /\ UNCHANGED vars

\* send_upstream_request: its select looks at the shutdown channel first.
SendShutdown(r) ==
  /\ At(r, "send") /\ shutdown
  /\ Become(r, respond(req[r], "error", 500))

SendRetry(r) ==
  /\ At(r, "send") /\ ~shutdown
  /\ req[r].fallback_routes # <<>>
  /\ \E kind \in UpstreamErrors, written \in BOOLEAN :
       /\ is_retryable(kind)
       /\ Become(r, record_retry(ensure_failure_debug_capture(req[r], written), kind))

SendFailed(r) ==
  /\ At(r, "send") /\ ~shutdown
  /\ \E kind \in UpstreamErrors, written \in BOOLEAN :
       /\ is_retryable(kind) => req[r].fallback_routes = <<>>
       /\ Become(r, record_final_failure(
                      ensure_failure_debug_capture(req[r], written), kind))

\* Headers of a non-success response: the body is read only when a capture or
\* the route wants it.
SendNonSuccess(r) ==
  /\ At(r, "send") /\ ~shutdown
  /\ \E status \in UpstreamStatuses, written \in BOOLEAN :
       LET c == ensure_failure_debug_capture(headers_received(req[r], status), written)
       IN /\ ~is_success(status)
          /\ Become(r, IF c.debug_capture # 0 \/ c.route.expose_backend_errors
                       THEN [c EXCEPT !.pc = "error_body"]
                       ELSE sanitize_upstream_error(c))

\* Mutant: the chunk that fills the buffer is kept whole.
ErrorBodyChunkUncapped(r) ==
  /\ At(r, "error_body") /\ ~shutdown
  /\ \E n \in 1..(ErrorBodyCap + 1) :
       LET c == req[r]
           full == c.error_bytes + n >= ErrorBodyCap
           read == [c EXCEPT !.error_bytes = @ + n, !.received_bytes = @ + n,
                             !.truncated = full]
       IN Become(r, IF full THEN error_body_done(read, TRUE) ELSE read)

\* One chunk in read_capped_upstream_error_body; a full buffer ends the loop.
ErrorBodyChunk(r) ==
  /\ At(r, "error_body") /\ ~shutdown
  /\ \E n \in 1..(ErrorBodyCap + 1) :
       LET c == req[r]
           full == c.error_bytes + n >= ErrorBodyCap
           read == [c EXCEPT !.error_bytes = IF full THEN ErrorBodyCap ELSE @ + n,
                             !.received_bytes = @ + n,
                             !.truncated = full]
       IN Become(r, IF full THEN error_body_done(read, TRUE) ELSE read)

ErrorBodyEnd(r) ==
  /\ At(r, "error_body") /\ ~shutdown
  /\ Become(r, error_body_done([req[r] EXCEPT !.upstream_ended = TRUE], TRUE))

\* Mutant: an error response whose body is lost is tried on the next backend.
ErrorBodyLostRetried(r) ==
  /\ At(r, "error_body")
  /\ IF req[r].fallback_routes = <<>>
     THEN Become(r, error_body_done(req[r], FALSE))
     ELSE Become(r, record_retry([req[r] EXCEPT !.attempt_record = req[r].current_attempt,
                                                !.current_attempt = NoAttempt],
                                 "connect"))

\* Reading the error body fails, or stops because of a shutdown: the client
\* still gets its answer, from the sanitized path.
ErrorBodyLost(r) ==
  /\ At(r, "error_body")
  /\ Become(r, error_body_done(req[r], FALSE))

\* Headers of a success.  A request that asked for a stream is streamed, any
\* other one when the backend answers with an event stream.
SendStreaming(r) ==
  /\ At(r, "send") /\ ~shutdown
  /\ \E status \in UpstreamStatuses :
       /\ is_success(status)
       /\ Become(r, streaming_response(headers_received(req[r], status)))

SendBuffered(r) ==
  /\ At(r, "send") /\ ~shutdown
  /\ ~req[r].stream
  /\ \E status \in UpstreamStatuses :
       /\ is_success(status)
       /\ Become(r, [headers_received(req[r], status) EXCEPT !.pc = "buffer"])

BufferedEnd(r) ==
  /\ At(r, "buffer") /\ ~shutdown
  /\ Become(r, buffered_ok([req[r] EXCEPT !.upstream_ended = TRUE]))

BufferedFailed(r) ==
  /\ At(r, "buffer") /\ ~shutdown
  /\ \E written \in BOOLEAN : Become(r, buffered_failed(req[r], written))

\* Mutant: the read loop goes around again when the shutdown is signalled.
BufferedShutdownIgnored(r) == At(r, "buffer") /\ shutdown /\ UNCHANGED vars

BufferedShutdown(r) ==
  /\ At(r, "buffer") /\ shutdown
  /\ Become(r, respond(req[r], "error", 500))

\* The stream loop still wants chunks.
Streaming(r) ==
  At(r, "stream") /\ ~req[r].body_complete /\ req[r].stream_error_kind = None

StreamChunk(r) ==
  /\ Streaming(r) /\ ~shutdown
  /\ Become(r, [req[r] EXCEPT !.client_bytes = TRUE])

StreamError(r) ==
  /\ Streaming(r) /\ ~shutdown
  /\ \E kind \in UpstreamErrors :
       Become(r, [req[r] EXCEPT !.stream_error_kind = kind,
                                !.stream_capture = IF @ = "open" THEN "error" ELSE @])

\* mark_body_complete and record_done, after next_stream_chunk returned None.
body_completed(c) ==
  [c EXCEPT !.body_complete = TRUE, !.stream_capture = IF @ = "open" THEN "done" ELSE @]

StreamEnd(r) ==
  /\ Streaming(r) /\ ~shutdown
  /\ Become(r, body_completed([req[r] EXCEPT !.upstream_ended = TRUE]))

\* A shutdown makes next_stream_chunk return None as well.
StreamShutdown(r) ==
  /\ Streaming(r) /\ shutdown
  /\ Become(r, body_completed(req[r]))

\* The response body is dropped: it is exhausted, the client has gone, or the
\* process is exiting.
StreamDrop(r) ==
  /\ At(r, "stream")
  /\ \E written \in BOOLEAN : Become(r, stream_dropped(req[r], written))

\* The server drops the handler of a client that has gone away.  No
\* destructor of the context records anything.
HandlerDropped(r) ==
  /\ ~dropped
  /\ req[r].pc \in {"send", "error_body", "buffer"}
  /\ Become(r, [req[r] EXCEPT !.pc = "done"])

-----------------------------------------------------------------------------
(***************************************************************************)
(* The process.                                                            *)
(***************************************************************************)

\* shutdown_signal
Shutdown ==
  /\ ~shutdown
  /\ shutdown' = TRUE
  /\ UNCHANGED <<req, dropped>>

\* Mutant: the drop also marks records that are final already.
mark_every_record_interrupted(record) ==
  IF record.outcome # "unpublished"
  THEN [record EXCEPT !.outcome = "interrupted", !.status = 503]
  ELSE record

mark_record_interrupted(record) ==
  IF record.outcome = "in_flight"
  THEN [record EXCEPT !.outcome = "interrupted", !.status = 503]
  ELSE record

\* Drop for InspectorStoreInner, with persistence: the last handler is gone.
StoreDrop ==
  /\ shutdown /\ ~dropped
  /\ \A r \in Requests : req[r].pc \in {"new", "done"}
  /\ dropped' = TRUE
  /\ req' = [r \in Requests |->
               [req[r] EXCEPT !.record = mark_record_interrupted(@)]]
  /\ UNCHANGED shutdown

\* The process has exited.
Exited == dropped /\ UNCHANGED vars

Init ==
  /\ req \in [Requests -> {NewContext(cfg) : cfg \in Configs}]
  /\ shutdown = FALSE
  /\ dropped = FALSE

\* Steps the handler takes by itself once it is admitted: each await ends
\* because the request to the backend has a timeout that covers its body.
Progress(r) ==
  \/ PrepareOutbound(r) \/ PrepareShutdown(r) \/ RewriteFailed(r)
  \/ SendShutdown(r) \/ SendRetry(r) \/ SendFailed(r) \/ SendNonSuccess(r)
  \/ SendStreaming(r) \/ SendBuffered(r)
  \/ ErrorBodyChunk(r) \/ ErrorBodyEnd(r) \/ ErrorBodyLost(r)
  \/ BufferedEnd(r) \/ BufferedFailed(r) \/ BufferedShutdown(r)

Request(r) ==
  \/ CountTokens(r) \/ Preflight(r) \/ Admit(r)
  \/ Progress(r)
  \/ StreamChunk(r) \/ StreamError(r) \/ StreamEnd(r) \/ StreamShutdown(r)
  \/ StreamDrop(r) \/ HandlerDropped(r)

Next == (\E r \in Requests : Request(r)) \/ Shutdown \/ StoreDrop \/ Exited

Spec == Init /\ [][Next]_vars

\* After a shutdown the server waits five seconds and then drops every
\* connection, so a stream whose client has stopped reading ends as well.
Fairness ==
  \A r \in Requests : WF_vars(Progress(r)) /\ WF_vars(shutdown /\ StreamDrop(r))

FairSpec == Spec /\ Fairness

-----------------------------------------------------------------------------
(***************************************************************************)
(* Properties that hold.                                                   *)
(***************************************************************************)

\* Every context is one the handlers can build.
TypeOK ==
  /\ req \in [Requests -> Context]
  /\ shutdown \in BOOLEAN
  /\ dropped \in BOOLEAN

\* Fallback walks down the candidates in the order routing returned them: the
\* n-th attempt goes to the n-th candidate, whose id labels its metrics, health
\* entries and attempt record; no candidate position is tried twice, and there
\* is at most one try more than fallback_attempts allows (proxy.rs:234-241,
\* record_retry, apply_route).
AttemptsFollowCandidates ==
  \A r \in Requests :
    LET c == req[r] IN
    /\ c.attempt <= c.max_attempts
    /\ c.max_attempts <= 1 + c.cfg.fallback_attempts
    /\ \A i \in DOMAIN c.backend_attempts :
         /\ c.backend_attempts[i].attempt = i
         /\ c.backend_attempts[i].backend = c.candidates[i].backend_id
    /\ \A i \in DOMAIN c.backend_attempts_total :
         c.backend_attempts_total[i] = c.candidates[i].backend_id
    /\ c.attempt > 0 => c.route = c.candidates[c.attempt]

\* What the record of request c says about its attempts, once it is final.
ListsEveryAttempt(c) ==
  LET record == c.record
      retried == Len(record.retried)
  IN /\ record.outcome \in RR!AttemptOutcomes =>
          /\ Len(record.attempts) = Len(c.backend_attempts_total)
          /\ \A i \in DOMAIN record.attempts :
               record.attempts[i].backend = c.backend_attempts_total[i]
          /\ record.retried = SubSeq(record.attempts, 1, Len(record.attempts) - 1)
          /\ record.attempts[retried + 1].outcome = record.outcome
          /\ record.attempts[retried + 1].status = record.status
     /\ record.outcome = "interrupted" =>
          /\ Len(record.attempts) <= c.sent
          /\ c.sent <= Len(record.attempts) + 1

\* The attempt metric counts what the record lists: a record with an outcome
\* of its own lists exactly the attempts counted by the metric, in order, and
\* retried_attempts is all but the last of them (docs/observability.md:280-293).
\* An interrupted record misses at most the attempt whose headers were awaited.
RecordListsEveryAttempt == \A r \in Requests : ListsEveryAttempt(req[r])

\* Attempts that say something about their backend.
Judged == {a \in AttemptRecord : a.outcome # "stream_incomplete"}

\* Health has one verdict for each attempt of request c that has one.
JudgesEveryAttempt(c) ==
  LET judged == Keep(c.backend_attempts, Judged)
  IN /\ Len(c.health) = Len(judged)
     /\ \A i \in DOMAIN judged :
          /\ c.health[i].backend = judged[i].backend
          /\ c.health[i].ok <=> judged[i].outcome = "completed"

\* Backend health gets one verdict for each attempt that has one, under the
\* backend that was tried: failure for every failed attempt, retried or final,
\* and success for a completed one.  A stream the client abandoned says
\* nothing about its backend.
HealthJudgesEveryAttempt == \A r \in Requests : JudgesEveryAttempt(req[r])

\* The captures of the attempts that request c has listed.
CapturesMatch(c) ==
  \A i \in DOMAIN c.backend_attempts :
    LET a == c.backend_attempts[i] IN
    /\ c.captures[i] \in {None, a.outcome}
    /\ a.debug_capture_id = IF c.captures[i] = None THEN 0 ELSE i
    /\ c.cfg.debug_capture = "failures" /\ c.captures[i] # None =>
         a.outcome \notin {"completed", "stream_incomplete"}

\* A debug capture belongs to the attempt it was made for: no capture keeps
\* the outcome "sent to upstream" once its attempt is over, its outcome is the
\* attempt's, and the attempt carries its id.  In mode "failures" only
\* failed attempts are captured (docs/observability.md:53-55).
CapturesMatchAttempts == \A r \in Requests : CapturesMatch(req[r])

\* The request was answered without being observed: count_tokens, a body that
\* cannot be rewritten, a shutdown, or a client that went away.
Unobserved(c) ==
  \/ c.response.kind = "none"
  \/ c.response.kind = "error" /\ c.response.status \in {400, 404, 500}

\* A request is counted at most once, with the status its client saw; what is
\* not counted is one of the four unobserved endings, and the inspector has a
\* final record of exactly the requests that were counted.
CountedOnceAsAnswered ==
  \A r \in Requests :
    LET c == req[r] IN
    /\ c.requests_total \in {<<>>, <<c.response.status>>}
    /\ c.pc = "done" /\ c.requests_total = <<>> => Unobserved(c)
    /\ c.pc = "done" /\ c.cfg.inspector /\ ~dropped =>
         (c.record.outcome \in RR!FinalOutcomes <=> c.requests_total # <<>>)

\* The error that request c forwarded, if it did.
ForwardsWhole(c) ==
  c.response.kind = "forwarded" =>
    /\ c.route.expose_backend_errors
    /\ c.upstream_ended
    /\ c.received_bytes < ErrorBodyCap
    /\ c.cfg.inspector => c.record.exposed
    /\ c.health[Len(c.health)].status = c.upstream_status

\* An upstream error body reaches the client only if its route asked for it
\* and it was read to its end; the record says so, and health keeps the
\* backend's own status (docs/configuration.md:536-557).
ForwardedErrorsAreWhole == \A r \in Requests : ForwardsWhole(req[r])

\* Once response headers have arrived or anything was committed to the client,
\* no further attempt is started (docs/routing.md:332-338).
NoRetryAfterHeaders ==
  [][\A r \in Requests :
       req[r].current_attempt # NoAttempt \/ req[r].response.kind # "none"
       => /\ req'[r].attempt = req[r].attempt
          /\ req'[r].backend_attempts_total = req[r].backend_attempts_total]_vars

\* The record of a request behaves as RequestRecord promises the inspector.
ImplementsRequestRecord == RR!Spec

\* An admitted request is answered or committed to a stream: every wait for a
\* backend ends, and there are finitely many fallbacks.
AdmittedIsAnswered ==
  \A r \in Requests : req[r].pc = "route" ~> req[r].pc \in {"stream", "done"}

\* After a shutdown every request comes to its end, so that the inspector store
\* can be dropped.
ShutdownEndsRequests ==
  shutdown ~> \A r \in Requests : req[r].pc \in {"new", "done"}

-----------------------------------------------------------------------------
(***************************************************************************)
(* A statement of the documentation that the code does not keep.           *)
(***************************************************************************)

\* docs/observability.md:147: "done" is recorded once the upstream stream
\* completes.
DoneMeansUpstreamEnded ==
  \A r \in Requests : req[r].stream_capture = "done" => req[r].upstream_ended
=============================================================================
