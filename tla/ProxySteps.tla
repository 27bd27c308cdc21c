----------------------------- MODULE ProxySteps ------------------------------
(***************************************************************************)
(* What each method of a request's context in Proxy changes and leaves     *)
(* alone, the inductive invariant, and the proof that every action keeps   *)
(* it.  The contexts of two requests never meet, so the invariant CInv is  *)
(* a predicate on one context, and the lemmas are about one context.       *)
(***************************************************************************)
EXTENDS Proxy, TLAPS

\* Zenon proves the steps that name no prover.
USE ZenonT(20)

-----------------------------------------------------------------------------
(***************************************************************************)
(* Methods.  WithX(c, ...) names an update of c, and lemma SetX says what  *)
(* it does.                                                                *)
(***************************************************************************)

Fields == {"pc", "cfg", "stream", "candidates", "route", "fallback_routes",
           "labels_backend", "attempt", "max_attempts", "attempt_record",
           "current_attempt", "backend_attempts", "retried_attempts",
           "debug_capture", "pending_debug_capture", "captures", "sent",
           "upstream_status", "error_bytes", "truncated", "received_bytes",
           "upstream_ended", "client_bytes", "body_complete",
           "stream_error_kind", "stream_capture", "requests_total",
           "backend_attempts_total", "streams_total", "health", "record",
           "response"}

\* Context d has the fields of c, but for those named in F.
Keeps(c, d, F) == \A f \in Fields : f \notin F => d[f] = c[f]

\* d is a context that differs from c at most in the fields F.
Changes(c, d, F) == d \in Context /\ Keeps(c, d, F)

\* Metrics::record_request only appends a status.
LEMMA RecordRequest ==
  ASSUME NEW c \in Context, NEW status \in Nat
  PROVE  LET d == record_request(c, status)
         IN /\ Changes(c, d, {"requests_total"})
            /\ d.requests_total = Append(c.requests_total, status)
  <1>1. Append(c.requests_total, status) \in Seq(Nat)
    BY SMTT(30) DEF Context
  <1>2. record_request(c, status) \in Context
    BY <1>1, ZenonT(60) DEF record_request, Context
  <1> QED
    BY <1>2 DEF Changes, Keeps, Fields, record_request, Context

\* Metrics::record_backend_attempt only appends the labelled backend.
LEMMA RecordBackendAttempt ==
  ASSUME NEW c \in Context, c.labels_backend \in Backends
  PROVE  LET d == record_backend_attempt(c)
         IN /\ Changes(c, d, {"backend_attempts_total"})
            /\ d.backend_attempts_total = Append(c.backend_attempts_total, c.labels_backend)
  <1>1. Append(c.backend_attempts_total, c.labels_backend) \in Seq(Backends)
    BY SMTT(30) DEF Context
  <1>2. record_backend_attempt(c) \in Context
    BY <1>1, ZenonT(60) DEF record_backend_attempt, Context
  <1> QED
    BY <1>2 DEF Changes, Keeps, Fields, record_backend_attempt, Context

\* A health verdict changes nothing else.
LEMMA RecordHealth ==
  ASSUME NEW c \in Context, c.labels_backend \in Backends,
         NEW ok \in BOOLEAN, NEW status \in Nat
  PROVE  Changes(c, record_health(c, ok, status), {"health"})
  <1> DEFINE verdict == [backend |-> c.labels_backend, ok |-> ok, status |-> status]
  <1>1. Append(c.health, verdict) \in Seq([backend : Backends, ok : BOOLEAN, status : Nat])
    BY SMTT(30) DEF Context
  <1>2. record_health(c, ok, status) \in Context
    BY <1>1, ZenonT(60) DEF record_health, Context
  <1> QED
    BY <1>2 DEF Changes, Keeps, Fields, record_health, Context

\* Storing a record changes nothing else, and does nothing without inspector.
LEMMA Upsert ==
  ASSUME NEW c \in Context, NEW record \in InspectorRecord
  PROVE  LET d == upsert(c, record)
         IN /\ Changes(c, d, {"record"})
            /\ d.record = IF c.cfg.inspector THEN record ELSE c.record
  <1>1. [c EXCEPT !.record = record] \in Context
    BY ZenonT(60) DEF Context
  <1>2. upsert(c, record) \in Context
    BY <1>1 DEF upsert
  <1> QED
    BY <1>2 DEF Changes, Keeps, Fields, upsert, Context

\* The live record is in flight and lists the current attempt, if there is one.
LEMMA LiveUpsert ==
  ASSUME NEW c \in Context
  PROVE  LET d == live_upsert(c)
         IN /\ Changes(c, d, {"record"})
            /\ ~c.cfg.inspector => d.record = c.record
            /\ c.cfg.inspector =>
                 /\ d.record.outcome = "in_flight"
                 /\ Len(d.record.attempts) = IF c.current_attempt = NoAttempt
                                             THEN Len(c.backend_attempts)
                                             ELSE Len(c.backend_attempts) + 1
  <1> DEFINE record == build_live_record_from_context(c)
             current == [c.current_attempt EXCEPT !.outcome = "in_progress"]
  <1>1. c.current_attempt # NoAttempt => current \in AttemptRecord
    BY DEF Context, AttemptRecord
  <1>2. record.attempts \in Seq(AttemptRecord)
    <2>1. c.backend_attempts \in Seq(AttemptRecord)
      BY DEF Context
    <2> QED
      BY <1>1, <2>1, SMTT(30) DEF build_live_record_from_context
  <1>3. record \in InspectorRecord
    BY <1>2 DEF build_live_record_from_context, InspectorRecord, Context
  <1>4. Len(record.attempts) = IF c.current_attempt = NoAttempt
                               THEN Len(c.backend_attempts)
                               ELSE Len(c.backend_attempts) + 1
    <2>1. c.backend_attempts \in Seq(AttemptRecord)
      BY DEF Context
    <2> QED
      BY <1>1, <2>1, SMTT(30) DEF build_live_record_from_context
  <1>5. record.outcome = "in_flight"
    BY DEF build_live_record_from_context
  <1> HIDE DEF record
  <1> QED
    BY <1>3, <1>4, <1>5, Upsert DEF live_upsert, record

\* A final record lists the finished attempts under the given outcome.
LEMMA RecordInspector ==
  ASSUME NEW c \in Context, NEW outcome \in RR!FinalOutcomes, NEW status \in Nat,
         NEW exposed \in BOOLEAN
  PROVE  LET d == record_inspector(c, outcome, status, exposed)
         IN /\ Changes(c, d, {"record"})
            /\ ~c.cfg.inspector => d.record = c.record
            /\ c.cfg.inspector => /\ d.record.outcome = outcome
                                  /\ d.record.attempts = c.backend_attempts
  <1> DEFINE record == [outcome |-> outcome, status |-> status,
                        attempts |-> c.backend_attempts,
                        retried |-> c.retried_attempts, exposed |-> exposed]
  <1>1. record \in InspectorRecord
    BY DEF InspectorRecord, Context
  <1>2. record.outcome = outcome /\ record.attempts = c.backend_attempts
    OBVIOUS
  <1>3. record_inspector(c, outcome, status, exposed) = upsert(c, record)
    BY DEF record_inspector
  <1> HIDE DEF record
  <1> QED
    BY <1>1, <1>2, <1>3, Upsert

\* Returning a response ends the handler and changes nothing else.
LEMMA Respond ==
  ASSUME NEW c \in Context, NEW kind, NEW status \in Nat,
         kind \in {"error", "forwarded", "buffered"}
  PROVE  LET d == respond(c, kind, status)
         IN /\ Changes(c, d, {"pc", "response"})
            /\ d.pc = "done"
            /\ d.response = [kind |-> kind, status |-> status]
  <1> DEFINE response == [kind |-> kind, status |-> status]
  <1>1. response \in Response
    BY DEF Response
  <1> HIDE DEF response
  <1>2. [c EXCEPT !.pc = "done", !.response = response] \in Context
    BY <1>1, ZenonT(60) DEF Context
  <1>3. Keeps(c, [c EXCEPT !.pc = "done", !.response = response], {"pc", "response"})
    BY DEF Keeps, Fields, Context
  <1>4. /\ [c EXCEPT !.pc = "done", !.response = response].pc = "done"
        /\ [c EXCEPT !.pc = "done", !.response = response].response = response
    BY DEF Context
  <1> QED
    BY <1>2, <1>3, <1>4 DEF Changes, respond, response

\* The captures are a function of the attempt number that any outcome may enter.
LEMMA CaptureOutcome ==
  ASSUME NEW c \in Context, NEW n \in AttemptNumbers, NEW o,
         o \in RR!AttemptOutcomes \cup {None, "sent_to_upstream"}
  PROVE  Changes(c, [c EXCEPT !.captures[n] = o], {"captures"})
  <1>1. [c.captures EXCEPT ![n] = o]
          \in [AttemptNumbers -> RR!AttemptOutcomes \cup {None, "sent_to_upstream"}]
    BY DEF Context
  <1>2. [c EXCEPT !.captures[n] = o] = [c EXCEPT !.captures = [c.captures EXCEPT ![n] = o]]
    OBVIOUS
  <1>3. \A f : f \in [AttemptNumbers -> RR!AttemptOutcomes \cup {None, "sent_to_upstream"}] =>
          Changes(c, [c EXCEPT !.captures = f], {"captures"})
    BY ZenonT(60) DEF Changes, Keeps, Fields, Context
  <1> QED
    BY <1>1, <1>2, <1>3

\* RequestCapture::record_outcome touches the metadata of the capture only.
LEMMA RecordOutcome ==
  ASSUME NEW c \in Context, NEW outcome \in RR!AttemptOutcomes
  PROVE  Changes(c, record_outcome(c, outcome), {"captures"})
  <1>1. CASE c.debug_capture = 0
    BY <1>1 DEF record_outcome, Changes, Keeps
  <1>2. CASE c.debug_capture # 0
    <2>1. c.debug_capture \in AttemptNumbers
      BY <1>2 DEF Context
    <2> QED
      BY <1>2, <2>1, CaptureOutcome DEF record_outcome
  <1> QED
    BY <1>1, <1>2

\* PendingDebugCapture::capture, written or not.
LEMMA Capture ==
  ASSUME NEW c \in Context, NEW n \in AttemptNumbers, NEW written \in BOOLEAN
  PROVE  Changes(c, capture(c, n, written), {"debug_capture", "captures"})
  <1>1. \A k \in {0} \cup AttemptNumbers :
          Changes(c, [c EXCEPT !.debug_capture = k], {"debug_capture"})
    <2> SUFFICES ASSUME NEW k \in {0} \cup AttemptNumbers
                 PROVE  Changes(c, [c EXCEPT !.debug_capture = k], {"debug_capture"})
      OBVIOUS
    <2>1. [c EXCEPT !.debug_capture = k] \in Context
      BY ZenonT(60) DEF Context
    <2> QED
      BY <2>1 DEF Changes, Keeps, Fields, Context
  <1>2. CASE ~written
    BY <1>1, <1>2 DEF capture, Changes, Keeps
  <1>3. CASE written
    <2> DEFINE d == [c EXCEPT !.debug_capture = n]
    <2>1. Changes(c, d, {"debug_capture"})
      BY <1>1
    <2>2. Changes(d, [d EXCEPT !.captures[n] = "sent_to_upstream"], {"captures"})
      BY <2>1, CaptureOutcome DEF Changes
    <2>3. DOMAIN d = DOMAIN c
      OBVIOUS
    <2>4. capture(c, n, written) = [d EXCEPT !.captures[n] = "sent_to_upstream"]
      BY <1>3 DEF capture
    <2> HIDE DEF d
    <2> QED
      BY <2>1, <2>2, <2>3, <2>4 DEF Changes, Keeps
  <1> QED
    BY <1>2, <1>3

\* b is the attempt a, but perhaps for the id of its capture.
SameAttempt(a, b) ==
  /\ b \in AttemptRecord \cup {NoAttempt}
  /\ a = NoAttempt <=> b = NoAttempt
  /\ b.attempt = a.attempt /\ b.backend = a.backend

\* An attempt record is not NoAttempt, since attempts are numbered from 1.
LEMMA NoAttemptIsNone == NoAttempt \notin AttemptRecord
  BY BoundsAssumption, SMTT(30) DEF NoAttempt, AttemptRecord, AttemptNumbers

\* InspectorAttemptBuilder::set_debug_capture
LEMMA SetDebugCapture ==
  ASSUME NEW a \in AttemptRecord \cup {NoAttempt}, NEW id \in {0} \cup AttemptNumbers
  PROVE  SameAttempt(a, set_debug_capture(a, id))
  <1>1. CASE a = NoAttempt
    BY <1>1 DEF SameAttempt, set_debug_capture
  <1>2. CASE a # NoAttempt
    <2>1. [a EXCEPT !.debug_capture_id = id] \in AttemptRecord
      BY <1>2 DEF AttemptRecord
    <2>2. /\ [a EXCEPT !.debug_capture_id = id].attempt = a.attempt
          /\ [a EXCEPT !.debug_capture_id = id].backend = a.backend
      BY <1>2 DEF AttemptRecord
    <2> QED
      BY <1>2, <2>1, <2>2, NoAttemptIsNone DEF SameAttempt, set_debug_capture
  <1> QED
    BY <1>1, <1>2

\* A pending capture and the attempts may be replaced by others of their type.
LEMMA SetPending ==
  ASSUME NEW c \in Context, NEW k \in {0} \cup AttemptNumbers
  PROVE  Changes(c, [c EXCEPT !.pending_debug_capture = k], {"pending_debug_capture"})
  <1>1. [c EXCEPT !.pending_debug_capture = k] \in Context
    BY ZenonT(60) DEF Context
  <1> QED
    BY <1>1 DEF Changes, Keeps, Fields, Context

WithAttempts(c, a, b) == [c EXCEPT !.attempt_record = a, !.current_attempt = b]

\* Replacing both places of the attempt under way (set_debug_capture).
LEMMA SetAttempts ==
  ASSUME NEW c \in Context, NEW a \in AttemptRecord \cup {NoAttempt},
         NEW b \in AttemptRecord \cup {NoAttempt}
  PROVE  LET d == WithAttempts(c, a, b)
         IN /\ Changes(c, d, {"attempt_record", "current_attempt"})
            /\ d.attempt_record = a /\ d.current_attempt = b
  <1>1. WithAttempts(c, a, b) \in Context
    BY ZenonT(60) DEF Context, WithAttempts
  <1> QED
    BY <1>1 DEF Changes, Keeps, Fields, Context, WithAttempts

CaptureFields == {"debug_capture", "pending_debug_capture", "captures",
                  "attempt_record", "current_attempt"}

\* ensure_failure_debug_capture gives the attempt at most a capture's id.
LEMMA EnsureFailureDebugCapture ==
  ASSUME NEW c \in Context, NEW written \in BOOLEAN
  PROVE  LET d == ensure_failure_debug_capture(c, written)
         IN /\ Changes(c, d, CaptureFields)
            /\ SameAttempt(c.attempt_record, d.attempt_record)
            /\ SameAttempt(c.current_attempt, d.current_attempt)
  <1> DEFINE captured == capture(c, c.pending_debug_capture, written)
             taken == IF c.debug_capture = 0 /\ c.pending_debug_capture # 0
                      THEN [captured EXCEPT !.pending_debug_capture = 0] ELSE c
             attempt == set_debug_capture(taken.attempt_record, taken.debug_capture)
             current == set_debug_capture(taken.current_attempt, taken.debug_capture)
             d == WithAttempts(taken, attempt, current)
  <1>1. Changes(c, taken, {"debug_capture", "pending_debug_capture", "captures"})
    <2>1. CASE c.debug_capture = 0 /\ c.pending_debug_capture # 0
      <3> DEFINE reset == [captured EXCEPT !.pending_debug_capture = 0]
      <3>1. c.pending_debug_capture \in AttemptNumbers
        BY <2>1 DEF Context
      <3>2. Changes(c, captured, {"debug_capture", "captures"})
        BY <3>1, Capture
      <3>3. taken = reset
        BY <2>1
      <3> HIDE DEF captured, taken
      <3>4. Changes(captured, reset, {"pending_debug_capture"})
        BY <3>2, SetPending DEF Changes
      <3>5. DOMAIN captured = DOMAIN c
        BY <3>2 DEF Changes, Context
      <3> HIDE DEF reset
      <3> QED
        BY <3>2, <3>3, <3>4, <3>5 DEF Changes, Keeps
    <2>2. CASE ~(c.debug_capture = 0 /\ c.pending_debug_capture # 0)
      BY <2>2 DEF Changes, Keeps
    <2> QED
      BY <2>1, <2>2
  <1> HIDE DEF taken
  <1>2. /\ taken \in Context
        /\ taken.attempt_record = c.attempt_record
        /\ taken.current_attempt = c.current_attempt
        /\ DOMAIN taken = DOMAIN c
    BY <1>1 DEF Changes, Keeps, Fields, Context
  <1>3. SameAttempt(c.attempt_record, attempt) /\ SameAttempt(c.current_attempt, current)
    BY <1>2, SetDebugCapture DEF Context
  <1> HIDE DEF attempt, current
  <1>4. /\ attempt \in AttemptRecord \cup {NoAttempt}
        /\ current \in AttemptRecord \cup {NoAttempt}
    BY <1>3 DEF SameAttempt
  <1>5. /\ Changes(taken, d, {"attempt_record", "current_attempt"})
        /\ d.attempt_record = attempt /\ d.current_attempt = current
    BY <1>2, <1>4, SetAttempts, SMTT(30)
  <1>6. ensure_failure_debug_capture(c, written) = d
    BY DEF ensure_failure_debug_capture, taken, attempt, current, WithAttempts
  <1> HIDE DEF d
  <1>7. Changes(c, d, CaptureFields)
    BY <1>1, <1>2, <1>5 DEF Changes, Keeps, CaptureFields
  <1> QED
    BY <1>3, <1>5, <1>6, <1>7

\* ProxyContext::apply_route
LEMMA ApplyRoute ==
  ASSUME NEW c \in Context, NEW route \in SelectedRoute
  PROVE  LET d == apply_route(c, route)
         IN /\ Changes(c, d, {"route", "labels_backend", "debug_capture",
                              "pending_debug_capture"})
            /\ d.route = route /\ d.labels_backend = route.backend_id
  <1>1. route.backend_id \in Backends
    BY DEF SelectedRoute
  <1>2. apply_route(c, route) \in Context
    BY <1>1, ZenonT(60) DEF apply_route, Context
  <1> QED
    BY <1>2 DEF Changes, Keeps, Fields, apply_route, Context

\* InspectorAttemptBuilder::finish keeps the number and the backend.
LEMMA Finish ==
  ASSUME NEW a \in AttemptRecord, NEW status \in Nat, NEW outcome \in RR!AttemptOutcomes
  PROVE  LET b == finish(a, status, outcome)
         IN b \in AttemptRecord /\ b.attempt = a.attempt /\ b.backend = a.backend
  BY DEF finish, AttemptRecord

\* The lists of attempts may be replaced as well.
WithListed(c, s, t) == [c EXCEPT !.backend_attempts = s, !.retried_attempts = t]

\* Replacing the two lists of attempts (record_retried_attempt).
LEMMA SetListed ==
  ASSUME NEW c \in Context, NEW s \in Seq(AttemptRecord), NEW t \in Seq(AttemptRecord)
  PROVE  LET d == WithListed(c, s, t)
         IN /\ Changes(c, d, {"backend_attempts", "retried_attempts"})
            /\ d.backend_attempts = s
  <1>1. WithListed(c, s, t) \in Context
    BY ZenonT(60) DEF WithListed, Context
  <1> QED
    BY <1>1 DEF Changes, Keeps, Fields, WithListed, Context

\* ProxyContext::record_retried_attempt
LEMMA RecordRetriedAttempt ==
  ASSUME NEW c \in Context, c.current_attempt = NoAttempt, NEW a \in AttemptRecord
  PROVE  LET d == record_retried_attempt(c, a)
         IN /\ Changes(c, d, {"backend_attempts", "retried_attempts", "record"})
            /\ d.backend_attempts = Append(c.backend_attempts, a)
            /\ ~c.cfg.inspector => d.record = c.record
            /\ c.cfg.inspector => /\ d.record.outcome = "in_flight"
                                  /\ Len(d.record.attempts) = Len(c.backend_attempts) + 1
  <1> DEFINE F == {"backend_attempts", "retried_attempts", "record"}
             e == WithListed(c, Append(c.backend_attempts, a), Append(c.retried_attempts, a))
  <1>1. /\ Append(c.backend_attempts, a) \in Seq(AttemptRecord)
        /\ Append(c.retried_attempts, a) \in Seq(AttemptRecord)
        /\ Len(Append(c.backend_attempts, a)) = Len(c.backend_attempts) + 1
    BY SMTT(30) DEF Context
  <1>2. /\ Changes(c, e, {"backend_attempts", "retried_attempts"})
        /\ e.backend_attempts = Append(c.backend_attempts, a)
    BY <1>1, SetListed
  <1>3. record_retried_attempt(c, a) = live_upsert(e)
    BY DEF record_retried_attempt, WithListed
  <1> HIDE DEF e
  <1>4. e.cfg = c.cfg /\ e.current_attempt = NoAttempt /\ e.record = c.record
    BY <1>2 DEF Changes, Keeps, Fields
  <1>5. /\ Changes(e, live_upsert(e), {"record"})
        /\ ~e.cfg.inspector => live_upsert(e).record = e.record
        /\ e.cfg.inspector =>
             /\ live_upsert(e).record.outcome = "in_flight"
             /\ Len(live_upsert(e).record.attempts) = Len(e.backend_attempts)
    BY <1>2, <1>4, LiveUpsert DEF Changes
  <1>6. Changes(c, live_upsert(e), F)
    BY <1>2, <1>5 DEF Changes, Keeps
  <1>7. live_upsert(e).backend_attempts = e.backend_attempts
    BY <1>5 DEF Changes, Keeps, Fields
  <1> QED
    BY <1>1, <1>2, <1>3, <1>4, <1>5, <1>6, <1>7

\* ProxyContext::record_final_attempt
LEMMA RecordFinalAttempt ==
  ASSUME NEW c \in Context, c.current_attempt \in AttemptRecord,
         NEW status \in Nat, NEW outcome \in RR!AttemptOutcomes
  PROVE  LET d == record_final_attempt(c, status, outcome)
             b == finish(c.current_attempt, status, outcome)
         IN /\ Changes(c, d, {"backend_attempts", "current_attempt"})
            /\ d.backend_attempts = Append(c.backend_attempts, b)
            /\ d.current_attempt = NoAttempt
  <1> DEFINE b == finish(c.current_attempt, status, outcome)
  <1>1. b \in AttemptRecord
    BY Finish
  <1> HIDE DEF b
  <1>2. Append(c.backend_attempts, b) \in Seq(AttemptRecord)
    BY <1>1, SMTT(30) DEF Context
  <1> DEFINE e == [c EXCEPT !.backend_attempts = Append(c.backend_attempts, b),
                            !.current_attempt = NoAttempt]
  <1>3. e \in Context
    <2>1. \A s \in Seq(AttemptRecord) :
            [c EXCEPT !.backend_attempts = s, !.current_attempt = NoAttempt] \in Context
      BY ZenonT(60) DEF Context
    <2> QED
      BY <1>2, <2>1
  <1>4. /\ Keeps(c, e, {"backend_attempts", "current_attempt"})
        /\ e.backend_attempts = Append(c.backend_attempts, b)
        /\ e.current_attempt = NoAttempt
    BY DEF Keeps, Fields, Context
  <1>5. record_final_attempt(c, status, outcome) = e
    BY DEF record_final_attempt, b
  <1> HIDE DEF e
  <1> QED
    BY <1>3, <1>4, <1>5 DEF Changes, b

\* Both capture slots may be emptied, or filled with a pending capture, and
\* the local attempt record may be replaced.
WithCaptureSlots(c, k) == [c EXCEPT !.debug_capture = 0, !.pending_debug_capture = k]

\* Resetting the capture slots (prepare_outbound, apply_route).
LEMMA SetCaptureSlots ==
  ASSUME NEW c \in Context, NEW k \in {0} \cup AttemptNumbers
  PROVE  Changes(c, WithCaptureSlots(c, k), {"debug_capture", "pending_debug_capture"})
  <1>1. WithCaptureSlots(c, k) \in Context
    BY ZenonT(60) DEF WithCaptureSlots, Context
  <1> QED
    BY <1>1 DEF Changes, Keeps, Fields, WithCaptureSlots, Context

WithAttemptRecord(c, a) == [c EXCEPT !.attempt_record = a]

\* Replacing the local attempt record of do_proxy.
LEMMA SetAttemptRecord ==
  ASSUME NEW c \in Context, NEW a \in AttemptRecord \cup {NoAttempt}
  PROVE  /\ Changes(c, WithAttemptRecord(c, a), {"attempt_record"})
         /\ WithAttemptRecord(c, a).attempt_record = a
  <1>1. WithAttemptRecord(c, a) \in Context
    BY ZenonT(60) DEF WithAttemptRecord, Context
  <1> QED
    BY <1>1 DEF Changes, Keeps, Fields, WithAttemptRecord, Context

\* prepare_outbound counts the attempt, starts its record and prepares its
\* capture.
LEMMA PrepareOutboundEffect ==
  ASSUME NEW c \in Context, NEW written \in BOOLEAN, c.labels_backend \in Backends,
         c.attempt \in AttemptNumbers, c.current_attempt = NoAttempt
  PROVE  LET d == prepare_outbound(c, written)
         IN /\ Changes(c, d, CaptureFields \cup {"backend_attempts_total", "record"})
            /\ d.backend_attempts_total = Append(c.backend_attempts_total, c.labels_backend)
            /\ d.current_attempt = NoAttempt
            /\ d.attempt_record \in AttemptRecord
            /\ d.attempt_record.attempt = c.attempt
            /\ d.attempt_record.backend = c.labels_backend
            /\ ~c.cfg.inspector => d.record = c.record
            /\ c.cfg.inspector => /\ d.record.outcome = "in_flight"
                                  /\ Len(d.record.attempts) = Len(c.backend_attempts)
  <1> DEFINE F == {"debug_capture", "pending_debug_capture", "captures"}
             counted == record_backend_attempt(c)
             captured == CASE c.cfg.debug_capture = "off" ->
                                [counted EXCEPT !.debug_capture = 0,
                                                !.pending_debug_capture = 0]
                           [] c.cfg.debug_capture = "all" ->
                                [capture(counted, c.attempt, written)
                                   EXCEPT !.pending_debug_capture = 0]
                           [] c.cfg.debug_capture = "failures" ->
                                [counted EXCEPT !.debug_capture = 0,
                                                !.pending_debug_capture = c.attempt]
             a == [attempt |-> c.attempt, backend |-> c.labels_backend, status |-> 0,
                   outcome |-> "in_progress", debug_capture_id |-> captured.debug_capture]
             e == WithAttemptRecord(captured, a)
  <1>1. /\ Changes(c, counted, {"backend_attempts_total"})
        /\ counted.backend_attempts_total = Append(c.backend_attempts_total, c.labels_backend)
    BY RecordBackendAttempt
  <1>2. c.cfg.debug_capture \in {"off", "all", "failures"}
    BY DEF Context, Config
  <1>3. Changes(counted, captured, F)
    <2> HIDE DEF counted
    <2>1. counted \in Context
      BY <1>1 DEF Changes
    <2>2. CASE c.cfg.debug_capture = "off"
      <3>1. captured = WithCaptureSlots(counted, 0)
        BY <2>2 DEF WithCaptureSlots
      <3> HIDE DEF captured
      <3> QED
        BY <2>1, <3>1, SetCaptureSlots DEF Changes, Keeps
    <2>3. CASE c.cfg.debug_capture = "failures"
      <3>1. captured = WithCaptureSlots(counted, c.attempt)
        BY <2>3 DEF WithCaptureSlots
      <3> HIDE DEF captured
      <3> QED
        BY <2>1, <3>1, SetCaptureSlots DEF Changes, Keeps
    <2>4. CASE c.cfg.debug_capture = "all"
      <3> DEFINE x == capture(counted, c.attempt, written)
      <3>1. captured = [x EXCEPT !.pending_debug_capture = 0]
        BY <2>4
      <3>2. Changes(counted, x, {"debug_capture", "captures"})
        BY <2>1, Capture
      <3> HIDE DEF captured, x
      <3>3. Changes(x, captured, {"pending_debug_capture"})
        BY <3>1, <3>2, SetPending DEF Changes
      <3> QED
        BY <3>2, <3>3 DEF Changes, Keeps
    <2> QED
      BY <1>2, <2>2, <2>3, <2>4
  <1> HIDE DEF captured, counted
  <1>4. a \in AttemptRecord
    BY <1>3 DEF Changes, AttemptRecord, Context
  <1>5. a.attempt = c.attempt /\ a.backend = c.labels_backend
    OBVIOUS
  <1> HIDE DEF a
  <1>6. /\ Changes(captured, e, {"attempt_record"})
        /\ e.attempt_record = a
    BY <1>3, <1>4, SetAttemptRecord DEF Changes
  <1>7. prepare_outbound(c, written) = live_upsert(e)
    BY DEF prepare_outbound, captured, counted, a, WithAttemptRecord
  <1> HIDE DEF e
  <1>8. Changes(c, e, F \cup {"backend_attempts_total", "attempt_record"})
    BY <1>1, <1>3, <1>6 DEF Changes, Keeps
  <1>9. /\ e.current_attempt = NoAttempt
        /\ e.backend_attempts = c.backend_attempts
        /\ e.cfg = c.cfg /\ e.record = c.record
        /\ e.backend_attempts_total = counted.backend_attempts_total
    BY <1>1, <1>3, <1>6 DEF Changes, Keeps, Fields
  <1>10. /\ Changes(e, live_upsert(e), {"record"})
         /\ ~e.cfg.inspector => live_upsert(e).record = e.record
         /\ e.cfg.inspector =>
              /\ live_upsert(e).record.outcome = "in_flight"
              /\ Len(live_upsert(e).record.attempts) = Len(e.backend_attempts)
    BY <1>8, <1>9, LiveUpsert DEF Changes
  <1>11. /\ live_upsert(e).attempt_record = a
         /\ live_upsert(e).current_attempt = NoAttempt
         /\ live_upsert(e).backend_attempts_total = counted.backend_attempts_total
    BY <1>6, <1>9, <1>10 DEF Changes, Keeps, Fields
  <1>12. Changes(c, live_upsert(e), CaptureFields \cup {"backend_attempts_total", "record"})
    BY <1>8, <1>10 DEF Changes, Keeps, CaptureFields
  <1> QED
    BY <1>1, <1>4, <1>5, <1>7, <1>9, <1>10, <1>11, <1>12

\* The failures of reqwest have a status and an outcome.
LEMMA FailureKinds ==
  ASSUME NEW kind
  PROVE  client_status(kind) \in Nat /\ failure_outcome(kind) \in RR!AttemptOutcomes
  BY SMTT(30) DEF client_status, failure_outcome, RR!AttemptOutcomes

\* The step of record_retry to the next candidate, before apply_route.
WithNext(c) == [c EXCEPT !.pc = "route", !.attempt = @ + 1, !.fallback_routes = Tail(@)]

\* The step to the next candidate takes the first of the fallbacks.
LEMMA SetNext ==
  ASSUME NEW c \in Context, c.fallback_routes # <<>>
  PROVE  LET d == WithNext(c)
         IN /\ Changes(c, d, {"pc", "attempt", "fallback_routes"})
            /\ d.pc = "route" /\ d.attempt = c.attempt + 1
            /\ d.fallback_routes = Tail(c.fallback_routes)
  <1>1. c.attempt + 1 \in Nat /\ Tail(c.fallback_routes) \in Seq(SelectedRoute)
    BY SMTT(60) DEF Context
  <1>2. \A n, s : n \in Nat /\ s \in Seq(SelectedRoute) =>
          [c EXCEPT !.pc = "route", !.attempt = n, !.fallback_routes = s] \in Context
    <2> SUFFICES ASSUME NEW n \in Nat, NEW s \in Seq(SelectedRoute)
                 PROVE  [c EXCEPT !.pc = "route", !.attempt = n, !.fallback_routes = s]
                          \in Context
      BY ZenonT(60)
    <2> QED
      BY ZenonT(60) DEF Context
  <1>3. WithNext(c) \in Context
    BY <1>1, <1>2 DEF WithNext
  <1> QED
    BY <1>3 DEF Changes, Keeps, Fields, WithNext, Context

RetryFields == CaptureFields \cup
  {"health", "backend_attempts", "retried_attempts", "record", "pc", "attempt",
   "fallback_routes", "route", "labels_backend"}

\* record_retry lists the failed attempt and moves on to the next candidate.
LEMMA RecordRetryEffect ==
  ASSUME NEW c \in Context, NEW kind, c.labels_backend \in Backends,
         c.attempt_record \in AttemptRecord, c.current_attempt = NoAttempt,
         c.fallback_routes # <<>>
  PROVE  LET d == record_retry(c, kind)
             a == finish(c.attempt_record, client_status(kind), failure_outcome(kind))
         IN /\ Changes(c, d, RetryFields)
            /\ d.pc = "route" /\ d.attempt = c.attempt + 1
            /\ d.fallback_routes = Tail(c.fallback_routes)
            /\ d.route = Head(c.fallback_routes)
            /\ d.labels_backend = d.route.backend_id
            /\ d.current_attempt = NoAttempt
            /\ d.backend_attempts = Append(c.backend_attempts, a)
            /\ ~c.cfg.inspector => d.record = c.record
            /\ c.cfg.inspector => /\ d.record.outcome = "in_flight"
                                  /\ Len(d.record.attempts) = Len(c.backend_attempts) + 1
  <1> DEFINE status == client_status(kind)
             outcome == failure_outcome(kind)
             a == finish(c.attempt_record, status, outcome)
             marked == record_outcome(c, outcome)
             failed == record_failure(marked, status)
             freed == WithAttemptRecord(failed, NoAttempt)
             listed == record_retried_attempt(freed, a)
             next == WithNext(listed)
             d == apply_route(next, Head(c.fallback_routes))
  <1>1. record_retry(c, kind) = d
    BY DEF record_retry, WithAttemptRecord, WithNext
  <1>2. status \in Nat /\ outcome \in RR!AttemptOutcomes
    BY FailureKinds
  <1> HIDE DEF status, outcome
  <1>3. Changes(c, marked, {"captures"})
    BY <1>2, RecordOutcome
  <1>4. a \in AttemptRecord
    BY <1>2, Finish
  <1> HIDE DEF a, marked
  <1>5. marked \in Context /\ marked.labels_backend \in Backends
    BY <1>3 DEF Changes, Keeps, Fields
  <1>6. Changes(marked, failed, {"health"})
    BY <1>2, <1>5, RecordHealth DEF record_failure
  <1> HIDE DEF failed
  <1>7. Changes(failed, freed, {"attempt_record"})
    BY <1>6, SetAttemptRecord DEF Changes
  <1> HIDE DEF freed
  <1>8. Changes(c, freed, {"captures", "health", "attempt_record"})
    BY <1>3, <1>6, <1>7 DEF Changes, Keeps
  <1>9. /\ freed \in Context /\ freed.current_attempt = NoAttempt
        /\ freed.cfg = c.cfg /\ freed.record = c.record
        /\ freed.backend_attempts = c.backend_attempts
        /\ freed.fallback_routes = c.fallback_routes /\ freed.attempt = c.attempt
    BY <1>8 DEF Changes, Keeps, Fields
  <1>10. /\ Changes(freed, listed, {"backend_attempts", "retried_attempts", "record"})
         /\ listed.backend_attempts = Append(c.backend_attempts, a)
         /\ ~c.cfg.inspector => listed.record = c.record
         /\ c.cfg.inspector =>
              /\ listed.record.outcome = "in_flight"
              /\ Len(listed.record.attempts) = Len(c.backend_attempts) + 1
    BY <1>4, <1>9, RecordRetriedAttempt
  <1> HIDE DEF listed
  <1>11. /\ listed \in Context /\ listed.fallback_routes = c.fallback_routes
         /\ listed.attempt = c.attempt /\ listed.current_attempt = NoAttempt
    BY <1>9, <1>10 DEF Changes, Keeps, Fields
  <1>12. /\ Changes(listed, next, {"pc", "attempt", "fallback_routes"})
         /\ next.pc = "route" /\ next.attempt = c.attempt + 1
         /\ next.fallback_routes = Tail(c.fallback_routes)
    BY <1>11, SetNext
  <1> HIDE DEF next
  <1>13. Head(c.fallback_routes) \in SelectedRoute
    BY SMTT(60) DEF Context
  <1>14. /\ Changes(next, d, {"route", "labels_backend", "debug_capture",
                              "pending_debug_capture"})
         /\ d.route = Head(c.fallback_routes)
         /\ d.labels_backend = Head(c.fallback_routes).backend_id
    BY <1>12, <1>13, ApplyRoute DEF Changes
  <1> HIDE DEF d
  <1>15. Changes(c, d, RetryFields)
    BY <1>8, <1>10, <1>12, <1>14 DEF Changes, Keeps, RetryFields, CaptureFields
  <1>16. /\ d.pc = next.pc /\ d.attempt = next.attempt
         /\ d.fallback_routes = next.fallback_routes
         /\ d.current_attempt = listed.current_attempt
         /\ d.backend_attempts = listed.backend_attempts
         /\ d.record = listed.record
    BY <1>12, <1>14 DEF Changes, Keeps, Fields
  <1> QED
    BY <1>1, <1>10, <1>11, <1>12, <1>14, <1>15, <1>16 DEF status, outcome, a

EndFields == CaptureFields \cup
  {"pc", "response", "requests_total", "health", "backend_attempts", "record",
   "streams_total", "upstream_status", "error_bytes", "received_bytes",
   "truncated", "upstream_ended"}

\* d is request c at its end: attempt a was its last, the request is counted
\* with the status of its response, and the record is final.
Ended(c, d, a) ==
  /\ Changes(c, d, EndFields)
  /\ d.pc = "done"
  /\ d.requests_total = <<d.response.status>>
  /\ \E b \in AttemptRecord : /\ b.attempt = a.attempt /\ b.backend = a.backend
                              /\ d.backend_attempts = Append(c.backend_attempts, b)
  /\ ~c.cfg.inspector => d.record = c.record
  /\ c.cfg.inspector => /\ d.record.outcome \in RR!AttemptOutcomes
                        /\ d.record.attempts = d.backend_attempts

\* The last two steps of every answer that is not streamed.
LEMMA FinalAnswer ==
  ASSUME NEW c \in Context, NEW outcome \in RR!FinalOutcomes, NEW status \in Nat,
         NEW exposed \in BOOLEAN, NEW kind, kind \in {"error", "forwarded", "buffered"}
  PROVE  LET d == respond(record_inspector(c, outcome, status, exposed), kind, status)
         IN /\ Changes(c, d, {"record", "pc", "response"})
            /\ d.pc = "done"
            /\ d.response = [kind |-> kind, status |-> status]
            /\ ~c.cfg.inspector => d.record = c.record
            /\ c.cfg.inspector => /\ d.record.outcome = outcome
                                  /\ d.record.attempts = c.backend_attempts
  <1> DEFINE e == record_inspector(c, outcome, status, exposed)
             d == respond(e, kind, status)
  <1>2. /\ Changes(c, e, {"record"})
        /\ ~c.cfg.inspector => e.record = c.record
        /\ c.cfg.inspector => /\ e.record.outcome = outcome
                              /\ e.record.attempts = c.backend_attempts
    BY RecordInspector, SMTT(30)
  <1> HIDE DEF e
  <1>3. /\ Changes(e, d, {"pc", "response"})
        /\ d.pc = "done" /\ d.response = [kind |-> kind, status |-> status]
    BY <1>2, Respond DEF Changes
  <1> HIDE DEF d
  <1>4. d.record = e.record
    BY <1>3 DEF Changes, Keeps, Fields
  <1>5. Changes(c, d, {"record", "pc", "response"})
    BY <1>2, <1>3 DEF Changes, Keeps
  <1> QED
    BY <1>2, <1>3, <1>4, <1>5 DEF d, e

\* The counted request, its capture's outcome and its health verdict.
LEMMA Verdict ==
  ASSUME NEW c \in Context, c.labels_backend \in Backends, NEW outcome \in RR!AttemptOutcomes,
         NEW counted \in Nat, NEW ok \in BOOLEAN, NEW status \in Nat
  PROVE  LET d == record_health(record_outcome(record_request(c, counted), outcome),
                                ok, status)
         IN /\ Changes(c, d, {"requests_total", "captures", "health"})
            /\ d.requests_total = Append(c.requests_total, counted)
  <1> DEFINE e == record_request(c, counted)
             g == record_outcome(e, outcome)
             d == record_health(g, ok, status)
  <1>1. /\ Changes(c, e, {"requests_total"})
        /\ e.requests_total = Append(c.requests_total, counted)
    BY RecordRequest
  <1> HIDE DEF e
  <1>2. Changes(e, g, {"captures"})
    BY <1>1, RecordOutcome DEF Changes
  <1> HIDE DEF g
  <1>3. g \in Context /\ g.labels_backend \in Backends
    BY <1>1, <1>2 DEF Changes, Keeps, Fields
  <1>4. Changes(g, d, {"health"})
    BY <1>3, RecordHealth
  <1> HIDE DEF d
  <1>5. Changes(c, d, {"requests_total", "captures", "health"})
    BY <1>1, <1>2, <1>4 DEF Changes, Keeps
  <1>6. d.requests_total = e.requests_total
    BY <1>2, <1>4 DEF Changes, Keeps, Fields
  <1> QED
    BY <1>1, <1>5, <1>6 DEF d, g, e

\* What happens before the end may be added to it.
LEMMA EndedAfter ==
  ASSUME NEW c \in Context, NEW e, NEW d, NEW a, NEW b,
         Changes(c, e, EndFields), e.backend_attempts = c.backend_attempts,
         ~c.cfg.inspector => e.record = c.record,
         Ended(e, d, b), b.attempt = a.attempt, b.backend = a.backend
  PROVE  Ended(c, d, a)
  <1>1. Changes(c, d, EndFields)
    BY DEF Ended, Changes, Keeps
  <1>2. e.cfg = c.cfg
    BY DEF Changes, Keeps, Fields, EndFields, CaptureFields
  <1> QED
    BY <1>1, <1>2 DEF Ended

\* The attempt ends together with the request, in every answer that is not
\* streamed.
LEMMA AnswerEnds ==
  ASSUME NEW c \in Context, NEW e, NEW outcome \in RR!AttemptOutcomes, NEW status \in Nat,
         NEW exposed \in BOOLEAN, NEW kind, kind \in {"error", "forwarded", "buffered"},
         NEW b \in AttemptRecord,
         Changes(c, e, EndFields \ {"record"}), e.requests_total = <<status>>,
         e.backend_attempts = Append(c.backend_attempts, b)
  PROVE  Ended(c, respond(record_inspector(e, outcome, status, exposed), kind, status), b)
  <1> DEFINE d == respond(record_inspector(e, outcome, status, exposed), kind, status)
  <1>1. e.record = c.record /\ e.cfg = c.cfg /\ e \in Context
    BY DEF Changes, Keeps, Fields, EndFields, CaptureFields
  <1>a. outcome \in RR!FinalOutcomes
    BY DEF RR!FinalOutcomes
  <1>2. /\ Changes(e, d, {"record", "pc", "response"})
        /\ d.pc = "done"
        /\ d.response = [kind |-> kind, status |-> status]
        /\ ~e.cfg.inspector => d.record = e.record
        /\ e.cfg.inspector => /\ d.record.outcome = outcome
                              /\ d.record.attempts = e.backend_attempts
    BY <1>1, <1>a, FinalAnswer, SMTT(30)
  <1> HIDE DEF d
  <1>3. Changes(c, d, EndFields)
    BY <1>2 DEF Changes, Keeps, EndFields
  <1>4. d.requests_total = e.requests_total /\ d.backend_attempts = e.backend_attempts
    BY <1>2 DEF Changes, Keeps, Fields
  <1>5. d.response.status = status
    BY <1>2, SMTT(30)
  <1>6. Ended(c, d, b)
    BY <1>1, <1>2, <1>3, <1>4, <1>5 DEF Ended
  <1> QED
    BY <1>6 DEF d

WithFinished(c, s) == [c EXCEPT !.backend_attempts = s, !.attempt_record = NoAttempt]

\* Listing the attempt that do_proxy gives up on.
LEMMA SetFinished ==
  ASSUME NEW c \in Context, NEW s \in Seq(AttemptRecord)
  PROVE  LET d == WithFinished(c, s)
         IN /\ Changes(c, d, {"backend_attempts", "attempt_record"})
            /\ d.backend_attempts = s
  <1>1. WithFinished(c, s) \in Context
    BY ZenonT(60) DEF WithFinished, Context
  <1> QED
    BY <1>1 DEF Changes, Keeps, Fields, WithFinished, Context

\* The first status of a request is the only one counted.
LEMMA CountedFirst ==
  ASSUME NEW s, s = <<>>, NEW status \in Nat
  PROVE  Append(s, status) = <<status>>
  BY SMTT(30)

\* The last failure to get a response ends the request.
LEMMA FinalFailureEnds ==
  ASSUME NEW c \in Context, NEW kind, c.labels_backend \in Backends,
         c.attempt_record \in AttemptRecord, c.requests_total = <<>>
  PROVE  Ended(c, record_final_failure(c, kind), c.attempt_record)
  <1> DEFINE status == client_status(kind)
             outcome == failure_outcome(kind)
             b == finish(c.attempt_record, status, outcome)
             failed == record_health(record_outcome(record_request(c, status), outcome),
                                     FALSE, status)
             listed == WithFinished(failed, Append(failed.backend_attempts, b))
             d == respond(record_inspector(listed, outcome, status, FALSE), "error", status)
  <1>1. record_final_failure(c, kind) = d
    BY DEF record_final_failure, record_failure, WithFinished
  <1>2. status \in Nat /\ outcome \in RR!AttemptOutcomes
    BY FailureKinds
  <1> HIDE DEF status, outcome
  <1>3. /\ Changes(c, failed, {"requests_total", "captures", "health"})
        /\ failed.requests_total = <<status>>
    BY <1>2, Verdict, CountedFirst, ZenonT(60)
  <1>4. /\ b \in AttemptRecord
        /\ b.attempt = c.attempt_record.attempt /\ b.backend = c.attempt_record.backend
    BY <1>2, Finish
  <1> HIDE DEF b, failed
  <1>5. failed \in Context /\ failed.backend_attempts = c.backend_attempts
    BY <1>3 DEF Changes, Keeps, Fields
  <1>6. Append(failed.backend_attempts, b) \in Seq(AttemptRecord)
    BY <1>4, <1>5, SMTT(30) DEF Context
  <1>7. /\ Changes(failed, listed, {"backend_attempts", "attempt_record"})
        /\ listed.backend_attempts = Append(c.backend_attempts, b)
    BY <1>5, <1>6, SetFinished
  <1> HIDE DEF listed
  <1>8. Changes(c, listed, EndFields \ {"record"})
    BY <1>3, <1>7 DEF Changes, Keeps, EndFields, CaptureFields
  <1>9. listed.requests_total = <<status>>
    BY <1>3, <1>7 DEF Changes, Keeps, Fields
  <1>10. Ended(c, d, b)
    BY <1>2, <1>4, <1>7, <1>8, <1>9, AnswerEnds
  <1> QED
    BY <1>1, <1>4, <1>10 DEF Ended

\* An attempt that has its headers ends together with its request: e is the
\* context c after the verdict.
LEMMA FinalAttemptEnds ==
  ASSUME NEW c \in Context, NEW e, NEW outcome \in RR!AttemptOutcomes, NEW status \in Nat,
         NEW exposed \in BOOLEAN, NEW kind, kind \in {"error", "forwarded", "buffered"},
         Changes(c, e, EndFields \ {"record", "backend_attempts"}),
         e.current_attempt \in AttemptRecord, e.requests_total = <<status>>
  PROVE  Ended(c, respond(record_inspector(record_final_attempt(e, status, outcome),
                                           outcome, status, exposed), kind, status),
               e.current_attempt)
  <1> DEFINE b == finish(e.current_attempt, status, outcome)
             listed == record_final_attempt(e, status, outcome)
             d == respond(record_inspector(listed, outcome, status, exposed), kind, status)
  <1>1. /\ b \in AttemptRecord
        /\ b.attempt = e.current_attempt.attempt /\ b.backend = e.current_attempt.backend
    BY Finish
  <1>2. e \in Context /\ e.backend_attempts = c.backend_attempts
    BY DEF Changes, Keeps, Fields, EndFields, CaptureFields
  <1>3. /\ Changes(e, listed, {"backend_attempts", "current_attempt"})
        /\ listed.backend_attempts = Append(c.backend_attempts, b)
    BY <1>2, RecordFinalAttempt
  <1> HIDE DEF b, listed
  <1>4. Changes(c, listed, EndFields \ {"record"})
    BY <1>3 DEF Changes, Keeps, EndFields, CaptureFields
  <1>5. listed.requests_total = <<status>>
    BY <1>3 DEF Changes, Keeps, Fields
  <1>6. Ended(c, d, b)
    BY <1>1, <1>3, <1>4, <1>5, AnswerEnds
  <1>7. Ended(c, d, e.current_attempt)
    BY <1>1, <1>6 DEF Ended
  <1> QED
    BY <1>7 DEF d, listed

\* Forwarding and sanitizing an upstream error both end the request.
LEMMA NonSuccessEnds ==
  ASSUME NEW c \in Context, NEW exposed \in BOOLEAN, c.labels_backend \in Backends,
         c.current_attempt \in AttemptRecord, c.requests_total = <<>>
  PROVE  Ended(c, record_non_success(c, exposed), c.current_attempt)
  <1> DEFINE status == map_upstream_status(c.upstream_status)
             outcome == "upstream_non_success"
             ok == FALSE
             kind == IF exposed THEN "forwarded" ELSE "error"
             failed == record_health(record_outcome(record_request(c, status), outcome),
                                     ok, c.upstream_status)
             d == respond(record_inspector(record_final_attempt(failed, status, outcome),
                                           outcome, status, exposed), kind, status)
  <1>1. record_non_success(c, exposed) = d
    BY DEF record_non_success, record_failure
  <1>2. c.upstream_status \in Nat
    BY DEF Context
  <1>3. status \in Nat
    BY <1>2, SMTT(30) DEF map_upstream_status
  <1>4. outcome \in RR!AttemptOutcomes /\ ok \in BOOLEAN
    BY DEF RR!AttemptOutcomes
  <1>5. kind \in {"error", "forwarded", "buffered"}
    OBVIOUS
  <1> HIDE DEF status, outcome, ok, kind
  <1>6. /\ Changes(c, failed, {"requests_total", "captures", "health"})
        /\ failed.requests_total = <<status>>
    BY <1>2, <1>3, <1>4, Verdict, CountedFirst, SMTT(30)
  <1> HIDE DEF failed
  <1>7. failed.current_attempt = c.current_attempt
    BY <1>6 DEF Changes, Keeps, Fields
  <1>8. Changes(c, failed, EndFields \ {"record", "backend_attempts"})
    BY <1>6 DEF Changes, Keeps, EndFields, CaptureFields
  <1> QED
    BY <1>1, <1>3, <1>4, <1>5, <1>6, <1>7, <1>8, FinalAttemptEnds

\* The two ends of a buffered response.
LEMMA BufferedOkEnds ==
  ASSUME NEW c \in Context, c.labels_backend \in Backends,
         c.current_attempt \in AttemptRecord, c.requests_total = <<>>
  PROVE  Ended(c, buffered_ok(c), c.current_attempt)
  <1> DEFINE status == c.upstream_status
             outcome == "completed"
             done == record_health(record_outcome(record_request(c, status), outcome),
                                   TRUE, status)
             d == respond(record_inspector(record_final_attempt(done, status, outcome),
                                           outcome, status, FALSE), "buffered", status)
  <1>1. buffered_ok(c) = d
    BY DEF buffered_ok, record_success
  <1>2. status \in Nat
    BY DEF Context
  <1>3. outcome \in RR!AttemptOutcomes
    BY DEF RR!AttemptOutcomes
  <1> HIDE DEF status, outcome
  <1>4. /\ Changes(c, done, {"requests_total", "captures", "health"})
        /\ done.requests_total = <<status>>
    BY <1>2, <1>3, Verdict, CountedFirst, ZenonT(60)
  <1> HIDE DEF done
  <1>5. done.current_attempt = c.current_attempt
    BY <1>4 DEF Changes, Keeps, Fields
  <1>6. Changes(c, done, EndFields \ {"record", "backend_attempts"})
    BY <1>4 DEF Changes, Keeps, EndFields, CaptureFields
  <1> QED
    BY <1>1, <1>2, <1>3, <1>4, <1>5, <1>6, FinalAttemptEnds

\* buffered_response when the body cannot be read.
LEMMA BufferedFailedEnds ==
  ASSUME NEW c \in Context, NEW written \in BOOLEAN, c.labels_backend \in Backends,
         c.current_attempt \in AttemptRecord, c.requests_total = <<>>
  PROVE  Ended(c, buffered_failed(c, written), c.current_attempt)
  <1> DEFINE outcome == "upstream_body_read_failed"
             status == 502
             ok == FALSE
             counted == record_request(c, status)
             captured == ensure_failure_debug_capture(counted, written)
             marked == record_outcome(captured, outcome)
             failed == record_health(marked, ok, status)
             d == respond(record_inspector(record_final_attempt(failed, status, outcome),
                                           outcome, status, ok), "error", status)
  <1>1. buffered_failed(c, written) = d
    BY DEF buffered_failed, record_failure
  <1>2. outcome \in RR!AttemptOutcomes /\ status \in Nat /\ ok \in BOOLEAN
    BY SMTT(30) DEF RR!AttemptOutcomes
  <1> HIDE DEF outcome, status, ok
  <1>3. Changes(c, counted, {"requests_total"}) /\ counted.requests_total = <<status>>
    BY <1>2, RecordRequest, CountedFirst
  <1> HIDE DEF counted
  <1>4. /\ Changes(counted, captured, CaptureFields)
        /\ SameAttempt(counted.current_attempt, captured.current_attempt)
    BY <1>3, EnsureFailureDebugCapture DEF Changes
  <1> HIDE DEF captured
  <1>5. Changes(captured, marked, {"captures"})
    BY <1>2, <1>4, RecordOutcome DEF Changes
  <1> HIDE DEF marked
  <1>6. marked \in Context /\ marked.labels_backend \in Backends
    BY <1>3, <1>4, <1>5 DEF Changes, Keeps, Fields, CaptureFields
  <1>7. Changes(marked, failed, {"health"})
    BY <1>2, <1>6, RecordHealth
  <1> HIDE DEF failed
  <1>8. counted.current_attempt = c.current_attempt
    BY <1>3 DEF Changes, Keeps, Fields
  <1>9. failed.current_attempt = captured.current_attempt /\ failed.requests_total = <<status>>
    BY <1>3, <1>4, <1>5, <1>7 DEF Changes, Keeps, Fields, CaptureFields
  <1>10. /\ failed.current_attempt \in AttemptRecord
         /\ failed.current_attempt.attempt = c.current_attempt.attempt
         /\ failed.current_attempt.backend = c.current_attempt.backend
    BY <1>4, <1>8, <1>9, NoAttemptIsNone DEF SameAttempt
  <1>11. Changes(c, failed, EndFields \ {"record", "backend_attempts"})
    BY <1>3, <1>4, <1>5, <1>7 DEF Changes, Keeps, EndFields, CaptureFields
  <1>12. Ended(c, d, failed.current_attempt)
    BY <1>2, <1>9, <1>10, <1>11, FinalAttemptEnds
  <1> QED
    BY <1>1, <1>10, <1>12 DEF Ended

WithDropped(c) == [c EXCEPT !.pc = "done", !.streams_total = @ + 1]

\* The drop of a stream counts the stream and ends the request.
LEMMA SetDropped ==
  ASSUME NEW c \in Context
  PROVE  /\ Changes(c, WithDropped(c), {"pc", "streams_total"})
         /\ WithDropped(c).pc = "done"
  <1>1. c.streams_total + 1 \in Nat
    BY SMTT(60) DEF Context
  <1>2. \A n \in Nat : [c EXCEPT !.pc = "done", !.streams_total = n] \in Context
    <2> SUFFICES ASSUME NEW n \in Nat
                 PROVE  [c EXCEPT !.pc = "done", !.streams_total = n] \in Context
      BY ZenonT(60)
    <2> QED
      BY ZenonT(60) DEF Context
  <1>3. WithDropped(c) \in Context
    BY <1>1, <1>2 DEF WithDropped
  <1> QED
    BY <1>3 DEF Changes, Keeps, Fields, WithDropped, Context

\* Drop for StreamMetrics ends the request it was counted for.
LEMMA StreamDroppedEnds ==
  ASSUME NEW c \in Context, NEW written \in BOOLEAN, c.labels_backend \in Backends,
         c.current_attempt \in AttemptRecord, c.requests_total = <<c.response.status>>
  PROVE  Ended(c, stream_dropped(c, written), c.current_attempt)
  <1> DEFINE status == c.upstream_status
             outcome == stream_outcome(c)
             exposed == FALSE
             captured == IF c.stream_error_kind # None
                         THEN ensure_failure_debug_capture(c, written) ELSE c
             b == finish(captured.current_attempt, status, outcome)
             listed == record_final_attempt(captured, status, outcome)
             judged == CASE outcome = "upstream_stream_failed" -> record_failure(listed, status)
                         [] outcome = "completed" -> record_success(listed, status)
                         [] outcome = "stream_incomplete" -> listed
             marked == record_outcome(judged, outcome)
             final == record_inspector(marked, outcome, status, exposed)
             d == WithDropped(final)
  <1>1. stream_dropped(c, written) = d
    BY DEF stream_dropped, WithDropped
  <1>2. /\ outcome \in {"upstream_stream_failed", "completed", "stream_incomplete"}
        /\ exposed \in BOOLEAN /\ status \in Nat
    BY DEF stream_outcome, Context
  <1>3. outcome \in RR!AttemptOutcomes /\ outcome \in RR!FinalOutcomes
    BY <1>2 DEF RR!AttemptOutcomes, RR!FinalOutcomes
  <1> HIDE DEF outcome, exposed, status
  <1>4. /\ Changes(c, captured, CaptureFields)
        /\ captured.current_attempt \in AttemptRecord
        /\ captured.current_attempt.attempt = c.current_attempt.attempt
        /\ captured.current_attempt.backend = c.current_attempt.backend
    <2>1. CASE c.stream_error_kind # None
      BY <2>1, EnsureFailureDebugCapture, NoAttemptIsNone DEF SameAttempt
    <2>2. CASE c.stream_error_kind = None
      BY <2>2 DEF Changes, Keeps
    <2> QED
      BY <2>1, <2>2
  <1> HIDE DEF captured
  <1>5. /\ b \in AttemptRecord
        /\ b.attempt = c.current_attempt.attempt /\ b.backend = c.current_attempt.backend
    BY <1>2, <1>3, <1>4, Finish
  <1>6. /\ Changes(captured, listed, {"backend_attempts", "current_attempt"})
        /\ listed.backend_attempts = Append(captured.backend_attempts, b)
    BY <1>2, <1>3, <1>4, RecordFinalAttempt DEF Changes
  <1> HIDE DEF b, listed
  <1>7. /\ listed \in Context /\ listed.labels_backend \in Backends
        /\ captured.backend_attempts = c.backend_attempts
    BY <1>4, <1>6 DEF Changes, Keeps, Fields, CaptureFields
  <1>8. Changes(listed, judged, {"health"})
    <2>1. CASE outcome = "upstream_stream_failed"
      <3> DEFINE ok == FALSE
      <3>1. ok \in BOOLEAN /\ judged = record_health(listed, ok, status)
        BY <2>1 DEF record_failure
      <3> HIDE DEF ok, judged
      <3> QED
        BY <1>2, <1>7, <3>1, RecordHealth
    <2>2. CASE outcome = "completed"
      <3> DEFINE ok == TRUE
      <3>1. ok \in BOOLEAN /\ judged = record_health(listed, ok, status)
        BY <2>2 DEF record_success
      <3> HIDE DEF ok, judged
      <3> QED
        BY <1>2, <1>7, <3>1, RecordHealth
    <2>3. CASE outcome = "stream_incomplete"
      BY <1>7, <2>3 DEF Changes, Keeps
    <2> QED
      BY <1>2, <2>1, <2>2, <2>3
  <1> HIDE DEF judged
  <1>9. Changes(judged, marked, {"captures"})
    BY <1>3, <1>8, RecordOutcome DEF Changes
  <1> HIDE DEF marked
  <1>10. Changes(c, marked, CaptureFields \cup {"backend_attempts", "health"})
    BY <1>4, <1>6, <1>8, <1>9 DEF Changes, Keeps, CaptureFields
  <1>11. /\ marked \in Context /\ marked.cfg = c.cfg /\ marked.record = c.record
         /\ marked.backend_attempts = listed.backend_attempts
         /\ marked.requests_total = c.requests_total /\ marked.response = c.response
    BY <1>8, <1>9, <1>10 DEF Changes, Keeps, Fields, CaptureFields
  <1>12. /\ Changes(marked, final, {"record"})
         /\ ~marked.cfg.inspector => final.record = marked.record
         /\ marked.cfg.inspector => /\ final.record.outcome = outcome
                                    /\ final.record.attempts = marked.backend_attempts
    BY <1>2, <1>3, <1>11, RecordInspector, SMTT(30)
  <1> HIDE DEF final
  <1>13. Changes(final, d, {"pc", "streams_total"}) /\ d.pc = "done"
    BY <1>12, SetDropped DEF Changes
  <1> HIDE DEF d
  <1>14. /\ d.record = final.record /\ d.backend_attempts = marked.backend_attempts
         /\ d.requests_total = marked.requests_total /\ d.response = marked.response
    BY <1>12, <1>13 DEF Changes, Keeps, Fields
  <1>15. Changes(c, d, EndFields)
    BY <1>10, <1>12, <1>13 DEF Changes, Keeps, EndFields
  <1> QED
    BY <1>1, <1>3, <1>5, <1>6, <1>7, <1>11, <1>12, <1>13, <1>14, <1>15 DEF Ended

WithHeaders(c, status, a) ==
  [c EXCEPT !.upstream_status = status, !.current_attempt = a, !.attempt_record = NoAttempt]

\* The attempt record moves into the context with the headers.
LEMMA SetHeaders ==
  ASSUME NEW c \in Context, NEW status \in Nat, NEW a \in AttemptRecord
  PROVE  LET d == WithHeaders(c, status, a)
         IN /\ Changes(c, d, {"upstream_status", "current_attempt", "attempt_record"})
            /\ d.current_attempt = a
  <1>1. WithHeaders(c, status, a) \in Context
    BY ZenonT(60) DEF WithHeaders, Context
  <1> QED
    BY <1>1 DEF Changes, Keeps, Fields, WithHeaders, Context

\* The response headers make the attempt the current one, and list it.
LEMMA HeadersReceived ==
  ASSUME NEW c \in Context, NEW status \in Nat, c.attempt_record \in AttemptRecord
  PROVE  LET d == headers_received(c, status)
         IN /\ Changes(c, d, {"upstream_status", "current_attempt", "attempt_record", "record"})
            /\ d.current_attempt = c.attempt_record
            /\ ~c.cfg.inspector => d.record = c.record
            /\ c.cfg.inspector => /\ d.record.outcome = "in_flight"
                                  /\ Len(d.record.attempts) = Len(c.backend_attempts) + 1
  <1> DEFINE e == WithHeaders(c, status, c.attempt_record)
             d == live_upsert(e)
  <1>1. headers_received(c, status) = d
    BY DEF headers_received, WithHeaders
  <1>2. /\ Changes(c, e, {"upstream_status", "current_attempt", "attempt_record"})
        /\ e.current_attempt = c.attempt_record
    BY SetHeaders
  <1> HIDE DEF e
  <1>3. e \in Context /\ e.cfg = c.cfg /\ e.record = c.record
        /\ e.backend_attempts = c.backend_attempts /\ e.current_attempt # NoAttempt
    BY <1>2, NoAttemptIsNone DEF Changes, Keeps, Fields
  <1>4. /\ Changes(e, d, {"record"})
        /\ ~c.cfg.inspector => d.record = c.record
        /\ c.cfg.inspector => /\ d.record.outcome = "in_flight"
                              /\ Len(d.record.attempts) = Len(c.backend_attempts) + 1
    BY <1>3, LiveUpsert
  <1> HIDE DEF d
  <1>5. d.current_attempt = e.current_attempt
    BY <1>4 DEF Changes, Keeps, Fields
  <1>6. Changes(c, d, {"upstream_status", "current_attempt", "attempt_record", "record"})
    BY <1>2, <1>4 DEF Changes, Keeps
  <1> QED
    BY <1>1, <1>2, <1>4, <1>5, <1>6

-----------------------------------------------------------------------------
(***************************************************************************)
(* Whom the end of an attempt tells of it: health, the debug capture made  *)
(* for it, and the record.                                                 *)
(***************************************************************************)

\* The capture slots of the attempt under way: a capture is made or kept for it
\* alone, and one that is made has no outcome yet.
Slots(c) ==
  /\ c.debug_capture \in {0, c.attempt}
  /\ c.pending_debug_capture \in {0, c.attempt}
  /\ c.captures[c.attempt] = IF c.debug_capture = 0 THEN None ELSE "sent_to_upstream"

\* Only the capture of the attempt under way may differ.
SameCaptures(c, d) ==
  \A n \in AttemptNumbers : n # c.attempt => d.captures[n] = c.captures[n]

\* What ensure_failure_debug_capture does with the slots.
LEMMA CaptureEnsured ==
  ASSUME NEW c \in Context, NEW written \in BOOLEAN, NEW d,
         d = ensure_failure_debug_capture(c, written)
  PROVE  LET needed == c.debug_capture = 0 /\ c.pending_debug_capture # 0
         IN /\ d.pending_debug_capture = IF needed THEN 0 ELSE c.pending_debug_capture
            /\ d.debug_capture = IF needed
                                 THEN IF written THEN c.pending_debug_capture ELSE 0
                                 ELSE c.debug_capture
            /\ d.captures = IF needed /\ written
                            THEN [c.captures EXCEPT ![c.pending_debug_capture] = "sent_to_upstream"]
                            ELSE c.captures
            /\ d.attempt_record = set_debug_capture(c.attempt_record, d.debug_capture)
            /\ d.current_attempt = set_debug_capture(c.current_attempt, d.debug_capture)
            /\ d.attempt = c.attempt
  <1> DEFINE needed == c.debug_capture = 0 /\ c.pending_debug_capture # 0
             taken == IF needed
                      THEN [capture(c, c.pending_debug_capture, written)
                              EXCEPT !.pending_debug_capture = 0]
                      ELSE c
  <1>1. /\ taken.pending_debug_capture = IF needed THEN 0 ELSE c.pending_debug_capture
        /\ taken.debug_capture = IF needed
                                 THEN IF written THEN c.pending_debug_capture ELSE 0
                                 ELSE c.debug_capture
        /\ taken.captures = IF needed /\ written
                            THEN [c.captures EXCEPT ![c.pending_debug_capture] = "sent_to_upstream"]
                            ELSE c.captures
        /\ taken.attempt_record = c.attempt_record
        /\ taken.current_attempt = c.current_attempt
        /\ taken.attempt = c.attempt
        /\ DOMAIN taken = DOMAIN c
    BY DEF capture, Context
  <1>2. d = [taken EXCEPT !.attempt_record = set_debug_capture(@, taken.debug_capture),
                          !.current_attempt = set_debug_capture(@, taken.debug_capture)]
    BY DEF ensure_failure_debug_capture
  <1>3. "attempt_record" \in DOMAIN c /\ "current_attempt" \in DOMAIN c /\ "captures" \in DOMAIN c
        /\ "attempt" \in DOMAIN c /\ "debug_capture" \in DOMAIN c
        /\ "pending_debug_capture" \in DOMAIN c
    BY DEF Context
  <1> HIDE DEF taken, needed
  <1>4. /\ d.attempt_record = set_debug_capture(c.attempt_record, d.debug_capture)
        /\ d.current_attempt = set_debug_capture(c.current_attempt, d.debug_capture)
        /\ d.debug_capture = taken.debug_capture /\ d.captures = taken.captures
        /\ d.pending_debug_capture = taken.pending_debug_capture
        /\ d.attempt = taken.attempt
    BY <1>1, <1>2, <1>3
  <1> QED
    BY <1>1, <1>4 DEF needed

\* It leaves them in order, and names the capture in the attempt.
LEMMA EnsureSlots ==
  ASSUME NEW c \in Context, NEW written \in BOOLEAN, c.attempt \in AttemptNumbers, Slots(c),
         NEW d, d = ensure_failure_debug_capture(c, written)
  PROVE  /\ Slots(d) /\ SameCaptures(c, d) /\ d.attempt = c.attempt
         /\ c.attempt_record # NoAttempt =>
              d.attempt_record = [c.attempt_record EXCEPT !.debug_capture_id = d.debug_capture]
         /\ c.current_attempt # NoAttempt =>
              d.current_attempt = [c.current_attempt EXCEPT !.debug_capture_id = d.debug_capture]
  <1>1. DOMAIN c.captures = AttemptNumbers /\ 0 \notin AttemptNumbers
    BY SMTT(30) DEF Context, AttemptNumbers
  <1> DEFINE needed == c.debug_capture = 0 /\ c.pending_debug_capture # 0
             n == c.attempt
  <1>2. /\ d.pending_debug_capture = IF needed THEN 0 ELSE c.pending_debug_capture
        /\ d.debug_capture = IF needed
                             THEN IF written THEN c.pending_debug_capture ELSE 0
                             ELSE c.debug_capture
        /\ d.captures = IF needed /\ written
                        THEN [c.captures EXCEPT ![c.pending_debug_capture] = "sent_to_upstream"]
                        ELSE c.captures
        /\ d.attempt_record = set_debug_capture(c.attempt_record, d.debug_capture)
        /\ d.current_attempt = set_debug_capture(c.current_attempt, d.debug_capture)
        /\ d.attempt = n
    BY CaptureEnsured, SMTT(30)
  <1>3. Slots(d) /\ SameCaptures(c, d)
    <2>1. CASE needed /\ written
      <3>1. /\ d.debug_capture = n /\ d.pending_debug_capture = 0
            /\ d.captures = [c.captures EXCEPT ![n] = "sent_to_upstream"]
        BY <1>2, <2>1 DEF Slots
      <3> QED
        BY <1>1, <1>2, <3>1 DEF Slots, SameCaptures
    <2>2. CASE needed /\ ~written
      BY <1>1, <1>2, <2>2 DEF Slots, SameCaptures
    <2>3. CASE ~needed
      BY <1>1, <1>2, <2>3 DEF Slots, SameCaptures
    <2> QED
      BY <2>1, <2>2, <2>3
  <1> QED
    BY <1>2, <1>3 DEF set_debug_capture

\* What record_success and record_failure of the health registry are told.
HealthVerdict == [backend : Backends, ok : BOOLEAN, status : Nat]

\* Health is told how attempt b of request c ended, unless that says nothing.
TellsHealth(c, d, b) ==
  /\ b \in Judged =>
       \E v \in HealthVerdict : /\ v.backend = c.labels_backend
                                /\ v.ok <=> b.outcome = "completed"
                                /\ d.health = Append(c.health, v)
  /\ b \notin Judged => d.health = c.health

\* The capture made for attempt b, if there is one, gets its outcome.
TellsCapture(c, d, b) ==
  /\ SameCaptures(c, d)
  /\ d.captures[c.attempt] \in {None, b.outcome}
  /\ b.debug_capture_id = IF d.captures[c.attempt] = None THEN 0 ELSE c.attempt
  /\ c.cfg.debug_capture = "failures" /\ d.captures[c.attempt] # None =>
       b.outcome \notin {"completed", "stream_incomplete"}

\* The record ends with attempt b, after the retried ones.
TellsRecord(c, d, b) ==
  c.cfg.inspector => /\ d.record.outcome = b.outcome /\ d.record.status = b.status
                     /\ d.record.attempts = d.backend_attempts
                     /\ d.record.retried = c.retried_attempts

\* b is the last attempt of request c, and the end d of the request tells all
\* who want to know of it.
Tells(c, d, b) ==
  /\ b \in AttemptRecord /\ b.outcome \in RR!AttemptOutcomes
  /\ d.backend_attempts = Append(c.backend_attempts, b)
  /\ TellsHealth(c, d, b) /\ TellsCapture(c, d, b) /\ TellsRecord(c, d, b)

\* The capture slots of an attempt that ends with the given outcome.
LEMMA OutcomeTold ==
  ASSUME NEW c \in Context, c.attempt \in AttemptNumbers, Slots(c),
         NEW outcome \in RR!AttemptOutcomes,
         c.cfg.debug_capture = "failures" /\ c.debug_capture # 0 =>
           outcome \notin {"completed", "stream_incomplete"},
         NEW b, b.outcome = outcome, b.debug_capture_id = c.debug_capture,
         NEW d, d.captures = record_outcome(c, outcome).captures
  PROVE  TellsCapture(c, d, b)
  <1>1. /\ DOMAIN c.captures = AttemptNumbers /\ 0 \notin AttemptNumbers
        /\ None \notin RR!AttemptOutcomes
    BY SMTT(30) DEF Context, AttemptNumbers, None, RR!AttemptOutcomes
  <1>2. CASE c.debug_capture = 0
    <2>1. d.captures = c.captures
      BY <1>2 DEF record_outcome
    <2> QED
      BY <1>1, <1>2, <2>1 DEF TellsCapture, SameCaptures, Slots
  <1>3. CASE c.debug_capture # 0
    <2>1. c.debug_capture = c.attempt
      BY <1>3 DEF Slots
    <2>2. d.captures = [c.captures EXCEPT ![c.attempt] = outcome]
      BY <1>3, <2>1 DEF record_outcome, Context
    <2> QED
      BY <1>1, <1>3, <2>1, <2>2 DEF TellsCapture, SameCaptures
  <1> QED
    BY <1>2, <1>3

\* A verdict under the backend at hand.
LEMMA HealthTold ==
  ASSUME NEW c \in Context, c.labels_backend \in Backends, NEW b \in Judged,
         NEW ok \in BOOLEAN, ok <=> b.outcome = "completed", NEW status \in Nat,
         NEW d, d.health = Append(c.health, [backend |-> c.labels_backend, ok |-> ok,
                                             status |-> status])
  PROVE  TellsHealth(c, d, b)
  <1> DEFINE v == [backend |-> c.labels_backend, ok |-> ok, status |-> status]
  <1>1. /\ v \in HealthVerdict /\ v.backend = c.labels_backend /\ v.ok = ok
        /\ d.health = Append(c.health, v)
    BY DEF HealthVerdict
  <1> HIDE DEF v
  <1> QED
    BY <1>1 DEF TellsHealth

\* b is the attempt a with its outcome and status.
IsFinished(b, a, status, outcome) ==
  /\ b \in AttemptRecord /\ b.outcome = outcome /\ b.status = status
  /\ b.debug_capture_id = a.debug_capture_id
  /\ outcome # "stream_incomplete" => b \in Judged
  /\ outcome = "stream_incomplete" => b \notin Judged

\* finish gives an attempt its outcome and status, and nothing else.
LEMMA Finished ==
  ASSUME NEW a \in AttemptRecord, NEW status \in Nat, NEW outcome \in RR!AttemptOutcomes,
         NEW b, b = finish(a, status, outcome)
  PROVE  IsFinished(b, a, status, outcome)
  <1>1. /\ b \in AttemptRecord /\ b.outcome = outcome /\ b.status = status
        /\ b.debug_capture_id = a.debug_capture_id
    BY DEF finish, AttemptRecord
  <1> QED
    BY <1>1 DEF Judged, IsFinished

\* What is told of an attempt that has its headers: x is the context once a
\* capture may have been made, e its end.
LEMMA AttemptTold ==
  ASSUME NEW c \in Context, NEW d, NEW status \in Nat, NEW outcome \in RR!AttemptOutcomes,
         NEW ok \in BOOLEAN, ok <=> outcome = "completed", NEW verdict \in Nat, NEW exposed,
         c.labels_backend \in Backends, c.attempt \in AttemptNumbers, Slots(c),
         NEW a \in AttemptRecord, a.debug_capture_id = c.debug_capture,
         c.cfg.debug_capture = "failures" /\ c.debug_capture # 0 =>
           outcome \notin {"completed", "stream_incomplete"},
         d.backend_attempts = Append(c.backend_attempts, finish(a, status, outcome)),
         outcome # "stream_incomplete" =>
           d.health = Append(c.health, [backend |-> c.labels_backend, ok |-> ok,
                                        status |-> verdict]),
         outcome = "stream_incomplete" => d.health = c.health,
         d.captures = record_outcome(c, outcome).captures,
         c.cfg.inspector =>
           d.record = [outcome |-> outcome, status |-> status, attempts |-> d.backend_attempts,
                       retried |-> c.retried_attempts, exposed |-> exposed]
  PROVE  \E b : Tells(c, d, b)
  <1>0. PICK b : b = finish(a, status, outcome)
    OBVIOUS
  <1>1. /\ b \in AttemptRecord /\ b.outcome = outcome /\ b.status = status
        /\ b.debug_capture_id = c.debug_capture
        /\ outcome # "stream_incomplete" => b \in Judged
        /\ outcome = "stream_incomplete" => b \notin Judged
    <2>1. IsFinished(b, a, status, outcome)
      BY <1>0, Finished
    <2> QED
      BY <2>1 DEF IsFinished
  <1>2. TellsHealth(c, d, b)
    <2>1. CASE outcome = "stream_incomplete"
      BY <1>1, <2>1 DEF TellsHealth
    <2>2. CASE outcome # "stream_incomplete"
      BY <1>1, <2>2, HealthTold
    <2> QED
      BY <2>1, <2>2
  <1>3. TellsCapture(c, d, b)
    BY <1>1, OutcomeTold
  <1>4. TellsRecord(c, d, b)
    BY <1>1, SMTT(30) DEF TellsRecord
  <1> QED
    BY <1>0, <1>1, <1>2, <1>3, <1>4 DEF Tells

\* record_final_failure tells of the attempt that failed last.
LEMMA FinalFailureTells ==
  ASSUME NEW c \in Context, NEW kind, c.labels_backend \in Backends,
         c.attempt \in AttemptNumbers, Slots(c), c.attempt_record \in AttemptRecord,
         c.attempt_record.debug_capture_id = c.debug_capture,
         NEW d, d = record_final_failure(c, kind)
  PROVE  (\E b : Tells(c, d, b)) /\ d.response.kind = "error"
  <1> DEFINE status == client_status(kind)
             outcome == failure_outcome(kind)
             a == c.attempt_record
             ok == FALSE
  <1>1. /\ d.health = Append(c.health, [backend |-> c.labels_backend, ok |-> ok,
                                        status |-> status])
        /\ d.backend_attempts = Append(c.backend_attempts, finish(a, status, outcome))
        /\ d.captures = record_outcome(c, outcome).captures
        /\ d.response.kind = "error"
    BY DEF record_final_failure, record_inspector, upsert, respond, record_failure,
           record_health, record_outcome, record_request, Context
  <1>2. c.cfg.inspector =>
          d.record = [outcome |-> outcome, status |-> status, attempts |-> d.backend_attempts,
                      retried |-> c.retried_attempts, exposed |-> FALSE]
    BY DEF record_final_failure, record_inspector, upsert, respond, record_failure,
           record_health, record_outcome, record_request, Context
  <1>3. /\ status \in Nat /\ outcome \in RR!AttemptOutcomes
        /\ outcome \notin {"completed", "stream_incomplete"}
        /\ ok \in BOOLEAN /\ (ok <=> outcome = "completed")
        /\ a \in AttemptRecord /\ a.debug_capture_id = c.debug_capture
    BY FailureKinds DEF failure_outcome
  <1> HIDE DEF status, outcome, a, ok
  <1> QED
    BY <1>1, <1>2, <1>3, AttemptTold

\* Both ends of the non-success path tell of the attempt; health gets the
\* status of the backend itself.
LEMMA NonSuccessTells ==
  ASSUME NEW c \in Context, NEW exposed \in BOOLEAN, c.labels_backend \in Backends,
         c.attempt \in AttemptNumbers, Slots(c), c.current_attempt \in AttemptRecord,
         c.current_attempt.debug_capture_id = c.debug_capture,
         NEW d, d = record_non_success(c, exposed)
  PROVE  /\ \E b : Tells(c, d, b)
         /\ d.response.kind = IF exposed THEN "forwarded" ELSE "error"
         /\ d.cfg.inspector => d.record.exposed = exposed
         /\ d.health[Len(d.health)].status = d.upstream_status
         /\ d.route = c.route /\ d.upstream_ended = c.upstream_ended
         /\ d.received_bytes = c.received_bytes
  <1> DEFINE status == map_upstream_status(c.upstream_status)
             outcome == "upstream_non_success"
             a == c.current_attempt
             ok == FALSE
             v == [backend |-> c.labels_backend, ok |-> ok, status |-> c.upstream_status]
  <1>1. /\ d.health = Append(c.health, v)
        /\ d.backend_attempts = Append(c.backend_attempts, finish(a, status, outcome))
        /\ d.captures = record_outcome(c, outcome).captures
        /\ d.response.kind = IF exposed THEN "forwarded" ELSE "error"
        /\ d.upstream_status = c.upstream_status /\ d.cfg = c.cfg
        /\ d.route = c.route /\ d.upstream_ended = c.upstream_ended
        /\ d.received_bytes = c.received_bytes
    BY SMTT(30) DEF record_non_success, record_inspector, upsert, respond, record_failure,
           record_health, record_outcome, record_request, record_final_attempt, Context
  <1>2. c.cfg.inspector =>
          d.record = [outcome |-> outcome, status |-> status, attempts |-> d.backend_attempts,
                      retried |-> c.retried_attempts, exposed |-> exposed]
    BY SMTT(30) DEF record_non_success, record_inspector, upsert, respond, record_failure,
           record_health, record_outcome, record_request, record_final_attempt, Context
  <1>3. /\ status \in Nat /\ outcome \in RR!AttemptOutcomes
        /\ outcome \notin {"completed", "stream_incomplete"}
        /\ ok \in BOOLEAN /\ (ok <=> outcome = "completed")
        /\ a \in AttemptRecord /\ a.debug_capture_id = c.debug_capture
        /\ c.upstream_status \in Nat
    BY SMTT(30) DEF map_upstream_status, RR!AttemptOutcomes, Context
  <1>4. v \in [backend : Backends, ok : BOOLEAN, status : Nat] /\ v.status = c.upstream_status
    BY <1>3
  <1>5. d.health[Len(d.health)] = v
    <2>1. c.health \in Seq([backend : Backends, ok : BOOLEAN, status : Nat])
      BY DEF Context
    <2> HIDE DEF v
    <2> QED
      BY <1>1, <1>4, <2>1, SMTT(30)
  <1> HIDE DEF status, outcome, a, ok
  <1>6. \E b : Tells(c, d, b)
    BY <1>1, <1>2, <1>3, AttemptTold
  <1>7. d.cfg.inspector => d.record.exposed = exposed
    BY <1>1, <1>2, SMTT(30)
  <1> HIDE DEF v
  <1> QED
    BY <1>1, <1>4, <1>5, <1>6, <1>7

\* A buffered success is told.
LEMMA BufferedOkTells ==
  ASSUME NEW c \in Context, c.labels_backend \in Backends,
         c.attempt \in AttemptNumbers, Slots(c), c.current_attempt \in AttemptRecord,
         c.current_attempt.debug_capture_id = c.debug_capture,
         c.cfg.debug_capture = "failures" => c.debug_capture = 0,
         NEW d, d = buffered_ok(c)
  PROVE  (\E b : Tells(c, d, b)) /\ d.response.kind = "buffered"
  <1> DEFINE status == c.upstream_status
             outcome == "completed"
             a == c.current_attempt
             ok == TRUE
  <1>1. /\ d.health = Append(c.health, [backend |-> c.labels_backend, ok |-> ok,
                                        status |-> status])
        /\ d.backend_attempts = Append(c.backend_attempts, finish(a, status, outcome))
        /\ d.captures = record_outcome(c, outcome).captures
        /\ d.response.kind = "buffered"
    BY SMTT(30) DEF buffered_ok, record_inspector, upsert, respond, record_success,
           record_health, record_outcome, record_request, record_final_attempt, Context
  <1>2. c.cfg.inspector =>
          d.record = [outcome |-> outcome, status |-> status, attempts |-> d.backend_attempts,
                      retried |-> c.retried_attempts, exposed |-> FALSE]
    BY SMTT(30) DEF buffered_ok, record_inspector, upsert, respond, record_success,
           record_health, record_outcome, record_request, record_final_attempt, Context
  <1>3. /\ status \in Nat /\ outcome \in RR!AttemptOutcomes
        /\ outcome # "stream_incomplete"
        /\ ok \in BOOLEAN /\ (ok <=> outcome = "completed")
        /\ a \in AttemptRecord /\ a.debug_capture_id = c.debug_capture
    BY DEF RR!AttemptOutcomes, Context
  <1> HIDE DEF status, outcome, a, ok
  <1> QED
    BY <1>1, <1>2, <1>3, AttemptTold

\* What is told after a capture may have been made is told of the request.
LEMMA TellsAfter ==
  ASSUME NEW c, NEW e, NEW d, SameCaptures(c, e),
         e.backend_attempts = c.backend_attempts, e.health = c.health,
         e.labels_backend = c.labels_backend, e.attempt = c.attempt, e.cfg = c.cfg,
         e.retried_attempts = c.retried_attempts,
         \E b : Tells(e, d, b)
  PROVE  \E b : Tells(c, d, b)
  <1> PICK b : Tells(e, d, b)
    OBVIOUS
  <1>1. TellsHealth(c, d, b) /\ TellsRecord(c, d, b)
    BY DEF Tells, TellsHealth, TellsRecord
  <1>2. TellsCapture(c, d, b)
    BY DEF Tells, TellsCapture, SameCaptures
  <1>3. Tells(c, d, b)
    BY <1>1, <1>2 DEF Tells
  <1> QED
    BY <1>3

\* The attempt that is held, and the capture slots, after ensure_failure_debug_capture.
LEMMA EnsuredAttempt ==
  ASSUME NEW c \in Context, NEW written \in BOOLEAN, c.attempt \in AttemptNumbers, Slots(c),
         NEW d, d = ensure_failure_debug_capture(c, written)
  PROVE  /\ Changes(c, d, CaptureFields) /\ Slots(d) /\ SameCaptures(c, d)
         /\ c.attempt_record \in AttemptRecord =>
              /\ d.attempt_record \in AttemptRecord
              /\ d.attempt_record.debug_capture_id = d.debug_capture
         /\ c.current_attempt \in AttemptRecord =>
              /\ d.current_attempt \in AttemptRecord
              /\ d.current_attempt.debug_capture_id = d.debug_capture
  <1>1. Changes(c, d, CaptureFields)
    BY EnsureFailureDebugCapture
  <1>a. d.debug_capture \in {0} \cup AttemptNumbers
    BY <1>1 DEF Changes, Context
  <1>2. \A a \in AttemptRecord :
          LET x == [a EXCEPT !.debug_capture_id = d.debug_capture]
          IN x \in AttemptRecord /\ x.debug_capture_id = d.debug_capture
    BY <1>a DEF AttemptRecord
  <1>3. /\ Slots(d) /\ SameCaptures(c, d)
        /\ c.attempt_record # NoAttempt =>
             d.attempt_record = [c.attempt_record EXCEPT !.debug_capture_id = d.debug_capture]
        /\ c.current_attempt # NoAttempt =>
             d.current_attempt = [c.current_attempt EXCEPT !.debug_capture_id = d.debug_capture]
    BY EnsureSlots
  <1> QED
    BY <1>1, <1>2, <1>3, NoAttemptIsNone

\* The end of buffered_failed, after the capture.
failed_end(c, status, outcome) ==
  respond(record_inspector(record_final_attempt(
            record_failure(record_outcome(c, outcome), status), status, outcome),
            outcome, status, FALSE), "error", status)

\* Whom it tells, and what.
LEMMA FailedEnd ==
  ASSUME NEW e \in Context, NEW status, NEW outcome,
         NEW d, d = failed_end(e, status, outcome)
  PROVE  /\ d.health = Append(e.health, [backend |-> e.labels_backend, ok |-> FALSE,
                                         status |-> status])
         /\ d.backend_attempts = Append(e.backend_attempts,
                                        finish(e.current_attempt, status, outcome))
         /\ d.captures = record_outcome(e, outcome).captures
         /\ d.response.kind = "error"
         /\ e.cfg.inspector =>
              d.record = [outcome |-> outcome, status |-> status,
                          attempts |-> d.backend_attempts,
                          retried |-> e.retried_attempts, exposed |-> FALSE]
  <1>1. /\ d.health = Append(e.health, [backend |-> e.labels_backend, ok |-> FALSE,
                                        status |-> status])
        /\ d.backend_attempts = Append(e.backend_attempts,
                                       finish(e.current_attempt, status, outcome))
        /\ d.captures = record_outcome(e, outcome).captures
        /\ d.response.kind = "error"
    BY DEF failed_end, record_inspector, upsert, respond, record_failure,
           record_health, record_outcome, record_final_attempt, Context
  <1>2. e.cfg.inspector =>
          d.record = [outcome |-> outcome, status |-> status, attempts |-> d.backend_attempts,
                      retried |-> e.retried_attempts, exposed |-> FALSE]
    BY DEF failed_end, record_inspector, upsert, respond, record_failure,
           record_health, record_outcome, record_final_attempt, Context
  <1> QED
    BY <1>1, <1>2

\* A body that could not be read is told as a failure.
LEMMA BufferedFailedTells ==
  ASSUME NEW c \in Context, NEW written \in BOOLEAN, c.labels_backend \in Backends,
         c.attempt \in AttemptNumbers, Slots(c), c.current_attempt \in AttemptRecord,
         NEW d, d = buffered_failed(c, written)
  PROVE  (\E b : Tells(c, d, b)) /\ d.response.kind = "error"
  <1> DEFINE g == record_request(c, 502)
  <1>1. g \in Context /\ Changes(c, g, {"requests_total"})
    BY RecordRequest, SMTT(30) DEF Changes
  <1> HIDE DEF g
  <1>2. g.attempt = c.attempt /\ Slots(g) /\ g.current_attempt = c.current_attempt
        /\ g.captures = c.captures
    BY <1>1 DEF Changes, Keeps, Fields, Slots
  <1>3. PICK e : e = ensure_failure_debug_capture(g, written)
    OBVIOUS
  <1>4. /\ Changes(g, e, CaptureFields) /\ Slots(e) /\ SameCaptures(g, e)
        /\ e.current_attempt \in AttemptRecord
        /\ e.current_attempt.debug_capture_id = e.debug_capture
    BY <1>1, <1>2, <1>3, EnsuredAttempt, SMTT(30)
  <1>5. Changes(c, e, CaptureFields \cup {"requests_total"})
    BY <1>1, <1>4 DEF Changes, Keeps
  <1>a. e \in Context
    BY <1>5 DEF Changes
  <1>6. /\ e \in Context /\ e.backend_attempts = c.backend_attempts /\ e.health = c.health
        /\ e.labels_backend = c.labels_backend /\ e.attempt = c.attempt /\ e.cfg = c.cfg
        /\ e.retried_attempts = c.retried_attempts
    BY <1>5 DEF Changes, Keeps, Fields, CaptureFields
  <1> DEFINE status == 502
             outcome == "upstream_body_read_failed"
             a == e.current_attempt
             ok == FALSE
  <1>7. d = failed_end(e, status, outcome)
    BY <1>3 DEF buffered_failed, failed_end, g
  <1>b. /\ status \in Nat /\ outcome \in RR!AttemptOutcomes
        /\ outcome \notin {"completed", "stream_incomplete"}
        /\ ok \in BOOLEAN /\ (ok <=> outcome = "completed")
        /\ a \in AttemptRecord /\ a.debug_capture_id = e.debug_capture
    BY <1>4, SMTT(30) DEF RR!AttemptOutcomes
  <1> HIDE DEF status, outcome
  <1>8. /\ d.health = Append(e.health, [backend |-> e.labels_backend, ok |-> ok,
                                        status |-> status])
        /\ d.backend_attempts = Append(e.backend_attempts, finish(a, status, outcome))
        /\ d.captures = record_outcome(e, outcome).captures
        /\ d.response.kind = "error"
        /\ e.cfg.inspector =>
             d.record = [outcome |-> outcome, status |-> status, attempts |-> d.backend_attempts,
                         retried |-> e.retried_attempts, exposed |-> FALSE]
    BY <1>7, <1>a, FailedEnd, SMTT(30)
  <1> HIDE DEF a, ok
  <1>11. \E b : Tells(e, d, b)
    BY <1>4, <1>6, <1>8, <1>b, AttemptTold
  <1>12. SameCaptures(c, e)
    BY <1>2, <1>4 DEF SameCaptures
  <1> QED
    BY <1>6, <1>8, <1>11, <1>12, TellsAfter

\* The drop of a stream tells of its attempt, however the stream ended.
LEMMA StreamDroppedTells ==
  ASSUME NEW c \in Context, NEW written \in BOOLEAN, c.labels_backend \in Backends,
         c.attempt \in AttemptNumbers, Slots(c), c.current_attempt \in AttemptRecord,
         c.current_attempt.debug_capture_id = c.debug_capture,
         c.cfg.debug_capture = "failures" => c.debug_capture = 0,
         NEW d, d = stream_dropped(c, written)
  PROVE  (\E b : Tells(c, d, b)) /\ d.response = c.response
  <1>1. PICK e : e = IF c.stream_error_kind # None
                     THEN ensure_failure_debug_capture(c, written) ELSE c
    OBVIOUS
  <1>2. /\ Changes(c, e, CaptureFields) /\ Slots(e) /\ SameCaptures(c, e)
        /\ e.current_attempt \in AttemptRecord
        /\ e.current_attempt.debug_capture_id = e.debug_capture
        /\ c.stream_error_kind = None => e = c
    <2>1. CASE c.stream_error_kind # None
      BY <1>1, <2>1, EnsuredAttempt
    <2>2. CASE c.stream_error_kind = None
      BY <1>1, <2>2 DEF Changes, Keeps, SameCaptures
    <2> QED
      BY <2>1, <2>2
  <1>3. /\ e \in Context /\ e.backend_attempts = c.backend_attempts /\ e.health = c.health
        /\ e.labels_backend = c.labels_backend /\ e.attempt = c.attempt /\ e.cfg = c.cfg
        /\ e.retried_attempts = c.retried_attempts /\ e.response = c.response
    BY <1>2 DEF Changes, Keeps, Fields, CaptureFields
  <1> DEFINE status == c.upstream_status
             outcome == stream_outcome(c)
             a == e.current_attempt
             listed == record_final_attempt(e, status, outcome)
             judged == CASE outcome = "upstream_stream_failed" -> record_failure(listed, status)
                         [] outcome = "completed" -> record_success(listed, status)
                         [] outcome = "stream_incomplete" -> listed
             final == record_inspector(record_outcome(judged, outcome), outcome, status, FALSE)
  <1>4. d = [final EXCEPT !.pc = "done", !.streams_total = @ + 1]
    BY <1>1 DEF stream_dropped
  <1>5. /\ status \in Nat /\ outcome \in RR!AttemptOutcomes
        /\ outcome \in {"upstream_stream_failed", "completed", "stream_incomplete"}
        /\ outcome # "upstream_stream_failed" => e = c
    BY <1>2 DEF stream_outcome, Context, RR!AttemptOutcomes
  <1> HIDE DEF status, outcome
  <1>6. /\ listed.health = e.health /\ listed.captures = e.captures
        /\ listed.debug_capture = e.debug_capture /\ listed.cfg = e.cfg
        /\ listed.backend_attempts = Append(e.backend_attempts, finish(a, status, outcome))
        /\ listed.retried_attempts = e.retried_attempts
        /\ listed.labels_backend = e.labels_backend /\ listed.response = e.response
        /\ DOMAIN listed = DOMAIN e
    BY <1>3 DEF record_final_attempt, Context
  <1>7. {"health", "captures", "record", "pc", "streams_total", "response", "cfg",
         "debug_capture", "retried_attempts", "backend_attempts"} \subseteq DOMAIN e
    BY <1>3 DEF Context
  <1> HIDE DEF listed
  <1>8. /\ judged.captures = e.captures /\ judged.debug_capture = e.debug_capture
        /\ judged.backend_attempts = listed.backend_attempts /\ judged.cfg = e.cfg
        /\ judged.retried_attempts = e.retried_attempts /\ judged.response = e.response
        /\ DOMAIN judged = DOMAIN e
        /\ outcome = "stream_incomplete" => judged.health = e.health
        /\ outcome = "completed" =>
             judged.health = Append(e.health, [backend |-> e.labels_backend, ok |-> TRUE,
                                               status |-> status])
        /\ outcome = "upstream_stream_failed" =>
             judged.health = Append(e.health, [backend |-> e.labels_backend, ok |-> FALSE,
                                               status |-> status])
    <2>1. CASE outcome = "stream_incomplete"
      BY <1>6, <2>1
    <2>2. CASE outcome = "completed"
      <3>1. judged = record_success(listed, status)
        BY <2>2
      <3> QED
        BY <1>6, <1>7, <2>2, <3>1 DEF record_success, record_health
    <2>3. CASE outcome = "upstream_stream_failed"
      <3>1. judged = record_failure(listed, status)
        BY <2>3
      <3> QED
        BY <1>6, <1>7, <2>3, <3>1 DEF record_failure, record_health
    <2> QED
      BY <1>5, <2>1, <2>2, <2>3
  <1> HIDE DEF judged
  <1>9. /\ d.captures = record_outcome(e, outcome).captures
        /\ d.backend_attempts = listed.backend_attempts
        /\ d.response = e.response /\ d.health = judged.health
        /\ e.cfg.inspector =>
             d.record = [outcome |-> outcome, status |-> status,
                         attempts |-> d.backend_attempts,
                         retried |-> e.retried_attempts, exposed |-> FALSE]
    <2> DEFINE marked == record_outcome(judged, outcome)
    <2>1. /\ marked.captures = record_outcome(e, outcome).captures
          /\ marked.backend_attempts = listed.backend_attempts
          /\ marked.response = e.response /\ marked.health = judged.health
          /\ marked.cfg = e.cfg /\ marked.retried_attempts = e.retried_attempts
          /\ DOMAIN marked = DOMAIN e
      BY <1>7, <1>8 DEF record_outcome
    <2>2. final = record_inspector(marked, outcome, status, FALSE)
      OBVIOUS
    <2> HIDE DEF marked, final
    <2>3. /\ final.captures = marked.captures
          /\ final.backend_attempts = marked.backend_attempts
          /\ final.response = marked.response /\ final.health = marked.health
          /\ DOMAIN final = DOMAIN e
          /\ e.cfg.inspector =>
               final.record = [outcome |-> outcome, status |-> status,
                               attempts |-> marked.backend_attempts,
                               retried |-> e.retried_attempts, exposed |-> FALSE]
      BY <1>7, <2>1, <2>2 DEF record_inspector, upsert
    <2>4. /\ d.captures = final.captures /\ d.backend_attempts = final.backend_attempts
          /\ d.response = final.response /\ d.health = final.health
          /\ d.record = final.record
      BY <1>4, <1>7, <2>3
    <2> QED
      BY <2>1, <2>3, <2>4
  <1>b. a \in AttemptRecord /\ a.debug_capture_id = e.debug_capture
    BY <1>2
  <1> HIDE DEF a, final
  <1>10. \E ok \in BOOLEAN :
           /\ ok <=> outcome = "completed"
           /\ outcome # "stream_incomplete" =>
                d.health = Append(e.health, [backend |-> e.labels_backend, ok |-> ok,
                                             status |-> status])
    <2>1. CASE outcome = "completed"
      <3>1. d.health = Append(e.health, [backend |-> e.labels_backend, ok |-> TRUE,
                                         status |-> status])
        BY <1>8, <1>9, <2>1
      <3> QED
        BY <2>1, <3>1
    <2>2. CASE outcome = "stream_incomplete"
      BY <2>2
    <2>3. CASE outcome = "upstream_stream_failed"
      <3>1. d.health = Append(e.health, [backend |-> e.labels_backend, ok |-> FALSE,
                                         status |-> status])
        BY <1>8, <1>9, <2>3
      <3> QED
        BY <2>3, <3>1
    <2> QED
      BY <1>5, <2>1, <2>2, <2>3
  <1>11. \E b : Tells(e, d, b)
    <2> PICK ok \in BOOLEAN : /\ ok <=> outcome = "completed"
                              /\ outcome # "stream_incomplete" =>
                                   d.health = Append(e.health, [backend |-> e.labels_backend,
                                                                ok |-> ok, status |-> status])
      BY <1>10
    <2>1. outcome = "stream_incomplete" => d.health = e.health
      BY <1>8, <1>9
    <2>2. e.cfg.debug_capture = "failures" /\ e.debug_capture # 0 =>
            outcome \notin {"completed", "stream_incomplete"}
      BY <1>5
    <2>3. d.backend_attempts = Append(e.backend_attempts, finish(a, status, outcome))
      BY <1>6, <1>9
    <2>4. /\ e \in Context /\ e.labels_backend \in Backends
          /\ e.attempt \in AttemptNumbers /\ Slots(e)
      BY <1>2, <1>3
    <2>5. d.captures = record_outcome(e, outcome).captures
      BY <1>9
    <2>6. e.cfg.inspector =>
            d.record = [outcome |-> outcome, status |-> status, attempts |-> d.backend_attempts,
                        retried |-> e.retried_attempts, exposed |-> FALSE]
      BY <1>9
    <2> DEFINE told == \E b : Tells(e, d, b)
    <2> HIDE DEF told
    <2> QED
      BY <1>5, <1>b, <2>1, <2>2, <2>3, <2>4, <2>5, <2>6, AttemptTold, ZenonT(60)
  <1> QED
    BY <1>2, <1>3, <1>9, <1>11, TellsAfter

-----------------------------------------------------------------------------
(***************************************************************************)
(* The inductive invariant of one context.                                 *)
(***************************************************************************)

Active(c) == c.pc \notin {"new", "done"}

\* Where the request is in its candidates, and which ones are left.
Position(c) ==
  /\ c.attempt = 0 => c.max_attempts = 0
  /\ c.attempt > 0 =>
       /\ c.attempt <= c.max_attempts
       /\ c.max_attempts <= Len(c.candidates)
       /\ c.max_attempts <= 1 + c.cfg.fallback_attempts
       /\ c.route = c.candidates[c.attempt]
       /\ c.labels_backend = c.route.backend_id
       /\ Len(c.fallback_routes) = c.max_attempts - c.attempt
       /\ \A i \in 1..Len(c.fallback_routes) :
            c.fallback_routes[i] = c.candidates[c.attempt + i]

\* The attempts listed and counted are those of the first candidates.
Listed(c) ==
  /\ \A i \in DOMAIN c.backend_attempts :
       /\ c.backend_attempts[i].attempt = i
       /\ c.backend_attempts[i].backend = c.candidates[i].backend_id
  /\ \A i \in DOMAIN c.backend_attempts_total :
       c.backend_attempts_total[i] = c.candidates[i].backend_id

\* a is the attempt the request is making.
IsCurrent(c, a) ==
  a \in AttemptRecord /\ a.attempt = c.attempt /\ a.backend = c.labels_backend

\* The attempt under way is held in the place its stage looks for it, and all
\* earlier ones are listed.
Underway(c) ==
  /\ c.pc = "new" => c = NewContext(c.cfg)
  /\ Active(c) => /\ c.attempt > 0
                  /\ Len(c.backend_attempts) = c.attempt - 1
                  /\ Len(c.backend_attempts_total) =
                       IF c.pc = "route" THEN c.attempt - 1 ELSE c.attempt
  /\ c.pc = "send" => IsCurrent(c, c.attempt_record)
  /\ c.pc \in {"route", "send"} => c.current_attempt = NoAttempt
  /\ c.pc \in {"error_body", "buffer", "stream"} => IsCurrent(c, c.current_attempt)

\* The request has been counted exactly if its client has got a status that is
\* observed.
Observed(c) ==
  /\ c.pc \in {"route", "send", "error_body", "buffer"} =>
       c.requests_total = <<>> /\ c.response.kind = "none"
  /\ c.pc = "stream" => c.requests_total = <<c.response.status>>
  /\ c.pc = "done" => \/ c.requests_total = <<c.response.status>>
                      \/ c.requests_total = <<>> /\ Unobserved(c)

\* The inspector's record, before (~gone) and after the store is dropped.
Recorded(c, gone) ==
  /\ ~c.cfg.inspector => c.record = Unpublished
  /\ Active(c) /\ c.cfg.inspector =>
       /\ c.record.outcome = "in_flight"
       /\ Len(c.record.attempts) =
            IF c.current_attempt = NoAttempt THEN c.attempt - 1 ELSE c.attempt
  /\ c.pc = "done" /\ c.cfg.inspector =>
       /\ c.requests_total # <<>> => c.record.outcome \in RR!FinalOutcomes
       /\ c.requests_total = <<>> /\ ~gone => c.record.outcome \notin RR!FinalOutcomes

CInv(c, gone) ==
  /\ c \in Context
  /\ Position(c) /\ Listed(c) /\ Underway(c) /\ Observed(c) /\ Recorded(c, gone)

IInv ==
  /\ shutdown \in BOOLEAN /\ dropped \in BOOLEAN
  /\ req \in [Requests -> Context]
  /\ \A r \in Requests : CInv(req[r], dropped)

-----------------------------------------------------------------------------
(***************************************************************************)
(* Every action keeps the invariant, moves the record as RequestRecord     *)
(* allows, and starts no attempt after the headers of one.                 *)
(***************************************************************************)

\* The record may stay, be refused or published, list one more attempt, or
\* become final.
RecordStep(p, q) ==
  LET same == Len(q.attempts) = Len(p.attempts)
      more == Len(q.attempts) = Len(p.attempts) + 1
  IN \/ q.outcome = p.outcome /\ same
     \/ p.outcome = "unpublished" /\ q.outcome \in {"preflight", "in_flight"} /\ same
     \/ p.outcome = "in_flight" /\ q.outcome = "in_flight" /\ more
     \/ /\ p.outcome = "in_flight" /\ q.outcome \in RR!AttemptOutcomes
        /\ more \/ (same /\ Len(p.attempts) > 0)

NoRetry(c, d) ==
  c.current_attempt # NoAttempt \/ c.response.kind # "none" =>
    d.attempt = c.attempt /\ d.backend_attempts_total = c.backend_attempts_total

Safe(c, d) == CInv(d, FALSE) /\ RecordStep(c.record, d.record) /\ NoRetry(c, d)

PositionFields == {"attempt", "max_attempts", "candidates", "cfg", "route",
                   "labels_backend", "fallback_routes"}

\* What leaves the position fields alone keeps the position.
LEMMA SamePosition ==
  ASSUME NEW c, NEW d, NEW F, Keeps(c, d, F), F \cap PositionFields = {}, Position(c)
  PROVE  Position(d) /\ d.cfg = c.cfg /\ d.candidates = c.candidates
         /\ d.attempt = c.attempt /\ d.labels_backend = c.labels_backend
  <1>1. \A f \in PositionFields : d[f] = c[f]
    BY DEF Keeps, Fields, PositionFields
  <1>2. /\ d.attempt = c.attempt /\ d.max_attempts = c.max_attempts
        /\ d.candidates = c.candidates /\ d.cfg = c.cfg /\ d.route = c.route
        /\ d.labels_backend = c.labels_backend /\ d.fallback_routes = c.fallback_routes
    BY <1>1 DEF PositionFields
  <1> QED
    BY <1>2 DEF Position

\* An active request is at one of its candidates.
LEMMA ActiveFacts ==
  ASSUME NEW c, CInv(c, FALSE), Active(c)
  PROVE  /\ c \in Context /\ c.attempt \in AttemptNumbers /\ c.attempt \in Nat
         /\ c.attempt <= Len(c.candidates)
         /\ c.labels_backend \in Backends
         /\ c.labels_backend = c.candidates[c.attempt].backend_id
         /\ c.backend_attempts \in Seq(AttemptRecord)
         /\ c.backend_attempts_total \in Seq(Backends)
  <1>1. c \in Context /\ Position(c) /\ c.attempt > 0
    BY SMTT(60) DEF CInv, Underway
  <1>2. /\ c.candidates \in Seq(SelectedRoute) /\ c.attempt \in Nat
        /\ c.max_attempts \in Nat /\ c.cfg.fallback_attempts \in 0..MaxFallback
        /\ c.backend_attempts \in Seq(AttemptRecord)
        /\ c.backend_attempts_total \in Seq(Backends)
    BY <1>1 DEF Context, Config
  <1>3. c.attempt \in 1..Len(c.candidates) /\ c.attempt \in AttemptNumbers
    BY <1>1, <1>2, BoundsAssumption, SMTT(60) DEF Position, AttemptNumbers
  <1>4. c.candidates[c.attempt] \in SelectedRoute
    BY <1>2, <1>3, SMTT(30)
  <1>5. c.candidates[c.attempt].backend_id \in Backends
    BY <1>4 DEF SelectedRoute
  <1> QED
    BY <1>1, <1>2, <1>3, <1>5, SMTT(60) DEF Position

\* An attempt that ends its request does so under the candidate it was for.
LEMMA EndedStep ==
  ASSUME NEW c, NEW d, NEW a, CInv(c, FALSE), Active(c), c.pc # "route",
         IsCurrent(c, a), Ended(c, d, a)
  PROVE  Safe(c, d)
  <1>1. PICK b \in AttemptRecord : /\ b.attempt = a.attempt /\ b.backend = a.backend
                                   /\ d.backend_attempts = Append(c.backend_attempts, b)
    BY DEF Ended
  <1>2. Keeps(c, d, EndFields) /\ d \in Context
    BY DEF Ended, Changes
  <1>3. /\ Position(d) /\ d.cfg = c.cfg /\ d.candidates = c.candidates
        /\ d.attempt = c.attempt
    <2>1. EndFields \cap PositionFields = {}
      BY DEF EndFields, CaptureFields, PositionFields
    <2> QED
      BY <1>2, <2>1, SamePosition DEF CInv
  <1>4. d.backend_attempts_total = c.backend_attempts_total
    BY <1>2 DEF Keeps, Fields, EndFields, CaptureFields
  <1>5. /\ c.attempt \in Nat /\ c.attempt > 0 /\ Len(c.backend_attempts) = c.attempt - 1
        /\ c.backend_attempts \in Seq(AttemptRecord)
    BY ActiveFacts DEF CInv, Underway
  <1>6. Listed(d)
    <2>1. \A i \in 1..(c.attempt - 1) : d.backend_attempts[i] = c.backend_attempts[i]
      BY <1>1, <1>5, SMTT(30)
    <2>2. d.backend_attempts[c.attempt] = b /\ Len(d.backend_attempts) = c.attempt
      BY <1>1, <1>5, SMTT(30)
    <2>3. b.attempt = c.attempt /\ b.backend = c.candidates[c.attempt].backend_id
      BY <1>1, ActiveFacts DEF IsCurrent
    <2>4. DOMAIN d.backend_attempts = 1..c.attempt
          /\ DOMAIN c.backend_attempts = 1..(c.attempt - 1)
      BY <1>1, <1>5, SMTT(30)
    <2>5. \A i \in DOMAIN d.backend_attempts :
            /\ d.backend_attempts[i].attempt = i
            /\ d.backend_attempts[i].backend = d.candidates[i].backend_id
      <3> SUFFICES ASSUME NEW i \in 1..c.attempt
                   PROVE  /\ d.backend_attempts[i].attempt = i
                          /\ d.backend_attempts[i].backend = c.candidates[i].backend_id
        BY <1>3, <2>4
      <3>1. CASE i = c.attempt
        BY <2>2, <2>3, <3>1
      <3>2. CASE i # c.attempt
        <4>1. i \in 1..(c.attempt - 1)
          BY <1>5, <3>2, SMTT(60)
        <4> QED
          BY <2>1, <2>4, <4>1 DEF CInv, Listed
      <3> QED
        BY <3>1, <3>2
    <2> QED
      BY <1>3, <1>4, <2>5 DEF CInv, Listed
  <1>7. Underway(d) /\ Observed(d)
    BY SMTT(60) DEF Ended, Underway, Observed, Active
  <1>8. Recorded(d, FALSE)
    <2>1. c.cfg.inspector => d.record.outcome \in RR!FinalOutcomes
      BY DEF Ended, RR!FinalOutcomes
    <2>2. d.requests_total # <<>>
      BY SMTT(30) DEF Ended
    <2> QED
      BY <1>3, <2>1, <2>2 DEF CInv, Ended, Recorded, Active
  <1>9. RecordStep(c.record, d.record)
    <2>1. CASE ~c.cfg.inspector
      BY <2>1 DEF Ended, RecordStep
    <2>2. CASE c.cfg.inspector
      <3>1. Len(d.record.attempts) = c.attempt
        BY <1>1, <1>5, <2>2, SMTT(30) DEF Ended
      <3>2. /\ c.record.outcome = "in_flight"
            /\ \/ Len(c.record.attempts) = c.attempt
               \/ Len(c.record.attempts) = c.attempt - 1
        BY <2>2, SMTT(60) DEF CInv, Recorded
      <3>3. d.record.outcome \in RR!AttemptOutcomes
        BY <2>2 DEF Ended
      <3>4. \/ Len(d.record.attempts) = Len(c.record.attempts) + 1
            \/ /\ Len(d.record.attempts) = Len(c.record.attempts)
               /\ Len(c.record.attempts) > 0
        BY <1>5, <3>1, <3>2, SMTT(60)
      <3> QED
        BY <3>2, <3>3, <3>4, SMTT(60) DEF RecordStep
    <2> QED
      BY <2>1, <2>2, SMTT(60)
  <1> QED
    BY <1>2, <1>3, <1>4, <1>6, <1>7, <1>8, <1>9 DEF Safe, CInv, NoRetry

\* A request that ends unobserved leaves its record in flight.
LEMMA QuietEnd ==
  ASSUME NEW c, NEW d, CInv(c, FALSE), Active(c), c.pc # "stream",
         Changes(c, d, CaptureFields \cup {"pc", "response", "record", "backend_attempts_total"}),
         d.pc = "done", Unobserved(d), Listed(d), NoRetry(c, d),
         ~c.cfg.inspector => d.record = c.record,
         c.cfg.inspector => /\ d.record.outcome = "in_flight"
                            /\ Len(d.record.attempts) = Len(c.record.attempts)
  PROVE  Safe(c, d)
  <1> DEFINE F == CaptureFields \cup {"pc", "response", "record", "backend_attempts_total"}
  <1>1. Keeps(c, d, F) /\ d \in Context
    BY DEF Changes
  <1>2. Position(d) /\ d.cfg = c.cfg
    <2>1. F \cap PositionFields = {}
      BY DEF CaptureFields, PositionFields
    <2> QED
      BY <1>1, <2>1, SamePosition, SMTT(30) DEF CInv
  <1>3. d.requests_total = <<>>
    <2>1. d.requests_total = c.requests_total
      BY <1>1 DEF Keeps, Fields, CaptureFields
    <2> QED
      BY <2>1 DEF CInv, Observed, Active, Context
  <1>4. Underway(d) /\ Observed(d)
    BY <1>3, SMTT(60) DEF Underway, Observed, Active
  <1>5. Recorded(d, FALSE)
    BY <1>2, <1>3, SMTT(60) DEF CInv, Recorded, Active, RR!FinalOutcomes, RR!AttemptOutcomes
  <1>6. RecordStep(c.record, d.record)
    BY SMTT(60) DEF CInv, Recorded, RecordStep
  <1> QED
    BY <1>1, <1>2, <1>4, <1>5, <1>6 DEF Safe, CInv

\* The answers and the end without one that change nothing but the response.
LEMMA QuietRespond ==
  ASSUME NEW c, NEW d, CInv(c, FALSE), Active(c), c.pc # "stream",
         Changes(c, d, {"pc", "response"}), d.pc = "done", Unobserved(d)
  PROVE  Safe(c, d)
  <1>1. /\ d.record = c.record /\ d.backend_attempts = c.backend_attempts
        /\ d.backend_attempts_total = c.backend_attempts_total
        /\ d.candidates = c.candidates /\ d.attempt = c.attempt
    BY DEF Changes, Keeps, Fields
  <1>2. Listed(d) /\ NoRetry(c, d)
    BY <1>1 DEF CInv, Listed, NoRetry
  <1>3. Changes(c, d, CaptureFields \cup {"pc", "response", "record", "backend_attempts_total"})
    BY DEF Changes, Keeps
  <1>4. c.cfg.inspector => /\ d.record.outcome = "in_flight"
                           /\ Len(d.record.attempts) = Len(c.record.attempts)
    BY <1>1 DEF CInv, Recorded
  <1> QED
    BY <1>1, <1>2, <1>3, <1>4, QuietEnd

\* Fields that only the reading of a body changes.
BodyFields == {"error_bytes", "received_bytes", "truncated", "upstream_ended",
               "client_bytes", "body_complete", "stream_error_kind", "stream_capture"}

\* Reading a body disturbs nothing the invariant speaks of.
LEMMA BodyStep ==
  ASSUME NEW c, NEW d, CInv(c, FALSE), Active(c), Changes(c, d, BodyFields)
  PROVE  Safe(c, d)
  <1>1. \A f \in Fields \ BodyFields : d[f] = c[f]
    BY DEF Changes, Keeps
  <1>2. Position(d) /\ d.cfg = c.cfg /\ d.candidates = c.candidates /\ d.attempt = c.attempt
        /\ d.labels_backend = c.labels_backend
    <2>1. BodyFields \cap PositionFields = {}
      BY DEF BodyFields, PositionFields
    <2> QED
      BY <2>1, SamePosition DEF CInv, Changes
  <1>3. /\ d.backend_attempts = c.backend_attempts
        /\ d.backend_attempts_total = c.backend_attempts_total
        /\ d.pc = c.pc /\ d.record = c.record /\ d.response = c.response
        /\ d.current_attempt = c.current_attempt /\ d.attempt_record = c.attempt_record
        /\ d.requests_total = c.requests_total
    BY <1>1 DEF Fields, BodyFields
  <1>4. Listed(d) /\ Observed(d) /\ Recorded(d, FALSE)
    BY <1>2, <1>3, SMTT(30) DEF CInv, Listed, Observed, Recorded, Active, Unobserved
  <1>5. Underway(d)
    BY <1>2, <1>3 DEF CInv, Underway, Active, IsCurrent
  <1> QED
    BY <1>2, <1>3, <1>4, <1>5 DEF Safe, CInv, Changes, RecordStep, NoRetry

\* What a new context holds.
LEMMA NewFacts ==
  ASSUME NEW c, CInv(c, FALSE), c.pc = "new"
  PROVE  /\ c \in Context
         /\ c.attempt = 0 /\ c.max_attempts = 0
         /\ c.backend_attempts = <<>> /\ c.backend_attempts_total = <<>>
         /\ c.requests_total = <<>> /\ c.record = Unpublished
         /\ c.response.kind = "none" /\ c.current_attempt = NoAttempt
  <1>1. c \in Context /\ c = NewContext(c.cfg)
    BY DEF CInv, Underway
  <1> QED
    BY <1>1, SMTT(60) DEF NewContext

\* count_tokens
LEMMA CountTokensStep ==
  ASSUME NEW c, CInv(c, FALSE), c.pc = "new"
  PROVE  Safe(c, respond(c, "error", 404))
  <1> DEFINE kind == "error"
             status == 404
             d == respond(c, kind, status)
  <1>1. kind \in {"error", "forwarded", "buffered"} /\ status \in Nat
    BY SMTT(30)
  <1> HIDE DEF kind, status
  <1>2. c \in Context /\ c.record = Unpublished
    BY NewFacts
  <1>3. /\ Changes(c, d, {"pc", "response"}) /\ d.pc = "done"
        /\ d.response = [kind |-> kind, status |-> status]
    BY <1>1, <1>2, Respond, SMTT(30)
  <1> HIDE DEF d
  <1>4. /\ d.attempt = c.attempt /\ d.max_attempts = c.max_attempts
        /\ d.backend_attempts = c.backend_attempts
        /\ d.backend_attempts_total = c.backend_attempts_total
        /\ d.requests_total = c.requests_total /\ d.record = c.record
    BY <1>3 DEF Changes, Keeps, Fields
  <1>5. /\ d.attempt = 0 /\ d.max_attempts = 0 /\ d.backend_attempts = <<>>
        /\ d.backend_attempts_total = <<>> /\ d.requests_total = <<>>
    BY <1>4, NewFacts
  <1>6. Position(d) /\ Listed(d) /\ Underway(d)
    BY <1>3, <1>5, SMTT(30) DEF Position, Listed, Underway, Active
  <1>7. Unobserved(d)
    BY <1>3, SMTT(30) DEF Unobserved, kind, status
  <1>8. Observed(d)
    BY <1>3, <1>5, <1>7 DEF Observed
  <1>9. Recorded(d, FALSE)
    BY <1>2, <1>3, <1>4, <1>5, SMTT(60)
    DEF Recorded, Unpublished, Active, RR!FinalOutcomes, RR!AttemptOutcomes
  <1>10. RecordStep(c.record, d.record) /\ NoRetry(c, d)
    BY <1>4, NewFacts, SMTT(60) DEF RecordStep, NoRetry
  <1>11. Safe(c, d)
    BY <1>3, <1>6, <1>8, <1>9, <1>10 DEF Safe, CInv, Changes
  <1> QED
    BY <1>11 DEF d, kind, status

\* A refused request has a final record that lists no attempt.
LEMMA PreflightStep ==
  ASSUME NEW c, CInv(c, FALSE), c.pc = "new", NEW status \in Nat
  PROVE  Safe(c, handle_preflight_failure(c, status))
  <1> DEFINE kind == "error"
             outcome == "preflight"
             exposed == FALSE
             e == record_request(c, status)
             d == respond(record_inspector(e, outcome, status, exposed), kind, status)
  <1>1. handle_preflight_failure(c, status) = d
    BY DEF handle_preflight_failure
  <1>2. /\ kind \in {"error", "forwarded", "buffered"} /\ exposed \in BOOLEAN
        /\ outcome \in RR!FinalOutcomes
    BY DEF RR!FinalOutcomes
  <1>3. c \in Context /\ c.record = Unpublished /\ c.requests_total = <<>>
    BY NewFacts
  <1>4. Changes(c, e, {"requests_total"}) /\ e.requests_total = <<status>>
    BY <1>3, RecordRequest, CountedFirst
  <1> HIDE DEF kind, outcome, exposed, e
  <1>5. e \in Context
    BY <1>4 DEF Changes
  <1>6. /\ Changes(e, d, {"record", "pc", "response"}) /\ d.pc = "done"
        /\ d.response = [kind |-> kind, status |-> status]
        /\ ~e.cfg.inspector => d.record = e.record
        /\ e.cfg.inspector => /\ d.record.outcome = outcome
                              /\ d.record.attempts = e.backend_attempts
    BY <1>2, <1>5, FinalAnswer, SMTT(30)
  <1> HIDE DEF d
  <1>7. Changes(c, d, {"requests_total", "record", "pc", "response"})
    BY <1>4, <1>6, SMTT(60) DEF Changes, Keeps
  <1>8. /\ d.attempt = c.attempt /\ d.max_attempts = c.max_attempts
        /\ d.backend_attempts = c.backend_attempts
        /\ d.backend_attempts_total = c.backend_attempts_total
        /\ d.requests_total = e.requests_total /\ d.cfg = c.cfg
        /\ e.cfg = c.cfg /\ e.record = c.record /\ e.backend_attempts = c.backend_attempts
    BY <1>4, <1>6, <1>7 DEF Changes, Keeps, Fields
  <1>9. /\ d.attempt = 0 /\ d.max_attempts = 0 /\ d.backend_attempts = <<>>
        /\ d.backend_attempts_total = <<>>
    BY <1>8, NewFacts, ZenonT(60)
  <1>10. Position(d) /\ Listed(d) /\ Underway(d)
    BY <1>6, <1>9, SMTT(30) DEF Position, Listed, Underway, Active
  <1>11. Observed(d)
    BY <1>4, <1>6, <1>8, SMTT(30) DEF Observed
  <1>12. Recorded(d, FALSE)
    BY <1>2, <1>3, <1>4, <1>6, <1>8, SMTT(30) DEF Recorded, Active
  <1>13. RecordStep(c.record, d.record) /\ NoRetry(c, d)
    BY <1>3, <1>6, <1>8, <1>9, NewFacts, SMTT(30) DEF RecordStep, NoRetry, Unpublished, outcome
  <1>14. Safe(c, d)
    BY <1>6, <1>10, <1>11, <1>12, <1>13 DEF Safe, CInv, Changes
  <1> QED
    BY <1>1, <1>14

WithAdmitted(c, stream, routes, head, backend, rest, n) ==
  [c EXCEPT !.pc = "route", !.stream = stream, !.candidates = routes, !.route = head,
            !.labels_backend = backend, !.fallback_routes = rest,
            !.attempt = 1, !.max_attempts = n]

AdmitFields == {"pc", "stream", "candidates", "route", "labels_backend",
                "fallback_routes", "attempt", "max_attempts"}

\* proxy_v1 fills in the fields of an admitted request.
LEMMA SetAdmitted ==
  ASSUME NEW c \in Context, NEW stream \in BOOLEAN, NEW routes \in Seq(SelectedRoute),
         NEW head \in SelectedRoute, NEW backend \in Backends,
         NEW rest \in Seq(SelectedRoute), NEW n \in Nat
  PROVE  LET d == WithAdmitted(c, stream, routes, head, backend, rest, n)
         IN /\ Changes(c, d, AdmitFields)
            /\ d.pc = "route" /\ d.candidates = routes /\ d.route = head
            /\ d.labels_backend = backend /\ d.fallback_routes = rest
            /\ d.attempt = 1 /\ d.max_attempts = n
  <1>1. 1 \in Nat
    OBVIOUS
  <1>2. WithAdmitted(c, stream, routes, head, backend, rest, n) \in Context
    BY <1>1, ZenonT(60) DEF WithAdmitted, Context
  <1> QED
    BY <1>2 DEF Changes, Keeps, Fields, AdmitFields, WithAdmitted, Context

\* The fallbacks kept are the candidates from the second to the n-th.
LEMMA Fallbacks ==
  ASSUME NEW routes \in Seq(SelectedRoute), NEW n \in 1..Len(routes)
  PROVE  /\ SubSeq(routes, 2, n) \in Seq(SelectedRoute)
         /\ Len(SubSeq(routes, 2, n)) = n - 1
         /\ \A i \in 1..(n - 1) : SubSeq(routes, 2, n)[i] = routes[1 + i]
  BY SMTT(30)

\* proxy_v1: an admitted request is at its first candidate.
LEMMA AdmitStep ==
  ASSUME NEW c, CInv(c, FALSE), c.pc = "new", NEW routes \in Candidates,
         NEW stream \in BOOLEAN, NEW n,
         n = IF Len(routes) - 1 < c.cfg.fallback_attempts
             THEN Len(routes) ELSE 1 + c.cfg.fallback_attempts
  PROVE  Safe(c, live_upsert(
           [c EXCEPT !.pc = "route", !.stream = stream,
                     !.candidates = routes, !.route = Head(routes),
                     !.labels_backend = Head(routes).backend_id,
                     !.fallback_routes = SubSeq(routes, 2, n),
                     !.attempt = 1, !.max_attempts = n]))
  <1> DEFINE head == Head(routes)
             backend == head.backend_id
             rest == SubSeq(routes, 2, n)
             e == WithAdmitted(c, stream, routes, head, backend, rest, n)
             d == live_upsert(e)
  <1>1. /\ routes \in Seq(SelectedRoute) /\ Len(routes) \in Nat \ {0}
        /\ head \in SelectedRoute /\ head = routes[1]
    BY CandidatesAssumption, SMTT(30)
  <1>2. backend \in Backends
    BY <1>1 DEF SelectedRoute
  <1>3. c \in Context /\ c.cfg.fallback_attempts \in Nat
    <2>1. c \in Context
      BY NewFacts
    <2> QED
      BY <2>1, BoundsAssumption, SMTT(60) DEF Context, Config
  <1>4. n \in 1..Len(routes) /\ n <= 1 + c.cfg.fallback_attempts /\ n \in Nat
    BY <1>1, <1>3, SMTT(30)
  <1>5. /\ rest \in Seq(SelectedRoute) /\ Len(rest) = n - 1
        /\ \A i \in 1..(n - 1) : rest[i] = routes[1 + i]
    BY <1>1, <1>4, Fallbacks
  <1> HIDE DEF rest, head, backend
  <1>6. /\ Changes(c, e, AdmitFields)
        /\ e.pc = "route" /\ e.candidates = routes /\ e.route = head
        /\ e.labels_backend = backend /\ e.fallback_routes = rest
        /\ e.attempt = 1 /\ e.max_attempts = n
    BY <1>1, <1>2, <1>3, <1>4, <1>5, SetAdmitted, SMTT(60)
  <1>7. live_upsert([c EXCEPT !.pc = "route", !.stream = stream,
                              !.candidates = routes, !.route = Head(routes),
                              !.labels_backend = Head(routes).backend_id,
                              !.fallback_routes = SubSeq(routes, 2, n),
                              !.attempt = 1, !.max_attempts = n]) = d
    BY DEF WithAdmitted, rest, head, backend
  <1> HIDE DEF e
  <1>8. /\ e \in Context /\ e.cfg = c.cfg /\ e.record = c.record
        /\ e.backend_attempts = c.backend_attempts
        /\ e.backend_attempts_total = c.backend_attempts_total
        /\ e.current_attempt = c.current_attempt
        /\ e.requests_total = c.requests_total /\ e.response = c.response
    BY <1>6 DEF Changes, Keeps, Fields, AdmitFields
  <1>9. /\ e.backend_attempts = <<>> /\ e.backend_attempts_total = <<>>
        /\ e.current_attempt = NoAttempt /\ e.record = Unpublished
        /\ e.requests_total = <<>> /\ e.response.kind = "none"
    BY <1>8, NewFacts
  <1>10. /\ Changes(e, d, {"record"})
         /\ ~c.cfg.inspector => d.record = Unpublished
         /\ c.cfg.inspector => d.record.outcome = "in_flight" /\ Len(d.record.attempts) = 0
    BY <1>8, <1>9, LiveUpsert
  <1> HIDE DEF d
  <1>11. /\ d.backend_attempts = <<>> /\ d.backend_attempts_total = <<>>
         /\ d.current_attempt = NoAttempt /\ d.requests_total = <<>>
         /\ d.response.kind = "none" /\ d.pc = "route" /\ d.cfg = c.cfg
         /\ d.candidates = routes /\ d.route = head
         /\ d.labels_backend = backend /\ d.fallback_routes = rest
         /\ d.attempt = 1 /\ d.max_attempts = n
    BY <1>6, <1>8, <1>9, <1>10 DEF Changes, Keeps, Fields
  <1>12. Position(d)
    BY <1>1, <1>4, <1>5, <1>11, SMTT(30) DEF Position, backend
  <1>13. Listed(d) /\ Underway(d) /\ Observed(d)
    BY <1>11, SMTT(60) DEF Listed, Underway, Observed, Active
  <1>14. Recorded(d, FALSE)
    BY <1>10, <1>11, SMTT(60) DEF Recorded, Active
  <1>15. RecordStep(c.record, d.record)
    BY <1>8, <1>9, <1>10, SMTT(30) DEF RecordStep, Unpublished
  <1>16. NoRetry(c, d)
    BY NewFacts DEF NoRetry
  <1>17. Safe(c, d)
    BY <1>10, <1>12, <1>13, <1>14, <1>15, <1>16 DEF Safe, CInv, Changes
  <1> QED
    BY <1>7, <1>17

\* What a request that is being prepared or sent holds.
LEMMA SendingFacts ==
  ASSUME NEW c, CInv(c, FALSE), c.pc \in {"route", "send"}
  PROVE  /\ Active(c) /\ c.current_attempt = NoAttempt
         /\ c.requests_total = <<>> /\ c.response.kind = "none"
         /\ Len(c.backend_attempts) = c.attempt - 1
         /\ c.cfg.inspector => Len(c.record.attempts) = c.attempt - 1
         /\ c.cfg.inspector => c.record.outcome = "in_flight"
         /\ ~c.cfg.inspector => c.record = Unpublished
  <1>1. Active(c)
    BY SMTT(60) DEF Active
  <1> QED
    BY <1>1 DEF CInv, Underway, Observed, Recorded

\* The attempt counted next is the one for the candidate at hand.
LEMMA CountedNext ==
  ASSUME NEW c, NEW d, CInv(c, FALSE), c.pc = "route",
         d.backend_attempts_total = Append(c.backend_attempts_total, c.labels_backend),
         d.backend_attempts = c.backend_attempts, d.candidates = c.candidates
  PROVE  Listed(d) /\ Len(d.backend_attempts_total) = c.attempt
  <1>1. Active(c)
    BY SMTT(60) DEF Active
  <1>2. /\ c.attempt \in Nat /\ c.attempt > 0 /\ c.backend_attempts_total \in Seq(Backends)
        /\ Len(c.backend_attempts_total) = c.attempt - 1
        /\ c.labels_backend = c.candidates[c.attempt].backend_id
        /\ c.labels_backend \in Backends
    BY <1>1, ActiveFacts DEF CInv, Underway
  <1>3. /\ Len(d.backend_attempts_total) = c.attempt
        /\ DOMAIN d.backend_attempts_total = 1..c.attempt
        /\ DOMAIN c.backend_attempts_total = 1..(c.attempt - 1)
        /\ d.backend_attempts_total[c.attempt] = c.labels_backend
        /\ \A i \in 1..(c.attempt - 1) :
             d.backend_attempts_total[i] = c.backend_attempts_total[i]
    BY <1>2, SMTT(30)
  <1>4. \A i \in 1..c.attempt : i = c.attempt \/ i \in 1..(c.attempt - 1)
    BY <1>2, SMTT(30)
  <1>5. \A i \in DOMAIN d.backend_attempts_total :
          d.backend_attempts_total[i] = d.candidates[i].backend_id
    BY <1>2, <1>3, <1>4 DEF CInv, Listed
  <1> QED
    BY <1>3, <1>5, SMTT(60) DEF CInv, Listed

WithSent(c) == [c EXCEPT !.pc = "send", !.sent = @ + 1]

\* Handing the request to reqwest.
LEMMA SetSent ==
  ASSUME NEW c \in Context
  PROVE  Changes(c, WithSent(c), {"pc", "sent"}) /\ WithSent(c).pc = "send"
  <1>1. c.sent + 1 \in Nat
    BY SMTT(60) DEF Context
  <1>2. \A n \in Nat : [c EXCEPT !.pc = "send", !.sent = n] \in Context
    <2> SUFFICES ASSUME NEW n \in Nat
                 PROVE  [c EXCEPT !.pc = "send", !.sent = n] \in Context
      BY ZenonT(60)
    <2> QED
      BY ZenonT(60) DEF Context
  <1>3. WithSent(c) \in Context
    BY <1>1, <1>2 DEF WithSent
  <1> QED
    BY <1>3 DEF Changes, Keeps, Fields, WithSent, Context

\* What prepare_outbound does to a request that is about to be sent.
LEMMA Prepared ==
  ASSUME NEW c, CInv(c, FALSE), c.pc = "route", NEW written \in BOOLEAN
  PROVE  LET d == prepare_outbound(c, written)
         IN /\ Changes(c, d, CaptureFields \cup {"backend_attempts_total", "record"})
            /\ Listed(d) /\ Len(d.backend_attempts_total) = c.attempt
            /\ d.current_attempt = NoAttempt
            /\ IsCurrent(c, d.attempt_record)
            /\ ~c.cfg.inspector => d.record = Unpublished
            /\ c.cfg.inspector => /\ d.record.outcome = "in_flight"
                                  /\ Len(d.record.attempts) = c.attempt - 1
  <1> DEFINE d == prepare_outbound(c, written)
  <1>1. /\ c \in Context /\ c.labels_backend \in Backends /\ c.attempt \in AttemptNumbers
    BY ActiveFacts, SendingFacts
  <1>2. /\ c.current_attempt = NoAttempt /\ Len(c.backend_attempts) = c.attempt - 1
        /\ ~c.cfg.inspector => c.record = Unpublished
    BY SendingFacts
  <1>3. /\ Changes(c, d, CaptureFields \cup {"backend_attempts_total", "record"})
        /\ d.backend_attempts_total = Append(c.backend_attempts_total, c.labels_backend)
        /\ d.current_attempt = NoAttempt
        /\ IsCurrent(c, d.attempt_record)
        /\ ~c.cfg.inspector => d.record = c.record
        /\ c.cfg.inspector => /\ d.record.outcome = "in_flight"
                              /\ Len(d.record.attempts) = Len(c.backend_attempts)
    BY <1>1, <1>2, PrepareOutboundEffect DEF IsCurrent
  <1> HIDE DEF d
  <1>4. d.backend_attempts = c.backend_attempts /\ d.candidates = c.candidates
    BY <1>3 DEF Changes, Keeps, Fields, CaptureFields
  <1>5. Listed(d) /\ Len(d.backend_attempts_total) = c.attempt
    BY <1>3, <1>4, CountedNext
  <1> QED
    BY <1>2, <1>3, <1>5, SMTT(60) DEF d

\* prepare_outbound followed by the send.
LEMMA PrepareOutboundStep ==
  ASSUME NEW c, CInv(c, FALSE), c.pc = "route", NEW written \in BOOLEAN
  PROVE  Safe(c, [prepare_outbound(c, written) EXCEPT !.pc = "send", !.sent = @ + 1])
  <1> DEFINE e == prepare_outbound(c, written)
             d == WithSent(e)
  <1>1. /\ Changes(c, e, CaptureFields \cup {"backend_attempts_total", "record"})
        /\ Listed(e) /\ Len(e.backend_attempts_total) = c.attempt
        /\ e.current_attempt = NoAttempt
        /\ IsCurrent(c, e.attempt_record)
        /\ ~c.cfg.inspector => e.record = Unpublished
        /\ c.cfg.inspector => /\ e.record.outcome = "in_flight"
                              /\ Len(e.record.attempts) = c.attempt - 1
    BY Prepared
  <1> HIDE DEF e
  <1>2. Changes(e, d, {"pc", "sent"}) /\ d.pc = "send"
    BY <1>1, SetSent DEF Changes
  <1>3. [e EXCEPT !.pc = "send", !.sent = @ + 1] = d
    BY DEF WithSent
  <1> HIDE DEF d
  <1> DEFINE F == CaptureFields \cup {"backend_attempts_total", "record", "pc", "sent"}
  <1>4. Keeps(c, d, F) /\ d \in Context
    BY <1>1, <1>2 DEF Changes, Keeps
  <1>5. /\ Position(d) /\ d.cfg = c.cfg /\ d.candidates = c.candidates
        /\ d.attempt = c.attempt /\ d.labels_backend = c.labels_backend
    <2>1. F \cap PositionFields = {}
      BY DEF CaptureFields, PositionFields
    <2> QED
      BY <1>4, <2>1, SamePosition, SMTT(30) DEF CInv
  <1>6. /\ d.backend_attempts = c.backend_attempts /\ d.requests_total = c.requests_total
        /\ d.response = c.response
    BY <1>4 DEF Keeps, Fields, CaptureFields
  <1>7. /\ d.backend_attempts_total = e.backend_attempts_total /\ d.record = e.record
        /\ d.current_attempt = e.current_attempt /\ d.attempt_record = e.attempt_record
        /\ d.backend_attempts = e.backend_attempts /\ d.candidates = e.candidates
    BY <1>2, SMTT(60) DEF Changes, Keeps, Fields
  <1>8. Listed(d)
    BY <1>1, <1>7, SMTT(60) DEF Listed
  <1>9. Underway(d)
    <2>1. IsCurrent(d, d.attempt_record)
      BY <1>1, <1>5, <1>7, SMTT(60) DEF IsCurrent
    <2>2. c.attempt > 0 /\ Len(c.backend_attempts) = c.attempt - 1
      BY SMTT(60) DEF CInv, Underway, Active
    <2> QED
      BY <1>1, <1>2, <1>5, <1>6, <1>7, <2>1, <2>2, SMTT(60) DEF Underway
  <1>10. Observed(d)
    BY <1>2, <1>6, SendingFacts DEF Observed
  <1>11. Recorded(d, FALSE)
    BY <1>1, <1>2, <1>5, <1>7 DEF Recorded
  <1>12. RecordStep(c.record, d.record)
    BY <1>1, <1>7, SendingFacts DEF RecordStep
  <1>13. NoRetry(c, d)
    BY SendingFacts DEF NoRetry
  <1>14. Safe(c, d)
    BY <1>4, <1>5, <1>8, <1>9, <1>10, <1>11, <1>12, <1>13 DEF Safe, CInv
  <1> QED
    BY <1>3, <1>14 DEF e

\* The errors a handler returns without having observed the request.
LEMMA UnobservedAnswer ==
  ASSUME NEW c \in Context, NEW status \in {400, 404, 500}
  PROVE  LET d == respond(c, "error", status)
         IN Changes(c, d, {"pc", "response"}) /\ d.pc = "done" /\ Unobserved(d)
  <1> DEFINE kind == "error"
             d == respond(c, kind, status)
  <1>1. kind \in {"error", "forwarded", "buffered"} /\ status \in Nat
    BY SMTT(30)
  <1> HIDE DEF kind
  <1>2. /\ Changes(c, d, {"pc", "response"}) /\ d.pc = "done"
        /\ d.response = [kind |-> kind, status |-> status]
    BY <1>1, Respond, SMTT(30)
  <1> HIDE DEF d
  <1>3. Unobserved(d)
    BY <1>2, SMTT(30) DEF Unobserved, kind
  <1> QED
    BY <1>2, <1>3 DEF d, kind

\* A shutdown found before the send.
LEMMA PrepareShutdownStep ==
  ASSUME NEW c, CInv(c, FALSE), c.pc = "route", NEW written \in BOOLEAN
  PROVE  Safe(c, respond(prepare_outbound(c, written), "error", 500))
  <1> DEFINE e == prepare_outbound(c, written)
             status == 500
             d == respond(e, "error", status)
  <1>1. /\ Changes(c, e, CaptureFields \cup {"backend_attempts_total", "record"})
        /\ Listed(e)
        /\ ~c.cfg.inspector => e.record = Unpublished
        /\ c.cfg.inspector => /\ e.record.outcome = "in_flight"
                              /\ Len(e.record.attempts) = c.attempt - 1
    BY Prepared
  <1>2. status \in {400, 404, 500}
    OBVIOUS
  <1> HIDE DEF e, status
  <1>3. Changes(e, d, {"pc", "response"}) /\ d.pc = "done" /\ Unobserved(d)
    BY <1>1, <1>2, UnobservedAnswer, SMTT(30) DEF Changes
  <1> HIDE DEF d
  <1>4. Changes(c, d, CaptureFields \cup {"pc", "response", "record", "backend_attempts_total"})
    BY <1>1, <1>3 DEF Changes, Keeps
  <1>5. /\ d.record = e.record /\ d.backend_attempts = e.backend_attempts
        /\ d.backend_attempts_total = e.backend_attempts_total
        /\ d.candidates = e.candidates
    BY <1>3 DEF Changes, Keeps, Fields
  <1>6. Listed(d)
    BY <1>1, <1>5 DEF Listed
  <1>7. /\ Active(c) /\ NoRetry(c, d)
        /\ c.cfg.inspector => Len(c.record.attempts) = c.attempt - 1
        /\ ~c.cfg.inspector => c.record = Unpublished
    BY SendingFacts DEF NoRetry
  <1>8. Safe(c, d)
    BY <1>1, <1>3, <1>4, <1>5, <1>6, <1>7, QuietEnd
  <1> QED
    BY <1>8 DEF d, e, status

\* A body that cannot be rewritten.
LEMMA RewriteFailedStep ==
  ASSUME NEW c, CInv(c, FALSE), c.pc = "route"
  PROVE  Safe(c, respond(record_backend_attempt(c), "error", 400))
  <1> DEFINE e == record_backend_attempt(c)
             status == 400
             d == respond(e, "error", status)
  <1>1. c \in Context /\ c.labels_backend \in Backends
    BY ActiveFacts, SendingFacts
  <1>2. /\ Changes(c, e, {"backend_attempts_total"})
        /\ e.backend_attempts_total = Append(c.backend_attempts_total, c.labels_backend)
    BY <1>1, RecordBackendAttempt
  <1>3. status \in {400, 404, 500}
    OBVIOUS
  <1> HIDE DEF e, status
  <1>4. Changes(e, d, {"pc", "response"}) /\ d.pc = "done" /\ Unobserved(d)
    BY <1>2, <1>3, UnobservedAnswer, SMTT(30) DEF Changes
  <1> HIDE DEF d
  <1>5. Changes(c, d, CaptureFields \cup {"pc", "response", "record", "backend_attempts_total"})
    BY <1>2, <1>4 DEF Changes, Keeps
  <1>6. /\ d.record = c.record /\ d.backend_attempts = c.backend_attempts
        /\ d.backend_attempts_total = e.backend_attempts_total
        /\ d.candidates = c.candidates
    BY <1>2, <1>4 DEF Changes, Keeps, Fields
  <1>7. Listed(d)
    BY <1>2, <1>6, CountedNext
  <1>8. /\ Active(c) /\ NoRetry(c, d)
        /\ c.cfg.inspector => c.record.outcome = "in_flight"
    BY SendingFacts DEF NoRetry
  <1>9. Safe(c, d)
    BY <1>4, <1>5, <1>6, <1>7, <1>8, QuietEnd
  <1> QED
    BY <1>9 DEF d, e, status

\* A shutdown seen while waiting for headers or for a buffered body.
LEMMA ShutdownStep ==
  ASSUME NEW c, CInv(c, FALSE), c.pc \in {"send", "buffer"}
  PROVE  Safe(c, respond(c, "error", 500))
  <1> DEFINE status == 500
             d == respond(c, "error", status)
  <1>1. c \in Context /\ Active(c) /\ c.pc # "stream"
    BY DEF CInv, Active
  <1>2. status \in {400, 404, 500}
    OBVIOUS
  <1> HIDE DEF status
  <1>3. Changes(c, d, {"pc", "response"}) /\ d.pc = "done" /\ Unobserved(d)
    BY <1>1, <1>2, UnobservedAnswer, SMTT(30)
  <1> HIDE DEF d
  <1>4. Safe(c, d)
    BY <1>1, <1>3, QuietRespond
  <1> QED
    BY <1>4 DEF d, status

WithPc(c, pc) == [c EXCEPT !.pc = pc]

\* Moving to another stage.
LEMMA SetPc ==
  ASSUME NEW c \in Context, NEW pc \in {"error_body", "buffer", "done"}
  PROVE  Changes(c, WithPc(c, pc), {"pc"}) /\ WithPc(c, pc).pc = pc
  <1>1. pc \in {"new", "route", "send", "error_body", "buffer", "stream", "done"}
    OBVIOUS
  <1>2. WithPc(c, pc) \in Context
    BY <1>1, ZenonT(60) DEF WithPc, Context
  <1> QED
    BY <1>2 DEF Changes, Keeps, Fields, WithPc, Context

\* A handler that is dropped while it waits.
LEMMA HandlerDroppedStep ==
  ASSUME NEW c, CInv(c, FALSE), c.pc \in {"send", "error_body", "buffer"}
  PROVE  Safe(c, [c EXCEPT !.pc = "done"])
  <1> DEFINE d == WithPc(c, "done")
  <1>1. c \in Context /\ Active(c) /\ c.response.kind = "none"
    BY DEF CInv, Active, Observed
  <1>2. Changes(c, d, {"pc"}) /\ d.pc = "done"
    BY <1>1, SetPc
  <1>3. [c EXCEPT !.pc = "done"] = d
    BY DEF WithPc
  <1> HIDE DEF d
  <1>4. d.response = c.response
    BY <1>2 DEF Changes, Keeps, Fields
  <1>5. Unobserved(d) /\ Changes(c, d, {"pc", "response"})
    BY <1>1, <1>2, <1>4, SMTT(60) DEF Unobserved, Changes, Keeps
  <1> QED
    BY <1>1, <1>2, <1>3, <1>5, QuietRespond

\* ensure_failure_debug_capture on a request whose failure is being handled.
LEMMA CapturedFacts ==
  ASSUME NEW c, CInv(c, FALSE), c.pc = "send", NEW written \in BOOLEAN
  PROVE  LET e == ensure_failure_debug_capture(c, written)
         IN /\ Changes(c, e, CaptureFields)
            /\ IsCurrent(c, e.attempt_record) /\ e.current_attempt = NoAttempt
            /\ e.requests_total = <<>> /\ e.labels_backend \in Backends
            /\ e.backend_attempts = c.backend_attempts /\ e.record = c.record
            /\ e.cfg = c.cfg /\ e.fallback_routes = c.fallback_routes
  <1> DEFINE e == ensure_failure_debug_capture(c, written)
  <1>1. /\ c \in Context /\ IsCurrent(c, c.attempt_record) /\ c.current_attempt = NoAttempt
        /\ c.requests_total = <<>>
    BY SendingFacts DEF CInv, Underway
  <1>2. c.labels_backend \in Backends
    BY SendingFacts, ActiveFacts
  <1>3. /\ Changes(c, e, CaptureFields)
        /\ SameAttempt(c.attempt_record, e.attempt_record)
        /\ SameAttempt(c.current_attempt, e.current_attempt)
    BY <1>1, EnsureFailureDebugCapture
  <1> HIDE DEF e
  <1>4. IsCurrent(c, e.attempt_record) /\ e.current_attempt = NoAttempt
    BY <1>1, <1>3, NoAttemptIsNone, SMTT(60) DEF SameAttempt, IsCurrent
  <1>5. /\ e.requests_total = c.requests_total /\ e.labels_backend = c.labels_backend
        /\ e.backend_attempts = c.backend_attempts /\ e.record = c.record
        /\ e.cfg = c.cfg /\ e.fallback_routes = c.fallback_routes
    BY <1>3 DEF Changes, Keeps, Fields, CaptureFields
  <1> QED
    BY <1>1, <1>2, <1>3, <1>4, <1>5, SMTT(60) DEF e

\* The last failure to get a response.
LEMMA SendFailedStep ==
  ASSUME NEW c, CInv(c, FALSE), c.pc = "send", NEW written \in BOOLEAN, NEW kind
  PROVE  Safe(c, record_final_failure(ensure_failure_debug_capture(c, written), kind))
  <1> DEFINE e == ensure_failure_debug_capture(c, written)
             d == record_final_failure(e, kind)
  <1>1. /\ Changes(c, e, CaptureFields)
        /\ IsCurrent(c, e.attempt_record)
        /\ e.requests_total = <<>> /\ e.labels_backend \in Backends
        /\ e.backend_attempts = c.backend_attempts /\ e.record = c.record
    BY CapturedFacts, ZenonT(60)
  <1> HIDE DEF e
  <1>2. e \in Context /\ e.attempt_record \in AttemptRecord
    BY <1>1 DEF Changes, IsCurrent
  <1>3. Ended(e, d, e.attempt_record)
    BY <1>1, <1>2, FinalFailureEnds
  <1> HIDE DEF d
  <1>4. Changes(c, e, EndFields)
    BY <1>1 DEF Changes, Keeps, EndFields
  <1>5. c \in Context /\ Active(c) /\ c.pc # "route"
    BY DEF CInv, Active
  <1>6. Ended(c, d, e.attempt_record)
    BY <1>1, <1>3, <1>4, <1>5, EndedAfter
  <1>7. Safe(c, d)
    BY <1>1, <1>5, <1>6, EndedStep
  <1> QED
    BY <1>7, SMTT(60) DEF d, e

\* The routes that are left after the first of them is taken.
LEMMA RoutesLeft ==
  ASSUME NEW s \in Seq(SelectedRoute), s # <<>>
  PROVE  /\ Len(s) >= 1 /\ Head(s) = s[1]
         /\ Len(Tail(s)) = Len(s) - 1
         /\ \A i \in 1..Len(Tail(s)) : Tail(s)[i] = s[i + 1]
  BY SMTT(30)

\* A retryable failure: the request moves to the next candidate.
LEMMA SendRetryStep ==
  ASSUME NEW c, CInv(c, FALSE), c.pc = "send", c.fallback_routes # <<>>,
         NEW written \in BOOLEAN, NEW kind
  PROVE  Safe(c, record_retry(ensure_failure_debug_capture(c, written), kind))
  <1> DEFINE e == ensure_failure_debug_capture(c, written)
             b == finish(e.attempt_record, client_status(kind), failure_outcome(kind))
             d == record_retry(e, kind)
  <1>1. /\ Changes(c, e, CaptureFields)
        /\ IsCurrent(c, e.attempt_record) /\ e.current_attempt = NoAttempt
        /\ e.labels_backend \in Backends
        /\ e.backend_attempts = c.backend_attempts /\ e.record = c.record
        /\ e.cfg = c.cfg /\ e.fallback_routes = c.fallback_routes
    BY CapturedFacts
  <1> HIDE DEF e
  <1>2. e \in Context /\ e.attempt_record \in AttemptRecord /\ e.attempt = c.attempt
    BY <1>1 DEF Changes, Keeps, Fields, CaptureFields, IsCurrent
  <1>3. /\ Changes(e, d, RetryFields)
        /\ d.pc = "route" /\ d.attempt = c.attempt + 1
        /\ d.fallback_routes = Tail(c.fallback_routes)
        /\ d.route = Head(c.fallback_routes)
        /\ d.labels_backend = d.route.backend_id
        /\ d.current_attempt = NoAttempt
        /\ d.backend_attempts = Append(c.backend_attempts, b)
        /\ ~c.cfg.inspector => d.record = c.record
        /\ c.cfg.inspector => /\ d.record.outcome = "in_flight"
                              /\ Len(d.record.attempts) = Len(c.backend_attempts) + 1
    BY <1>1, <1>2, RecordRetryEffect, SMTT(60)
  <1>4. /\ b \in AttemptRecord
        /\ b.attempt = c.attempt /\ b.backend = c.labels_backend
    <2>1. /\ b \in AttemptRecord
          /\ b.attempt = e.attempt_record.attempt /\ b.backend = e.attempt_record.backend
      BY <1>2, FailureKinds, Finish, SMTT(60)
    <2> QED
      BY <1>1, <2>1, SMTT(60) DEF IsCurrent
  <1> HIDE DEF d, b
  <1>5. Changes(c, d, RetryFields)
    BY <1>1, <1>3, SMTT(60) DEF Changes, Keeps, RetryFields
  <1>6. /\ d.candidates = c.candidates /\ d.max_attempts = c.max_attempts /\ d.cfg = c.cfg
        /\ d.backend_attempts_total = c.backend_attempts_total
        /\ d.requests_total = c.requests_total /\ d.response = c.response
    BY <1>5, SMTT(60) DEF Changes, Keeps, Fields, RetryFields, CaptureFields
  <1>7. /\ c \in Context /\ Active(c) /\ c.attempt \in Nat /\ c.attempt > 0
        /\ Len(c.backend_attempts) = c.attempt - 1
        /\ Len(c.backend_attempts_total) = c.attempt
        /\ c.backend_attempts \in Seq(AttemptRecord)
        /\ c.labels_backend = c.candidates[c.attempt].backend_id
        /\ Position(c)
    BY SendingFacts, ActiveFacts DEF CInv, Underway
  <1>8. Position(d)
    <2>1. /\ c.fallback_routes \in Seq(SelectedRoute) /\ c.max_attempts \in Nat
          /\ c.candidates \in Seq(SelectedRoute)
      BY <1>7 DEF Context
    <2>2. /\ Len(c.fallback_routes) = c.max_attempts - c.attempt
          /\ \A i \in 1..Len(c.fallback_routes) :
               c.fallback_routes[i] = c.candidates[c.attempt + i]
          /\ c.max_attempts <= Len(c.candidates)
          /\ c.max_attempts <= 1 + c.cfg.fallback_attempts
      BY <1>7, SMTT(60) DEF Position
    <2>3. /\ Len(d.fallback_routes) = c.max_attempts - (c.attempt + 1)
          /\ Len(c.fallback_routes) >= 1
          /\ \A i \in 1..Len(d.fallback_routes) :
               d.fallback_routes[i] = c.fallback_routes[i + 1]
          /\ d.route = c.fallback_routes[1]
      <3>1. Len(d.fallback_routes) = Len(c.fallback_routes) - 1
        BY <1>3, <2>1, RoutesLeft, SMTT(60)
      <3>2. Len(d.fallback_routes) = c.max_attempts - (c.attempt + 1)
        BY <1>7, <2>1, <2>2, <3>1, SMTT(60)
      <3> QED
        BY <1>3, <2>1, <3>2, RoutesLeft, SMTT(60)
    <2>4. d.route = c.candidates[c.attempt + 1]
      BY <1>7, <2>1, <2>2, <2>3, SMTT(60)
    <2>5. \A i \in 1..Len(d.fallback_routes) :
            d.fallback_routes[i] = d.candidates[d.attempt + i]
      <3> SUFFICES ASSUME NEW i \in 1..Len(d.fallback_routes)
                   PROVE  d.fallback_routes[i] = c.candidates[(c.attempt + 1) + i]
        BY <1>3, <1>6, SMTT(60)
      <3>1. i + 1 \in 1..Len(c.fallback_routes)
        BY <1>7, <2>1, <2>2, <2>3, SMTT(60)
      <3>2. c.attempt + (i + 1) = (c.attempt + 1) + i
        BY <1>7, SMTT(30)
      <3> QED
        BY <2>2, <2>3, <3>1, <3>2, SMTT(60)
    <2>6. c.attempt + 1 <= c.max_attempts /\ c.attempt + 1 # 0
      BY <1>7, <2>1, <2>2, <2>3, SMTT(60)
    <2> QED
      BY <1>3, <1>6, <2>2, <2>3, <2>4, <2>5, <2>6 DEF Position
  <1>9. Listed(d)
    <2>1. /\ DOMAIN d.backend_attempts = 1..c.attempt
          /\ DOMAIN c.backend_attempts = 1..(c.attempt - 1)
          /\ d.backend_attempts[c.attempt] = b
          /\ \A i \in 1..(c.attempt - 1) : d.backend_attempts[i] = c.backend_attempts[i]
      BY <1>3, <1>4, <1>7, SMTT(60)
    <2>2. \A i \in 1..c.attempt : i = c.attempt \/ i \in 1..(c.attempt - 1)
      BY <1>7, SMTT(60)
    <2>3. \A i \in DOMAIN d.backend_attempts :
            /\ d.backend_attempts[i].attempt = i
            /\ d.backend_attempts[i].backend = d.candidates[i].backend_id
      BY <1>4, <1>6, <1>7, <2>1, <2>2, SMTT(60) DEF CInv, Listed
    <2> QED
      BY <1>6, <2>3 DEF CInv, Listed
  <1>10. Underway(d) /\ Observed(d)
    <2>1. /\ Len(d.backend_attempts) = (c.attempt + 1) - 1 /\ c.attempt + 1 > 0
          /\ c.attempt = (c.attempt + 1) - 1
      BY <1>3, <1>4, <1>7, SMTT(60)
    <2>2. c.requests_total = <<>> /\ c.response.kind = "none"
      BY SendingFacts
    <2> QED
      BY <1>3, <1>6, <1>7, <2>1, <2>2, SMTT(60) DEF Underway, Observed, Active
  <1>11. Recorded(d, FALSE)
    <2>1. Len(c.backend_attempts) + 1 = d.attempt - 1
      BY <1>3, <1>7, SMTT(30)
    <2> QED
      BY <1>3, <1>6, <2>1, SendingFacts DEF Recorded, Active
  <1>12. RecordStep(c.record, d.record)
    BY <1>3, SendingFacts DEF RecordStep
  <1>13. NoRetry(c, d)
    BY SendingFacts DEF NoRetry
  <1>14. Safe(c, d)
    BY <1>5, <1>8, <1>9, <1>10, <1>11, <1>12, <1>13 DEF Safe, CInv, Changes
  <1> QED
    BY <1>14 DEF d, e

\* Response headers, from the point of view of the invariant.
LEMMA HeadersFacts ==
  ASSUME NEW c, CInv(c, FALSE), c.pc = "send", NEW status \in Nat
  PROVE  LET e == headers_received(c, status)
         IN /\ Changes(c, e, {"upstream_status", "current_attempt", "attempt_record", "record"})
            /\ IsCurrent(c, e.current_attempt)
            /\ ~c.cfg.inspector => e.record = Unpublished
            /\ c.cfg.inspector => /\ e.record.outcome = "in_flight"
                                  /\ Len(e.record.attempts) = c.attempt
  <1> DEFINE e == headers_received(c, status)
  <1>1. c \in Context /\ IsCurrent(c, c.attempt_record) /\ c.attempt_record \in AttemptRecord
    BY DEF CInv, Underway, IsCurrent
  <1>2. /\ Changes(c, e, {"upstream_status", "current_attempt", "attempt_record", "record"})
        /\ e.current_attempt = c.attempt_record
        /\ ~c.cfg.inspector => e.record = c.record
        /\ c.cfg.inspector => /\ e.record.outcome = "in_flight"
                              /\ Len(e.record.attempts) = Len(c.backend_attempts) + 1
    BY <1>1, HeadersReceived, SMTT(60)
  <1> HIDE DEF e
  <1>3. /\ ~c.cfg.inspector => c.record = Unpublished
        /\ Len(c.backend_attempts) = c.attempt - 1 /\ Active(c)
    BY SendingFacts
  <1>4. Len(c.backend_attempts) + 1 = c.attempt
    <2>1. c.attempt \in Nat
      BY <1>3, ActiveFacts
    <2> QED
      BY <1>3, <2>1, SMTT(30)
  <1> QED
    BY <1>1, <1>2, <1>3, <1>4 DEF e

StageFields == CaptureFields \cup {"upstream_status", "record", "pc", "response",
                                   "requests_total", "stream_capture"}

\* A request that has its headers goes on to read the body.
LEMMA StageStep ==
  ASSUME NEW c, NEW d, CInv(c, FALSE), c.pc = "send", Changes(c, d, StageFields),
         d.pc \in {"error_body", "buffer", "stream"}, IsCurrent(c, d.current_attempt),
         Observed(d),
         ~c.cfg.inspector => d.record = Unpublished,
         c.cfg.inspector => /\ d.record.outcome = "in_flight"
                            /\ Len(d.record.attempts) = c.attempt
  PROVE  Safe(c, d)
  <1>1. Keeps(c, d, StageFields) /\ d \in Context
    BY DEF Changes
  <1>2. /\ Position(d) /\ d.cfg = c.cfg /\ d.candidates = c.candidates
        /\ d.attempt = c.attempt /\ d.labels_backend = c.labels_backend
    <2>1. StageFields \cap PositionFields = {}
      BY SMTT(60) DEF StageFields, CaptureFields, PositionFields
    <2> QED
      BY <1>1, <2>1, SamePosition DEF CInv
  <1>3. /\ d.backend_attempts = c.backend_attempts
        /\ d.backend_attempts_total = c.backend_attempts_total
    BY <1>1, SMTT(60) DEF Keeps, Fields, StageFields, CaptureFields
  <1>4. Listed(d)
    BY <1>2, <1>3, SMTT(60) DEF CInv, Listed
  <1>5. /\ c.attempt > 0 /\ Len(c.backend_attempts) = c.attempt - 1
        /\ Len(c.backend_attempts_total) = c.attempt /\ c.attempt \in Nat
    BY SendingFacts, ActiveFacts, ZenonT(60) DEF CInv, Underway
  <1>6. d.current_attempt # NoAttempt
    BY NoAttemptIsNone, SMTT(60) DEF IsCurrent
  <1>7. Underway(d)
    BY <1>2, <1>3, <1>5, SMTT(60) DEF Underway, IsCurrent
  <1>8. Recorded(d, FALSE)
    BY <1>2, <1>6, SMTT(60) DEF Recorded
  <1>9. RecordStep(c.record, d.record)
    <2>1. CASE ~c.cfg.inspector
      BY <2>1, SendingFacts DEF RecordStep
    <2>2. CASE c.cfg.inspector
      <3>1. Len(c.record.attempts) = c.attempt - 1 /\ c.record.outcome = "in_flight"
        BY <2>2, SendingFacts
      <3>2. Len(d.record.attempts) = Len(c.record.attempts) + 1
        BY <1>5, <2>2, <3>1, SMTT(30)
      <3> QED
        BY <2>2, <3>1, <3>2 DEF RecordStep
    <2> QED
      BY <2>1, <2>2, SMTT(60)
  <1> QED
    BY <1>1, <1>2, <1>3, <1>4, <1>7, <1>8, <1>9 DEF Safe, CInv, NoRetry

\* A non-success response.
LEMMA SendNonSuccessStep ==
  ASSUME NEW c, CInv(c, FALSE), c.pc = "send", NEW status \in Nat, NEW written \in BOOLEAN
  PROVE  LET e == ensure_failure_debug_capture(headers_received(c, status), written)
         IN Safe(c, [e EXCEPT !.pc = "error_body"]) /\ Safe(c, sanitize_upstream_error(e))
  <1> DEFINE g == headers_received(c, status)
             e == ensure_failure_debug_capture(g, written)
             HeaderFields == CaptureFields \cup {"upstream_status", "record"}
  <1>1. /\ Changes(c, g, {"upstream_status", "current_attempt", "attempt_record", "record"})
        /\ IsCurrent(c, g.current_attempt)
        /\ ~c.cfg.inspector => g.record = Unpublished
        /\ c.cfg.inspector => /\ g.record.outcome = "in_flight"
                              /\ Len(g.record.attempts) = c.attempt
    BY HeadersFacts
  <1> HIDE DEF g
  <1>2. Changes(g, e, CaptureFields) /\ SameAttempt(g.current_attempt, e.current_attempt)
    BY <1>1, EnsureFailureDebugCapture DEF Changes
  <1> HIDE DEF e
  <1>3. Changes(c, e, HeaderFields)
    BY <1>1, <1>2 DEF Changes, Keeps, CaptureFields
  <1>4. IsCurrent(c, e.current_attempt) /\ e.record = g.record
    BY <1>1, <1>2, NoAttemptIsNone
    DEF SameAttempt, IsCurrent, Changes, Keeps, Fields, CaptureFields
  <1>5. /\ e.requests_total = <<>> /\ e.response.kind = "none" /\ e.labels_backend \in Backends
        /\ e.backend_attempts = c.backend_attempts
    <2>1. /\ c.requests_total = <<>> /\ c.response.kind = "none"
          /\ c.labels_backend \in Backends
      BY SendingFacts, ActiveFacts
    <2>2. /\ e.requests_total = c.requests_total /\ e.response = c.response
          /\ e.labels_backend = c.labels_backend /\ e.backend_attempts = c.backend_attempts
      BY <1>3 DEF Changes, Keeps, Fields, CaptureFields
    <2> QED
      BY <2>1, <2>2, SMTT(60)
  <1>6. Safe(c, [e EXCEPT !.pc = "error_body"])
    <2> DEFINE d == WithPc(e, "error_body")
    <2>1. Changes(e, d, {"pc"}) /\ d.pc = "error_body"
      BY <1>3, SetPc DEF Changes
    <2>2. [e EXCEPT !.pc = "error_body"] = d
      BY DEF WithPc
    <2> HIDE DEF d
    <2>3. Changes(c, d, StageFields)
      BY <1>3, <2>1, SMTT(60) DEF Changes, Keeps, StageFields
    <2>4. /\ d.requests_total = e.requests_total /\ d.response = e.response
          /\ d.current_attempt = e.current_attempt /\ d.record = e.record
      BY <2>1, SMTT(60) DEF Changes, Keeps, Fields
    <2>5. Observed(d)
      BY <1>5, <2>1, <2>4, SMTT(60) DEF Observed
    <2> QED
      BY <1>1, <1>4, <2>1, <2>2, <2>3, <2>4, <2>5, StageStep
  <1>7. Safe(c, sanitize_upstream_error(e))
    <2> DEFINE exposed == FALSE
               d == record_non_success(e, exposed)
    <2>1. exposed \in BOOLEAN /\ sanitize_upstream_error(e) = d
      BY DEF sanitize_upstream_error
    <2>2. e \in Context /\ e.current_attempt \in AttemptRecord
      BY <1>3, <1>4 DEF Changes, IsCurrent
    <2> HIDE DEF exposed
    <2>3. Ended(e, d, e.current_attempt)
      BY <1>5, <2>1, <2>2, NonSuccessEnds
    <2> HIDE DEF d
    <2>4. Changes(c, e, EndFields)
      BY <1>3, SMTT(60) DEF Changes, Keeps, EndFields
    <2>5. /\ c \in Context /\ Active(c) /\ c.pc # "route"
          /\ ~c.cfg.inspector => c.record = Unpublished
      BY SendingFacts DEF CInv
    <2>6. Ended(c, d, e.current_attempt)
      BY <1>1, <1>4, <1>5, <2>3, <2>4, <2>5, EndedAfter
    <2> QED
      BY <1>4, <2>1, <2>5, <2>6, EndedStep
  <1> QED
    BY <1>6, <1>7 DEF e, g

\* A success that is buffered.
LEMMA SendBufferedStep ==
  ASSUME NEW c, CInv(c, FALSE), c.pc = "send", NEW status \in Nat
  PROVE  Safe(c, [headers_received(c, status) EXCEPT !.pc = "buffer"])
  <1> DEFINE e == headers_received(c, status)
             d == WithPc(e, "buffer")
  <1>1. /\ Changes(c, e, {"upstream_status", "current_attempt", "attempt_record", "record"})
        /\ IsCurrent(c, e.current_attempt)
        /\ ~c.cfg.inspector => e.record = Unpublished
        /\ c.cfg.inspector => /\ e.record.outcome = "in_flight"
                              /\ Len(e.record.attempts) = c.attempt
    BY HeadersFacts
  <1> HIDE DEF e
  <1>2. Changes(e, d, {"pc"}) /\ d.pc = "buffer"
    BY <1>1, SetPc DEF Changes
  <1>3. [e EXCEPT !.pc = "buffer"] = d
    BY DEF WithPc
  <1> HIDE DEF d
  <1>4. Changes(c, d, StageFields)
    BY <1>1, <1>2 DEF Changes, Keeps, StageFields, CaptureFields
  <1>5. /\ d.requests_total = c.requests_total /\ d.response = c.response
        /\ d.current_attempt = e.current_attempt /\ d.record = e.record
    BY <1>1, <1>2 DEF Changes, Keeps, Fields
  <1>6. Observed(d)
    BY <1>2, <1>5, SendingFacts DEF Observed
  <1>7. Safe(c, d)
    BY <1>1, <1>2, <1>4, <1>5, <1>6, StageStep
  <1> QED
    BY <1>3, <1>7 DEF e

WithStream(c, response, state) ==
  [c EXCEPT !.pc = "stream", !.response = response, !.stream_capture = state]

\* Committing the stream.
LEMMA SetStream ==
  ASSUME NEW c \in Context, NEW response \in Response, NEW state \in StreamCaptureStates
  PROVE  LET d == WithStream(c, response, state)
         IN /\ Changes(c, d, {"pc", "response", "stream_capture"})
            /\ d.pc = "stream" /\ d.response = response
  <1>1. WithStream(c, response, state) \in Context
    BY ZenonT(60) DEF WithStream, Context
  <1> QED
    BY <1>1 DEF Changes, Keeps, Fields, WithStream, Context

\* A success that is streamed: it is counted with the status it commits.
LEMMA SendStreamingStep ==
  ASSUME NEW c, CInv(c, FALSE), c.pc = "send", NEW status \in Nat
  PROVE  Safe(c, streaming_response(headers_received(c, status)))
  <1> DEFINE e == headers_received(c, status)
             g == record_request(e, e.upstream_status)
             response == [kind |-> "stream", status |-> e.upstream_status]
             state == IF e.route.stream_capture /\ e.debug_capture # 0
                      THEN "open" ELSE "closed"
             d == WithStream(g, response, state)
  <1>1. /\ Changes(c, e, {"upstream_status", "current_attempt", "attempt_record", "record"})
        /\ IsCurrent(c, e.current_attempt)
        /\ ~c.cfg.inspector => e.record = Unpublished
        /\ c.cfg.inspector => /\ e.record.outcome = "in_flight"
                              /\ Len(e.record.attempts) = c.attempt
    BY HeadersFacts
  <1>2. streaming_response(e) = d
    BY DEF streaming_response, WithStream
  <1> HIDE DEF e
  <1>3. e \in Context /\ e.upstream_status \in Nat
    BY <1>1 DEF Changes, Context
  <1>4. e.requests_total = <<>>
    <2>1. e.requests_total = c.requests_total
      BY <1>1 DEF Changes, Keeps, Fields
    <2> QED
      BY <2>1, SendingFacts
  <1>5. Changes(e, g, {"requests_total"}) /\ g.requests_total = <<e.upstream_status>>
    BY <1>3, <1>4, RecordRequest, CountedFirst
  <1>6. response \in Response /\ response.status = e.upstream_status
    BY <1>3 DEF Response
  <1>7. state \in StreamCaptureStates
    BY SMTT(60) DEF StreamCaptureStates
  <1> HIDE DEF g, response, state
  <1>8. /\ Changes(g, d, {"pc", "response", "stream_capture"})
        /\ d.pc = "stream" /\ d.response = response
    BY <1>5, <1>6, <1>7, SetStream, SMTT(60) DEF Changes
  <1> HIDE DEF d
  <1>9. Changes(c, d, StageFields)
    BY <1>1, <1>5, <1>8, SMTT(60) DEF Changes, Keeps, StageFields, CaptureFields
  <1>10. /\ d.requests_total = g.requests_total
         /\ d.current_attempt = e.current_attempt /\ d.record = e.record
    BY <1>5, <1>8, SMTT(60) DEF Changes, Keeps, Fields
  <1>11. Observed(d)
    BY <1>5, <1>6, <1>8, <1>10, SMTT(60) DEF Observed
  <1>12. Safe(c, d)
    BY <1>1, <1>8, <1>9, <1>10, <1>11, StageStep
  <1> QED
    BY <1>2, <1>12 DEF e

\* What a request that is reading a body holds.
LEMMA ReadingFacts ==
  ASSUME NEW c, CInv(c, FALSE), c.pc \in {"error_body", "buffer", "stream"}
  PROVE  /\ c \in Context /\ Active(c) /\ c.pc # "route"
         /\ IsCurrent(c, c.current_attempt) /\ c.current_attempt \in AttemptRecord
         /\ c.labels_backend \in Backends
         /\ c.pc # "stream" => c.requests_total = <<>>
         /\ c.pc = "stream" => c.requests_total = <<c.response.status>>
  <1>1. Active(c)
    BY DEF Active
  <1> QED
    BY <1>1, ActiveFacts DEF CInv, Underway, Observed, IsCurrent

WithErrorBytes(c, n, m, full) ==
  [c EXCEPT !.error_bytes = n, !.received_bytes = m, !.truncated = full]

\* Counting the bytes of an error body.
LEMMA SetErrorBytes ==
  ASSUME NEW c \in Context, NEW n \in 0..ErrorBodyCap, NEW m \in Nat, NEW full \in BOOLEAN
  PROVE  Changes(c, WithErrorBytes(c, n, m, full),
                 {"error_bytes", "received_bytes", "truncated"})
  <1>1. WithErrorBytes(c, n, m, full) \in Context
    BY ZenonT(60) DEF WithErrorBytes, Context
  <1> QED
    BY <1>1 DEF Changes, Keeps, Fields, WithErrorBytes, Context

WithUpstreamEnded(c) == [c EXCEPT !.upstream_ended = TRUE]

\* Noting the end of the body of the backend.
LEMMA SetUpstreamEnded ==
  ASSUME NEW c \in Context
  PROVE  Changes(c, WithUpstreamEnded(c), {"upstream_ended"})
  <1>1. WithUpstreamEnded(c) \in Context
    BY ZenonT(60) DEF WithUpstreamEnded, Context
  <1> QED
    BY <1>1 DEF Changes, Keeps, Fields, WithUpstreamEnded, Context

ReadFields == {"error_bytes", "received_bytes", "truncated", "upstream_ended"}

\* What the end of a body leaves as it was.
LEMMA ReadFacts ==
  ASSUME NEW c, NEW e, CInv(c, FALSE), c.pc \in {"error_body", "buffer"},
         Changes(c, e, ReadFields)
  PROVE  /\ e \in Context /\ e.labels_backend \in Backends
         /\ e.current_attempt = c.current_attempt /\ e.current_attempt \in AttemptRecord
         /\ e.requests_total = <<>>
         /\ e.backend_attempts = c.backend_attempts /\ e.record = c.record
  <1>1. /\ c.labels_backend \in Backends /\ c.current_attempt \in AttemptRecord
        /\ c.requests_total = <<>>
    BY ReadingFacts
  <1>2. /\ e \in Context /\ e.labels_backend = c.labels_backend
        /\ e.current_attempt = c.current_attempt /\ e.requests_total = c.requests_total
        /\ e.backend_attempts = c.backend_attempts /\ e.record = c.record
    BY DEF Changes, Keeps, Fields, ReadFields
  <1> QED
    BY <1>1, <1>2, SMTT(60)

\* A request that ends right after its body.
LEMMA ReadEnds ==
  ASSUME NEW c, NEW e, NEW d, CInv(c, FALSE), c.pc \in {"error_body", "buffer"},
         Changes(c, e, ReadFields), Ended(e, d, e.current_attempt)
  PROVE  Safe(c, d)
  <1>1. /\ c \in Context /\ Active(c) /\ c.pc # "route" /\ IsCurrent(c, c.current_attempt)
    BY ReadingFacts
  <1>2. /\ e.current_attempt = c.current_attempt
        /\ e.backend_attempts = c.backend_attempts /\ e.record = c.record
    BY ReadFacts
  <1>3. Changes(c, e, EndFields)
    BY DEF Changes, Keeps, ReadFields, EndFields
  <1>4. Ended(c, d, c.current_attempt)
    BY <1>1, <1>2, <1>3, EndedAfter
  <1> QED
    BY <1>1, <1>4, EndedStep

\* The error body is read, cut off or lost: forwarded or sanitized.
LEMMA ErrorBodyDoneStep ==
  ASSUME NEW c, NEW e, CInv(c, FALSE), c.pc = "error_body", Changes(c, e, ReadFields),
         NEW captured \in BOOLEAN
  PROVE  Safe(c, error_body_done(e, captured))
  <1>1. \A exposed \in BOOLEAN : Safe(c, record_non_success(e, exposed))
    <2> SUFFICES ASSUME NEW exposed \in BOOLEAN
                 PROVE  Safe(c, record_non_success(e, exposed))
      OBVIOUS
    <2>1. Ended(e, record_non_success(e, exposed), e.current_attempt)
      BY ReadFacts, NonSuccessEnds
    <2> QED
      BY <2>1, ReadEnds
  <1>2. \E exposed \in BOOLEAN : error_body_done(e, captured) = record_non_success(e, exposed)
    <2>1. CASE e.route.expose_backend_errors /\ captured /\ ~e.truncated
      BY <2>1 DEF error_body_done, forward_upstream_error
    <2>2. CASE ~(e.route.expose_backend_errors /\ captured /\ ~e.truncated)
      BY <2>2 DEF error_body_done, sanitize_upstream_error
    <2> QED
      BY <2>1, <2>2
  <1> QED
    BY <1>1, <1>2

\* One chunk of the error body.
LEMMA ErrorBodyChunkStep ==
  ASSUME NEW c, CInv(c, FALSE), c.pc = "error_body", NEW n \in 1..(ErrorBodyCap + 1),
         NEW full \in BOOLEAN, full <=> c.error_bytes + n >= ErrorBodyCap
  PROVE  LET read == [c EXCEPT !.error_bytes = IF full THEN ErrorBodyCap ELSE @ + n,
                               !.received_bytes = @ + n,
                               !.truncated = full]
         IN Safe(c, IF full THEN error_body_done(read, TRUE) ELSE read)
  <1> DEFINE kept == IF full THEN ErrorBodyCap ELSE c.error_bytes + n
             received == c.received_bytes + n
             captured == TRUE
             read == WithErrorBytes(c, kept, received, full)
  <1>1. c \in Context /\ Active(c)
    BY ReadingFacts
  <1>2. kept \in 0..ErrorBodyCap /\ received \in Nat /\ captured \in BOOLEAN
    <2>1. c.error_bytes \in 0..ErrorBodyCap /\ c.received_bytes \in Nat
      BY <1>1 DEF Context
    <2>2. ErrorBodyCap \in Nat
      BY BoundsAssumption
    <2>3. kept \in 0..ErrorBodyCap
      <3>1. CASE full
        BY <2>2, <3>1, SMTT(30)
      <3>2. CASE ~full
        BY <2>1, <2>2, <3>2, SMTT(60)
      <3> QED
        BY <3>1, <3>2
    <2> QED
      BY <2>1, <2>2, <2>3, SMTT(30)
  <1>3. [c EXCEPT !.error_bytes = IF full THEN ErrorBodyCap ELSE @ + n,
                  !.received_bytes = @ + n, !.truncated = full] = read
    BY <1>1 DEF WithErrorBytes, Context
  <1> HIDE DEF kept, received, captured
  <1>4. Changes(c, read, {"error_bytes", "received_bytes", "truncated"})
    BY <1>1, <1>2, SetErrorBytes, SMTT(60)
  <1> HIDE DEF read
  <1>5. Changes(c, read, ReadFields) /\ Changes(c, read, BodyFields)
    BY <1>4, SMTT(60) DEF Changes, Keeps, ReadFields, BodyFields
  <1>6. Safe(c, error_body_done(read, captured))
    BY <1>2, <1>5, ErrorBodyDoneStep
  <1>7. Safe(c, read)
    BY <1>1, <1>5, BodyStep
  <1> QED
    BY <1>3, <1>6, <1>7 DEF captured

\* The end of the error body, and its loss.
LEMMA ErrorBodyEndStep ==
  ASSUME NEW c, CInv(c, FALSE), c.pc = "error_body"
  PROVE  /\ Safe(c, error_body_done([c EXCEPT !.upstream_ended = TRUE], TRUE))
         /\ Safe(c, error_body_done(c, FALSE))
  <1> DEFINE e == WithUpstreamEnded(c)
             yes == TRUE
             no == FALSE
  <1>1. c \in Context
    BY ReadingFacts
  <1>2. Changes(c, e, {"upstream_ended"})
    BY <1>1, SetUpstreamEnded
  <1>3. [c EXCEPT !.upstream_ended = TRUE] = e
    BY DEF WithUpstreamEnded
  <1>4. yes \in BOOLEAN /\ no \in BOOLEAN
    OBVIOUS
  <1> HIDE DEF e, yes, no
  <1>5. Changes(c, e, ReadFields) /\ Changes(c, c, ReadFields)
    BY <1>1, <1>2, SMTT(60) DEF Changes, Keeps, ReadFields
  <1>6. Safe(c, error_body_done(e, yes)) /\ Safe(c, error_body_done(c, no))
    BY <1>4, <1>5, ErrorBodyDoneStep
  <1> QED
    BY <1>3, <1>6 DEF yes, no

\* The ends of a buffered body.
LEMMA BufferedStep ==
  ASSUME NEW c, CInv(c, FALSE), c.pc = "buffer", NEW written \in BOOLEAN
  PROVE  /\ Safe(c, buffered_ok([c EXCEPT !.upstream_ended = TRUE]))
         /\ Safe(c, buffered_failed(c, written))
  <1> DEFINE e == WithUpstreamEnded(c)
  <1>1. c \in Context
    BY ReadingFacts
  <1>2. Changes(c, e, {"upstream_ended"})
    BY <1>1, SetUpstreamEnded
  <1>3. [c EXCEPT !.upstream_ended = TRUE] = e
    BY DEF WithUpstreamEnded
  <1> HIDE DEF e
  <1>4. Changes(c, e, ReadFields) /\ Changes(c, c, ReadFields)
    BY <1>1, <1>2 DEF Changes, Keeps, ReadFields
  <1>5. Ended(e, buffered_ok(e), e.current_attempt)
    BY <1>4, ReadFacts, BufferedOkEnds
  <1>6. Ended(c, buffered_failed(c, written), c.current_attempt)
    BY <1>4, ReadFacts, BufferedFailedEnds
  <1> QED
    BY <1>3, <1>4, <1>5, <1>6, ReadEnds

\* The stream is dropped.
LEMMA StreamDropStep ==
  ASSUME NEW c, CInv(c, FALSE), c.pc = "stream", NEW written \in BOOLEAN
  PROVE  Safe(c, stream_dropped(c, written))
  <1>1. /\ c \in Context /\ Active(c) /\ c.pc # "route"
        /\ IsCurrent(c, c.current_attempt) /\ c.current_attempt \in AttemptRecord
        /\ c.labels_backend \in Backends /\ c.requests_total = <<c.response.status>>
    BY ReadingFacts
  <1>2. Ended(c, stream_dropped(c, written), c.current_attempt)
    BY <1>1, StreamDroppedEnds
  <1> QED
    BY <1>1, <1>2, EndedStep

\* The stream goes on, fails, or is complete.
LEMMA StreamChunkStep ==
  ASSUME NEW c, CInv(c, FALSE), c.pc = "stream"
  PROVE  Safe(c, [c EXCEPT !.client_bytes = TRUE])
  <1>1. c \in Context /\ Active(c)
    BY ReadingFacts
  <1>2. [c EXCEPT !.client_bytes = TRUE] \in Context
    BY <1>1, ZenonT(60) DEF Context
  <1>3. Changes(c, [c EXCEPT !.client_bytes = TRUE], BodyFields)
    BY <1>1, <1>2 DEF Changes, Keeps, Fields, BodyFields, Context
  <1> QED
    BY <1>1, <1>3, BodyStep

WithStreamError(c, kind, state) ==
  [c EXCEPT !.stream_error_kind = kind, !.stream_capture = state]

\* An error of the upstream stream.
LEMMA StreamErrorStep ==
  ASSUME NEW c, CInv(c, FALSE), c.pc = "stream", NEW kind \in UpstreamErrors
  PROVE  Safe(c, [c EXCEPT !.stream_error_kind = kind,
                           !.stream_capture = IF @ = "open" THEN "error" ELSE @])
  <1> DEFINE state == IF c.stream_capture = "open" THEN "error" ELSE c.stream_capture
             d == WithStreamError(c, kind, state)
  <1>1. c \in Context /\ Active(c)
    BY ReadingFacts
  <1>2. kind \in ErrorKinds \cup {None} /\ state \in StreamCaptureStates
    BY <1>1, ErrorsAssumption DEF Context, StreamCaptureStates
  <1>3. [c EXCEPT !.stream_error_kind = kind,
                  !.stream_capture = IF @ = "open" THEN "error" ELSE @] = d
    BY <1>1 DEF WithStreamError, Context
  <1> HIDE DEF state
  <1>4. d \in Context
    BY <1>1, <1>2, ZenonT(60) DEF WithStreamError, Context
  <1>5. Changes(c, d, BodyFields)
    BY <1>1, <1>4 DEF Changes, Keeps, Fields, BodyFields, WithStreamError, Context
  <1> HIDE DEF d
  <1> QED
    BY <1>1, <1>3, <1>5, BodyStep

WithBodyComplete(c, state) == [c EXCEPT !.body_complete = TRUE, !.stream_capture = state]

\* mark_body_complete and record_done.
LEMMA BodyCompleted ==
  ASSUME NEW c \in Context
  PROVE  Changes(c, body_completed(c), {"body_complete", "stream_capture"})
  <1> DEFINE state == IF c.stream_capture = "open" THEN "done" ELSE c.stream_capture
             d == WithBodyComplete(c, state)
  <1>1. state \in StreamCaptureStates
    BY DEF Context, StreamCaptureStates
  <1>2. body_completed(c) = d
    BY DEF body_completed, WithBodyComplete, Context
  <1> HIDE DEF state
  <1>3. d \in Context
    BY <1>1, ZenonT(60) DEF WithBodyComplete, Context
  <1>4. Changes(c, d, {"body_complete", "stream_capture"})
    BY <1>3 DEF Changes, Keeps, Fields, WithBodyComplete, Context
  <1> QED
    BY <1>2, <1>4

\* The end of the upstream stream, and a shutdown that is taken for it.
LEMMA StreamEndStep ==
  ASSUME NEW c, CInv(c, FALSE), c.pc = "stream"
  PROVE  /\ Safe(c, body_completed([c EXCEPT !.upstream_ended = TRUE]))
         /\ Safe(c, body_completed(c))
  <1> DEFINE e == WithUpstreamEnded(c)
  <1>1. c \in Context /\ Active(c)
    BY ReadingFacts
  <1>2. Changes(c, e, {"upstream_ended"})
    BY <1>1, SetUpstreamEnded
  <1>3. [c EXCEPT !.upstream_ended = TRUE] = e
    BY DEF WithUpstreamEnded
  <1> HIDE DEF e
  <1>4. /\ Changes(e, body_completed(e), {"body_complete", "stream_capture"})
        /\ Changes(c, body_completed(c), {"body_complete", "stream_capture"})
    BY <1>1, <1>2, BodyCompleted DEF Changes
  <1>5. Changes(c, body_completed(e), BodyFields) /\ Changes(c, body_completed(c), BodyFields)
    BY <1>2, <1>4 DEF Changes, Keeps, BodyFields
  <1> QED
    BY <1>1, <1>3, <1>5, BodyStep

WithOutcome(record, outcome, status) ==
  [record EXCEPT !.outcome = outcome, !.status = status]

\* mark_record_interrupted keeps the attempts of the record.
LEMMA SetOutcome ==
  ASSUME NEW record \in InspectorRecord, NEW outcome \in RR!FinalOutcomes, NEW status \in Nat
  PROVE  LET d == WithOutcome(record, outcome, status)
         IN d \in InspectorRecord /\ d.outcome = outcome /\ d.attempts = record.attempts
  BY DEF WithOutcome, InspectorRecord

\* The store is dropped: what is in flight becomes interrupted.
LEMMA StoreDropStep ==
  ASSUME NEW c, CInv(c, FALSE), c.pc \in {"new", "done"}
  PROVE  LET d == [c EXCEPT !.record = mark_record_interrupted(@)]
         IN /\ CInv(d, TRUE)
            /\ d.record.outcome = IF c.record.outcome = "in_flight"
                                  THEN "interrupted" ELSE c.record.outcome
            /\ d.record.attempts = c.record.attempts
            /\ d.attempt = c.attempt
            /\ d.backend_attempts_total = c.backend_attempts_total
  <1> DEFINE d == [c EXCEPT !.record = mark_record_interrupted(@)]
             record == mark_record_interrupted(c.record)
  <1>1. c \in Context /\ c.record \in InspectorRecord
    BY DEF CInv, Context
  <1> SUFFICES /\ CInv(d, TRUE)
               /\ d.record.outcome = IF c.record.outcome = "in_flight"
                                     THEN "interrupted" ELSE c.record.outcome
               /\ d.record.attempts = c.record.attempts
               /\ d.attempt = c.attempt
               /\ d.backend_attempts_total = c.backend_attempts_total
    OBVIOUS
  <1>2. CASE c.record.outcome # "in_flight"
    <2>1. d = c
      BY <1>1, <1>2 DEF mark_record_interrupted, Context
    <2>2. CInv(c, TRUE)
      BY <1>1 DEF CInv, Recorded
    <2> HIDE DEF d
    <2> QED
      BY <1>2, <2>1, <2>2
  <1>3. CASE c.record.outcome = "in_flight"
    <2>1. /\ record \in InspectorRecord /\ record.outcome = "interrupted"
          /\ record.attempts = c.record.attempts
      <3>1. record = WithOutcome(c.record, "interrupted", 503)
        BY <1>3 DEF mark_record_interrupted, WithOutcome
      <3>2. "interrupted" \in RR!FinalOutcomes /\ 503 \in Nat
        BY SMTT(30) DEF RR!FinalOutcomes
      <3> HIDE DEF record
      <3> QED
        BY <1>1, <3>1, <3>2, SetOutcome, SMTT(30)
    <2>2. d = [c EXCEPT !.record = record]
      BY <1>1 DEF Context
    <2> HIDE DEF record, d
    <2>3. d \in Context
      BY <1>1, <2>1, <2>2, ZenonT(60) DEF Context
    <2>4. Changes(c, d, {"record"}) /\ d.record = record
      BY <1>1, <2>2, <2>3 DEF Changes, Keeps, Fields, Context
    <2>5. /\ Position(d) /\ d.cfg = c.cfg /\ d.candidates = c.candidates
          /\ d.attempt = c.attempt
      <3>1. {"record"} \cap PositionFields = {}
        BY DEF PositionFields
      <3> QED
        BY <2>4, <3>1, SamePosition DEF CInv, Changes
    <2>6. /\ d.pc = c.pc /\ d.backend_attempts = c.backend_attempts
          /\ d.backend_attempts_total = c.backend_attempts_total
          /\ d.requests_total = c.requests_total /\ d.response = c.response
      BY <2>4 DEF Changes, Keeps, Fields
    <2>7. c.pc = "done" /\ c.cfg.inspector
      <3>1. c.pc # "new"
        <4> SUFFICES ASSUME c.pc = "new" PROVE FALSE
          OBVIOUS
        <4>1. c.record = Unpublished
          BY NewFacts, ZenonT(60)
        <4> QED
          BY <1>3, <4>1, SMTT(30) DEF Unpublished
      <3>2. c.cfg.inspector
        BY <1>3, SMTT(30) DEF CInv, Recorded, Unpublished
      <3> QED
        BY <3>1, <3>2, SMTT(60)
    <2>8. Listed(d) /\ Observed(d) /\ Underway(d)
      BY <2>5, <2>6, <2>7, SMTT(30) DEF CInv, Listed, Observed, Underway, Active, Unobserved
    <2>9. Recorded(d, TRUE)
      BY <2>1, <2>4, <2>5, <2>6, <2>7, SMTT(60) DEF Recorded, Active, RR!FinalOutcomes
    <2>10. CInv(d, TRUE)
      BY <2>3, <2>5, <2>8, <2>9, ZenonT(60) DEF CInv
    <2> QED
      BY <1>3, <2>1, <2>4, <2>5, <2>6, <2>10
  <1> QED
    BY <1>2, <1>3

\* A step of request r takes its context to d and is safe.
StepsTo(r, d) == Become(r, d) /\ Safe(req[r], d)

\* Every action of a request is such a step.
LEMMA RequestStep ==
  ASSUME IInv, NEW r \in Requests, Request(r)
  PROVE  ~dropped /\ \E d : StepsTo(r, d)
  <1> DEFINE c == req[r]
  <1>1. ~dropped
    BY DEF Request, Progress, CountTokens, Preflight, Admit, PrepareOutbound,
           PrepareShutdown, RewriteFailed, SendShutdown, SendRetry, SendFailed,
           SendNonSuccess, SendStreaming, SendBuffered, ErrorBodyChunk, ErrorBodyEnd,
           ErrorBodyLost, BufferedEnd, BufferedFailed, BufferedShutdown, StreamChunk,
           StreamError, StreamEnd, StreamShutdown, StreamDrop, HandlerDropped, Streaming, At
  <1>2. CInv(c, FALSE)
    <2>1. dropped = FALSE
      BY <1>1 DEF IInv
    <2> QED
      BY <2>1 DEF IInv
  <1>3. CASE CountTokens(r)
    BY <1>2, <1>3, CountTokensStep, ZenonT(60) DEF CountTokens, At, StepsTo
  <1>4. CASE Preflight(r)
    <2>1. PICK status \in Nat : Become(r, handle_preflight_failure(c, status))
      BY <1>4, SMTT(30) DEF Preflight
    <2>2. c.pc = "new"
      BY <1>4 DEF Preflight, At
    <2>3. Safe(c, handle_preflight_failure(c, status))
      BY <1>2, <2>2, PreflightStep
    <2> QED
      BY <1>1, <2>1, <2>3 DEF StepsTo
  <1>5. CASE Admit(r)
    <2>1. PICK routes \in Candidates, stream \in BOOLEAN : \E n :
            /\ n = IF Len(routes) - 1 < c.cfg.fallback_attempts
                   THEN Len(routes) ELSE 1 + c.cfg.fallback_attempts
            /\ Become(r, live_upsert(
                 [c EXCEPT !.pc = "route", !.stream = stream,
                           !.candidates = routes, !.route = Head(routes),
                           !.labels_backend = Head(routes).backend_id,
                           !.fallback_routes = SubSeq(routes, 2, n),
                           !.attempt = 1, !.max_attempts = n]))
      BY <1>5 DEF Admit
    <2>2. c.pc = "new"
      BY <1>5 DEF Admit, At
    <2>3. PICK n :
            /\ n = IF Len(routes) - 1 < c.cfg.fallback_attempts
                   THEN Len(routes) ELSE 1 + c.cfg.fallback_attempts
            /\ Become(r, live_upsert(
                 [c EXCEPT !.pc = "route", !.stream = stream,
                           !.candidates = routes, !.route = Head(routes),
                           !.labels_backend = Head(routes).backend_id,
                           !.fallback_routes = SubSeq(routes, 2, n),
                           !.attempt = 1, !.max_attempts = n]))
      BY <2>1
    <2>4. Safe(c, live_upsert(
                 [c EXCEPT !.pc = "route", !.stream = stream,
                           !.candidates = routes, !.route = Head(routes),
                           !.labels_backend = Head(routes).backend_id,
                           !.fallback_routes = SubSeq(routes, 2, n),
                           !.attempt = 1, !.max_attempts = n]))
      BY <1>2, <2>2, <2>3, AdmitStep, ZenonT(60)
    <2> QED
      BY <1>1, <2>3, <2>4 DEF StepsTo
  <1>6. CASE PrepareOutbound(r)
    BY <1>1, <1>2, <1>6, PrepareOutboundStep DEF PrepareOutbound, At, StepsTo
  <1>7. CASE PrepareShutdown(r)
    <2>1. PICK written \in BOOLEAN :
            Become(r, respond(prepare_outbound(c, written), "error", 500))
      BY <1>7, SMTT(60) DEF PrepareShutdown
    <2>2. c.pc = "route"
      BY <1>7, SMTT(60) DEF PrepareShutdown, At
    <2>3. Safe(c, respond(prepare_outbound(c, written), "error", 500))
      BY <1>2, <2>2, PrepareShutdownStep, ZenonT(60)
    <2> QED
      BY <1>1, <2>1, <2>3, SMTT(60) DEF StepsTo
  <1>8. CASE RewriteFailed(r)
    BY <1>1, <1>2, <1>8, RewriteFailedStep, ZenonT(60) DEF RewriteFailed, At, StepsTo
  <1>9. CASE SendShutdown(r)
    BY <1>1, <1>2, <1>9, ShutdownStep, ZenonT(60) DEF SendShutdown, At, StepsTo
  <1>10. CASE SendRetry(r)
    BY <1>1, <1>2, <1>10, SendRetryStep DEF SendRetry, At, StepsTo
  <1>11. CASE SendFailed(r)
    BY <1>1, <1>2, <1>11, SendFailedStep DEF SendFailed, At, StepsTo
  <1>12. CASE SendNonSuccess(r)
    <2>1. PICK status \in UpstreamStatuses, written \in BOOLEAN :
            LET e == ensure_failure_debug_capture(headers_received(c, status), written)
            IN Become(r, IF e.debug_capture # 0 \/ e.route.expose_backend_errors
                         THEN [e EXCEPT !.pc = "error_body"]
                         ELSE sanitize_upstream_error(e))
      BY <1>12 DEF SendNonSuccess
    <2> DEFINE e == ensure_failure_debug_capture(headers_received(c, status), written)
    <2>2. c.pc = "send" /\ status \in Nat
      BY <1>12, BoundsAssumption DEF SendNonSuccess, At
    <2>3. Safe(c, [e EXCEPT !.pc = "error_body"]) /\ Safe(c, sanitize_upstream_error(e))
      BY <1>2, <2>1, <2>2, SendNonSuccessStep
    <2>4. CASE e.debug_capture # 0 \/ e.route.expose_backend_errors
      BY <1>1, <2>1, <2>3, <2>4 DEF StepsTo
    <2>5. CASE ~(e.debug_capture # 0 \/ e.route.expose_backend_errors)
      BY <1>1, <2>1, <2>3, <2>5, ZenonT(60) DEF StepsTo
    <2> QED
      BY <2>4, <2>5
  <1>13. CASE SendStreaming(r)
    <2>1. PICK status \in UpstreamStatuses :
            Become(r, streaming_response(headers_received(c, status)))
      BY <1>13 DEF SendStreaming
    <2>2. c.pc = "send" /\ status \in Nat
      BY <1>13, BoundsAssumption DEF SendStreaming, At
    <2> QED
      BY <1>1, <1>2, <2>1, <2>2, SendStreamingStep DEF StepsTo
  <1>14. CASE SendBuffered(r)
    <2>1. PICK status \in UpstreamStatuses :
            Become(r, [headers_received(c, status) EXCEPT !.pc = "buffer"])
      BY <1>14 DEF SendBuffered
    <2>2. c.pc = "send" /\ status \in Nat
      BY <1>14, BoundsAssumption DEF SendBuffered, At
    <2> QED
      BY <1>1, <1>2, <2>1, <2>2, SendBufferedStep DEF StepsTo
  <1>15. CASE ErrorBodyChunk(r)
    <2>1. PICK n \in 1..(ErrorBodyCap + 1) :
            LET full == c.error_bytes + n >= ErrorBodyCap
                read == [c EXCEPT !.error_bytes = IF full THEN ErrorBodyCap ELSE @ + n,
                                  !.received_bytes = @ + n, !.truncated = full]
            IN Become(r, IF full THEN error_body_done(read, TRUE) ELSE read)
      BY <1>15 DEF ErrorBodyChunk
    <2>2. c.pc = "error_body"
      BY <1>15 DEF ErrorBodyChunk, At
    <2> DEFINE full == c.error_bytes + n >= ErrorBodyCap
               read == [c EXCEPT !.error_bytes = IF full THEN ErrorBodyCap ELSE @ + n,
                                 !.received_bytes = @ + n, !.truncated = full]
    <2>3. full \in BOOLEAN /\ (full <=> c.error_bytes + n >= ErrorBodyCap)
      BY SMTT(30)
    <2>4. Become(r, IF full THEN error_body_done(read, TRUE) ELSE read)
      BY <2>1
    <2> HIDE DEF full
    <2>5. Safe(c, IF full THEN error_body_done(read, TRUE) ELSE read)
      BY <1>2, <2>2, <2>3, ErrorBodyChunkStep
    <2> QED
      BY <1>1, <2>4, <2>5 DEF StepsTo
  <1>16. CASE ErrorBodyEnd(r)
    BY <1>1, <1>2, <1>16, ErrorBodyEndStep DEF ErrorBodyEnd, At, StepsTo
  <1>17. CASE ErrorBodyLost(r)
    BY <1>1, <1>2, <1>17, ErrorBodyEndStep DEF ErrorBodyLost, At, StepsTo
  <1>18. CASE BufferedEnd(r)
    BY <1>1, <1>2, <1>18, BufferedStep DEF BufferedEnd, At, StepsTo
  <1>19. CASE BufferedFailed(r)
    BY <1>1, <1>2, <1>19, BufferedStep DEF BufferedFailed, At, StepsTo
  <1>20. CASE BufferedShutdown(r)
    BY <1>1, <1>2, <1>20, ShutdownStep, ZenonT(60) DEF BufferedShutdown, At, StepsTo
  <1>21. CASE StreamChunk(r)
    BY <1>1, <1>2, <1>21, StreamChunkStep DEF StreamChunk, Streaming, At, StepsTo
  <1>22. CASE StreamError(r)
    BY <1>1, <1>2, <1>22, StreamErrorStep DEF StreamError, Streaming, At, StepsTo
  <1>23. CASE StreamEnd(r)
    BY <1>1, <1>2, <1>23, StreamEndStep DEF StreamEnd, Streaming, At, StepsTo
  <1>24. CASE StreamShutdown(r)
    BY <1>1, <1>2, <1>24, StreamEndStep DEF StreamShutdown, Streaming, At, StepsTo
  <1>25. CASE StreamDrop(r)
    BY <1>1, <1>2, <1>25, StreamDropStep DEF StreamDrop, At, StepsTo
  <1>26. CASE HandlerDropped(r)
    BY <1>1, <1>2, <1>26, HandlerDroppedStep DEF HandlerDropped, StepsTo
  <1> QED
    BY <1>1, <1>3, <1>4, <1>5, <1>6, <1>7, <1>8, <1>9, <1>10, <1>11, <1>12, <1>13, <1>14,
       <1>15, <1>16, <1>17, <1>18, <1>19, <1>20, <1>21, <1>22, <1>23, <1>24, <1>25, <1>26
    DEF Request, Progress
=============================================================================
