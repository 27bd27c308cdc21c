----------------------------- MODULE ProxyProofs -----------------------------
(***************************************************************************)
(* Theorems about Proxy, for any number of requests, backends, candidates, *)
(* configurations and fallbacks.  ProxySteps and ProxyAccounts say that    *)
(* each action keeps the invariants of one context; here they are put      *)
(* together.                                                               *)
(***************************************************************************)
EXTENDS ProxyAccounts, Induction

\* Zenon proves the steps that name no prover.
USE ZenonT(20)

\* A new context is one.
LEMMA NewContextType ==
  ASSUME NEW cfg \in Config
  PROVE  NewContext(cfg) \in Context /\ NewContext(cfg).cfg = cfg
  <1> DEFINE response == [kind |-> "none", status |-> 0]
             captures == [n \in AttemptNumbers |-> None]
  <1>1. NewContext(cfg).cfg = cfg
    BY SMTT(60) DEF NewContext
  <1>2. Unpublished \in InspectorRecord
    BY SMTT(30) DEF Unpublished, InspectorRecord
  <1>3. /\ captures \in [AttemptNumbers -> RR!AttemptOutcomes \cup {None, "sent_to_upstream"}]
        /\ response \in Response /\ 0 \in 0..ErrorBodyCap
    BY BoundsAssumption, SMTT(30) DEF Response
  <1>4. /\ <<>> \in Seq(SelectedRoute) /\ <<>> \in Seq(AttemptRecord)
        /\ <<>> \in Seq(Nat) /\ <<>> \in Seq(Backends)
        /\ <<>> \in Seq([backend : Backends, ok : BOOLEAN, status : Nat])
    BY SMTT(60)
  <1>5. NewContext(cfg) \in Context
    <2> HIDE DEF response, captures
    <2>1. "closed" \in StreamCaptureStates
      BY DEF StreamCaptureStates
    <2>2. NewContext(cfg) =
            [pc |-> "new", cfg |-> cfg, stream |-> FALSE, candidates |-> <<>>,
             route |-> NoRoute, fallback_routes |-> <<>>, labels_backend |-> None,
             attempt |-> 0, max_attempts |-> 0, attempt_record |-> NoAttempt,
             current_attempt |-> NoAttempt, backend_attempts |-> <<>>,
             retried_attempts |-> <<>>, debug_capture |-> 0, pending_debug_capture |-> 0,
             captures |-> captures,
             sent |-> 0, upstream_status |-> 0, error_bytes |-> 0, truncated |-> FALSE,
             received_bytes |-> 0, upstream_ended |-> FALSE, client_bytes |-> FALSE,
             body_complete |-> FALSE, stream_error_kind |-> None,
             stream_capture |-> "closed", requests_total |-> <<>>,
             backend_attempts_total |-> <<>>, streams_total |-> 0, health |-> <<>>,
             record |-> Unpublished, response |-> response]
      BY DEF NewContext, captures, response
    <2> QED
      BY <1>2, <1>3, <1>4, <2>1, <2>2, SMTT(60) DEF Context
  <1> QED
    BY <1>1, <1>5

\* The invariant holds at the start.
LEMMA InitInv == Init => IInv
  <1> SUFFICES ASSUME Init PROVE IInv
    OBVIOUS
  <1>1. \A r \in Requests : CInv(req[r], FALSE)
    <2> SUFFICES ASSUME NEW r \in Requests PROVE CInv(req[r], FALSE)
      OBVIOUS
    <2>1. PICK cfg \in Config : req[r] = NewContext(cfg)
      BY ConfigsAssumption DEF Init
    <2> DEFINE c == NewContext(cfg)
    <2>2. c \in Context /\ c.cfg = cfg
      BY NewContextType
    <2>3. Position(c) /\ Listed(c) /\ Observed(c) /\ Recorded(c, FALSE)
      <3>1. Position(c)
        BY SMTT(30) DEF NewContext, Position
      <3>2. Listed(c)
        BY SMTT(30) DEF NewContext, Listed, Active
      <3>3. Observed(c)
        BY SMTT(30) DEF NewContext, Observed, Active
      <3>4. Recorded(c, FALSE)
        BY SMTT(30) DEF NewContext, Recorded, Active
      <3> QED
        BY <3>1, <3>2, <3>3, <3>4
    <2>4. Underway(c)
      <3>1. c.pc = "new"
        BY DEF NewContext
      <3> HIDE DEF c
      <3>2. c = NewContext(c.cfg)
        BY <2>2 DEF c
      <3> QED
        BY <3>1, <3>2, SMTT(60) DEF Underway, Active
    <2> QED
      BY <2>1, <2>2, <2>3, <2>4 DEF CInv
  <1>2. req \in [Requests -> Context]
    <2>1. \A r \in Requests : req[r] \in Context
      BY <1>1 DEF CInv
    <2> QED
      BY <2>1 DEF Init
  <1>3. dropped = FALSE /\ shutdown = FALSE
    BY DEF Init
  <1> QED
    BY <1>1, <1>2, <1>3 DEF IInv

\* And every step keeps it.
LEMMA NextInv == IInv /\ [Next]_vars => IInv'
  <1> SUFFICES ASSUME IInv, [Next]_vars PROVE IInv'
    OBVIOUS
  <1>1. ASSUME NEW r \in Requests, Request(r) PROVE IInv'
    <2>1. PICK d : StepsTo(r, d)
      BY <1>1, RequestStep, SMTT(60)
    <2>2. /\ req' = [req EXCEPT ![r] = d] /\ dropped' = dropped /\ shutdown' = shutdown
          /\ CInv(d, FALSE) /\ d \in Context
      BY <2>1 DEF StepsTo, Become, Safe, CInv
    <2>3. dropped = FALSE
      BY <1>1, RequestStep DEF IInv
    <2>4. \A q \in Requests : CInv(req'[q], dropped')
      <3> SUFFICES ASSUME NEW q \in Requests PROVE CInv(req'[q], dropped')
        OBVIOUS
      <3>1. CASE q = r
        BY <2>2, <2>3, <3>1 DEF IInv
      <3>2. CASE q # r
        BY <2>2, <3>2 DEF IInv
      <3> QED
        BY <3>1, <3>2
    <2> QED
      BY <2>2, <2>4 DEF IInv
  <1>2. CASE Shutdown
    BY <1>2 DEF IInv, Shutdown
  <1>3. CASE StoreDrop
    <2>1. dropped = FALSE /\ dropped' = TRUE /\ shutdown' = shutdown
      BY <1>3 DEF StoreDrop, IInv
    <2>2. \A r \in Requests : req'[r] = [req[r] EXCEPT !.record = mark_record_interrupted(@)]
      BY <1>3 DEF StoreDrop
    <2>3. \A r \in Requests : CInv(req'[r], TRUE)
      <3> SUFFICES ASSUME NEW r \in Requests PROVE CInv(req'[r], TRUE)
        OBVIOUS
      <3>1. CInv(req[r], FALSE) /\ req[r].pc \in {"new", "done"}
        BY <1>3, <2>1 DEF IInv, StoreDrop
      <3> QED
        BY <2>2, <3>1, StoreDropStep
    <2>4. req' \in [Requests -> Context]
      <3>1. \A r \in Requests : req'[r] \in Context
        BY <2>3, ZenonT(60) DEF CInv
      <3>2. req' = [r \in Requests |-> req'[r]]
        BY <1>3 DEF StoreDrop
      <3> QED
        BY <3>1, <3>2
    <2> QED
      BY <2>1, <2>3, <2>4 DEF IInv
  <1>4. CASE UNCHANGED vars
    BY <1>4 DEF IInv, vars
  <1>5. CASE Exited
    BY <1>4, <1>5 DEF Exited
  <1> QED
    BY <1>1, <1>2, <1>3, <1>4, <1>5, SMTT(60) DEF Next

\* Every reachable state satisfies the invariant of the contexts.
THEOREM Invariant == Spec => []IInv
  BY InitInv, NextInv, PTL DEF Spec

\* Every context the handlers reach is one they can build, for any number of
\* requests, candidates and fallbacks.
THEOREM TypeCorrect == Spec => []TypeOK
  <1>1. IInv => TypeOK
    BY DEF IInv, TypeOK
  <1> QED
    BY <1>1, Invariant, PTL

\* Fallback tries the candidates in the order of routing, each at most once,
\* and never more of them than fallback_attempts allows.
THEOREM FallbackOrder == Spec => []AttemptsFollowCandidates
  <1>1. IInv => AttemptsFollowCandidates
    <2> SUFFICES ASSUME IInv, NEW r \in Requests
                 PROVE  LET c == req[r] IN
                        /\ c.attempt <= c.max_attempts
                        /\ c.max_attempts <= 1 + c.cfg.fallback_attempts
                        /\ \A i \in DOMAIN c.backend_attempts :
                             /\ c.backend_attempts[i].attempt = i
                             /\ c.backend_attempts[i].backend = c.candidates[i].backend_id
                        /\ \A i \in DOMAIN c.backend_attempts_total :
                             c.backend_attempts_total[i] = c.candidates[i].backend_id
                        /\ c.attempt > 0 => c.route = c.candidates[c.attempt]
      BY DEF AttemptsFollowCandidates
    <2> DEFINE c == req[r]
    <2>1. c \in Context /\ Position(c) /\ Listed(c)
      BY SMTT(60) DEF IInv, CInv
    <2> HIDE DEF c
    <2>2. c.attempt \in Nat /\ c.max_attempts \in Nat /\ c.cfg.fallback_attempts \in Nat
      BY <2>1, BoundsAssumption, SMTT(60) DEF Context, Config
    <2>3. c.attempt <= c.max_attempts /\ c.max_attempts <= 1 + c.cfg.fallback_attempts
      BY <2>1, <2>2, SMTT(60) DEF Position
    <2>4. c.attempt > 0 => c.route = c.candidates[c.attempt]
      BY <2>1, SMTT(60) DEF Position
    <2> QED
      BY <2>1, <2>3, <2>4 DEF Listed, c
  <1> QED
    BY <1>1, Invariant, PTL

\* A request is counted at most once, with the status its client saw, and has a
\* final record exactly if it was counted.
THEOREM CountedOnce == Spec => []CountedOnceAsAnswered
  <1>1. IInv => CountedOnceAsAnswered
    <2> SUFFICES ASSUME IInv, NEW r \in Requests
                 PROVE  LET c == req[r] IN
                        /\ c.requests_total \in {<<>>, <<c.response.status>>}
                        /\ c.pc = "done" /\ c.requests_total = <<>> => Unobserved(c)
                        /\ c.pc = "done" /\ c.cfg.inspector /\ ~dropped =>
                             (c.record.outcome \in RR!FinalOutcomes
                                <=> c.requests_total # <<>>)
      BY DEF CountedOnceAsAnswered
    <2> DEFINE c == req[r]
    <2>1. c \in Context /\ Underway(c) /\ Observed(c) /\ Recorded(c, dropped)
      BY SMTT(60) DEF IInv, CInv
    <2> HIDE DEF c
    <2>2. c.pc \in {"new", "route", "send", "error_body", "buffer", "stream", "done"}
      BY <2>1, SMTT(60) DEF Context
    <2>3. c.pc = "new" => c.requests_total = <<>>
      BY <2>1, SMTT(60) DEF Underway, NewContext
    <2>4. c.requests_total \in {<<>>, <<c.response.status>>}
      BY <2>1, <2>2, <2>3 DEF Observed
    <2>5. c.pc = "done" /\ c.requests_total = <<>> => Unobserved(c)
      BY <2>1, SMTT(30) DEF Observed
    <2>6. c.pc = "done" /\ c.cfg.inspector /\ ~dropped =>
            (c.record.outcome \in RR!FinalOutcomes <=> c.requests_total # <<>>)
      BY <2>1 DEF Recorded
    <2> QED
      BY <2>4, <2>5, <2>6, SMTT(60) DEF c
  <1> QED
    BY <1>1, Invariant, PTL

\* What a step does to the contexts: one takes a safe step, or none changes, or
\* the store is dropped.
LEMMA StepShape ==
  ASSUME IInv, [Next]_vars
  PROVE  \/ \E r \in Requests, d \in Context :
              /\ req' = [req EXCEPT ![r] = d]
              /\ RecordStep(req[r].record, d.record) /\ NoRetry(req[r], d)
         \/ req' = req
         \/ StoreDrop
  <1>1. ASSUME NEW r \in Requests, Request(r)
        PROVE  \E d \in Context : /\ req' = [req EXCEPT ![r] = d]
                                  /\ RecordStep(req[r].record, d.record)
                                  /\ NoRetry(req[r], d)
    <2>1. PICK d : StepsTo(r, d)
      BY <1>1, RequestStep
    <2> QED
      BY <2>1, ZenonT(60) DEF StepsTo, Become, Safe, CInv
  <1> QED
    BY <1>1, SMTT(60) DEF Next, Shutdown, Exited, vars

\* Once headers have arrived or anything was committed to the client, no other
\* attempt is started.
THEOREM NoLateRetry == Spec => NoRetryAfterHeaders
  <1> DEFINE Kept == \A r \in Requests :
               req[r].current_attempt # NoAttempt \/ req[r].response.kind # "none"
               => /\ req'[r].attempt = req[r].attempt
                  /\ req'[r].backend_attempts_total = req[r].backend_attempts_total
  <1>1. IInv /\ [Next]_vars => [Kept]_vars
    <2> SUFFICES ASSUME IInv, [Next]_vars PROVE Kept
      BY SMTT(60)
    <2>1. CASE \E r \in Requests, d \in Context :
                 req' = [req EXCEPT ![r] = d] /\ NoRetry(req[r], d)
      BY <2>1, SMTT(60) DEF NoRetry, IInv
    <2>2. CASE req' = req
      BY <2>2
    <2>3. CASE StoreDrop
      <3> SUFFICES ASSUME NEW r \in Requests
                   PROVE  /\ req'[r].attempt = req[r].attempt
                          /\ req'[r].backend_attempts_total = req[r].backend_attempts_total
        OBVIOUS
      <3>1. dropped = FALSE
        BY <2>3 DEF StoreDrop, IInv
      <3>2. CInv(req[r], FALSE) /\ req[r].pc \in {"new", "done"}
        BY <2>3, <3>1 DEF IInv, StoreDrop
      <3>3. req'[r] = [req[r] EXCEPT !.record = mark_record_interrupted(@)]
        BY <2>3 DEF StoreDrop
      <3> QED
        BY <3>2, <3>3, StoreDropStep, SMTT(60)
    <2> QED
      BY <2>1, <2>2, <2>3, StepShape
  <1> QED
    BY <1>1, Invariant, PTL DEF Spec, NoRetryAfterHeaders

\* The record of every request behaves as RequestRecord specifies: published
\* once, growing while it is in flight, and final for good.
THEOREM RecordRefinement == Spec => ImplementsRequestRecord
  <1> DEFINE outcome == [r \in Requests |-> req[r].record.outcome]
             listed == [r \in Requests |-> Len(req[r].record.attempts)]
  <1>1. Init => RR!Init
    <2> SUFFICES ASSUME Init PROVE RR!Init
      BY SMTT(60)
    <2>1. \A r \in Requests : req[r].record = Unpublished
      <3> SUFFICES ASSUME NEW r \in Requests PROVE req[r].record = Unpublished
        OBVIOUS
      <3>1. PICK cfg \in Configs : req[r] = NewContext(cfg)
        BY DEF Init
      <3> QED
        BY <3>1, SMTT(60) DEF NewContext
    <2>2. \A r \in Requests : /\ req[r].record.outcome = "unpublished"
                              /\ Len(req[r].record.attempts) = 0
      <3>1. Unpublished.outcome = "unpublished" /\ Len(Unpublished.attempts) = 0
        BY DEF Unpublished
      <3> QED
        BY <2>1, <3>1
    <2> QED
      BY <2>2 DEF RR!Init
  <1>2. IInv /\ [Next]_vars => [RR!Next]_(RR!vars)
    <2> SUFFICES ASSUME IInv, [Next]_vars PROVE [RR!Next]_(RR!vars)
      BY SMTT(60)
    <2>1. ASSUME NEW r \in Requests, NEW d \in Context,
                 req' = [req EXCEPT ![r] = d], RecordStep(req[r].record, d.record)
          PROVE  [RR!Next]_(RR!vars)
      <3> DEFINE p == req[r].record
                 q == d.record
                 same == Len(q.attempts) = Len(p.attempts)
                 more == Len(q.attempts) = Len(p.attempts) + 1
      <3>1. /\ outcome' = [outcome EXCEPT ![r] = q.outcome]
            /\ listed' = [listed EXCEPT ![r] = Len(q.attempts)]
        BY <2>1 DEF IInv
      <3>2. /\ outcome[r] = p.outcome /\ listed[r] = Len(p.attempts)
            /\ outcome = [outcome EXCEPT ![r] = outcome[r]]
            /\ listed = [listed EXCEPT ![r] = listed[r]]
        OBVIOUS
      <3> HIDE DEF outcome, listed
      <3>3. CASE q.outcome = p.outcome /\ same
        <4>1. outcome' = outcome /\ listed' = listed
          BY <3>1, <3>2, <3>3, SMTT(60)
        <4> QED
          BY <4>1 DEF RR!vars, outcome, listed
      <3>4. CASE p.outcome = "unpublished" /\ q.outcome \in {"preflight", "in_flight"} /\ same
        <4>1. /\ outcome[r] = "unpublished" /\ listed' = listed
              /\ \/ outcome' = [outcome EXCEPT ![r] = "preflight"]
                 \/ outcome' = [outcome EXCEPT ![r] = "in_flight"]
          BY <3>1, <3>2, <3>4
        <4>2. RR!Refuse(r) \/ RR!Publish(r)
          BY <4>1 DEF RR!Refuse, RR!Publish, outcome, listed
        <4> QED
          BY <4>2, SMTT(60) DEF RR!Next
      <3>5. CASE p.outcome = "in_flight" /\ q.outcome = "in_flight" /\ more
        <4>1. /\ outcome[r] = "in_flight" /\ outcome' = outcome
              /\ listed' = [listed EXCEPT ![r] = listed[r] + 1]
          BY <3>1, <3>2, <3>5, SMTT(60)
        <4>2. RR!List(r)
          BY <4>1 DEF RR!List, outcome, listed
        <4> QED
          BY <4>2 DEF RR!Next
      <3>6. CASE /\ p.outcome = "in_flight" /\ q.outcome \in RR!AttemptOutcomes
                 /\ more \/ (same /\ Len(p.attempts) > 0)
        <4>1. /\ outcome[r] = "in_flight"
              /\ \E o \in RR!AttemptOutcomes : outcome' = [outcome EXCEPT ![r] = o]
              /\ \/ listed[r] > 0 /\ listed' = listed
                 \/ listed' = [listed EXCEPT ![r] = listed[r] + 1]
          BY <3>1, <3>2, <3>6
        <4>2. RR!Finalize(r)
          BY <4>1 DEF RR!Finalize, outcome, listed
        <4> QED
          BY <4>2, SMTT(60) DEF RR!Next
      <3> QED
        BY <2>1, <3>3, <3>4, <3>5, <3>6, SMTT(60) DEF RecordStep
    <2>2. CASE req' = req
      BY <2>2 DEF RR!vars
    <2>3. CASE StoreDrop
      <3>1. dropped = FALSE
        BY <2>3 DEF StoreDrop, IInv
      <3>2. \A r \in Requests :
              /\ req'[r].record.outcome = IF req[r].record.outcome = "in_flight"
                                          THEN "interrupted" ELSE req[r].record.outcome
              /\ req'[r].record.attempts = req[r].record.attempts
        <4> SUFFICES ASSUME NEW r \in Requests
                     PROVE  /\ req'[r].record.outcome =
                                 IF req[r].record.outcome = "in_flight"
                                 THEN "interrupted" ELSE req[r].record.outcome
                            /\ req'[r].record.attempts = req[r].record.attempts
          OBVIOUS
        <4>1. CInv(req[r], FALSE) /\ req[r].pc \in {"new", "done"}
          BY <2>3, <3>1 DEF IInv, StoreDrop
        <4>2. req'[r] = [req[r] EXCEPT !.record = mark_record_interrupted(@)]
          BY <2>3 DEF StoreDrop
        <4> QED
          BY <4>1, <4>2, StoreDropStep
      <3>3. RR!InterruptAll
        BY <3>2 DEF RR!InterruptAll
      <3> QED
        BY <3>3 DEF RR!Next
    <2> QED
      BY <2>1, <2>2, <2>3, StepShape, SMTT(60)
  <1> QED
    BY <1>1, <1>2, Invariant, PTL DEF Spec, ImplementsRequestRecord, RR!Spec

-----------------------------------------------------------------------------
(***************************************************************************)
(* The accounts of all requests.                                           *)
(***************************************************************************)

\* Every request is accounted for.
AccountsInv == \A r \in Requests : AInv(req[r])

\* What the account takes for granted of Keep.
LEMMA JudgedAreKept == JudgedKept
  <1>1. Keep(<<>>, Judged) = <<>>
    BY KeepEmpty
  <1>2. ASSUME NEW s \in Seq(AttemptRecord)
        PROVE  Keep(s, Judged) \in Seq(AttemptRecord)
    BY KeepElements
  <1>3. ASSUME NEW s \in Seq(AttemptRecord), NEW b \in AttemptRecord
        PROVE  Keep(Append(s, b), Judged) =
                 IF b \in Judged THEN Append(Keep(s, Judged), b) ELSE Keep(s, Judged)
    BY KeepAppend
  <1> QED
    BY <1>1, <1>2, <1>3 DEF JudgedKept

\* The accounts are kept at the start.
LEMMA InitAccounts == Init => AccountsInv
  <1> SUFFICES ASSUME Init, NEW r \in Requests PROVE AInv(req[r])
    BY DEF AccountsInv
  <1>1. CInv(req[r], FALSE)
    <2>1. dropped = FALSE /\ IInv
      BY InitInv DEF Init
    <2> QED
      BY <2>1 DEF IInv
  <1>2. PICK c : c = req[r]
    OBVIOUS
  <1>3. c.pc = "new"
    <2>1. PICK cfg \in Configs : req[r] = NewContext(cfg)
      BY DEF Init
    <2> QED
      BY <1>2, <2>1, SMTT(30) DEF NewContext
  <1>4. /\ c.record = Unpublished /\ c.response.kind = "none"
    BY <1>1, <1>2, <1>3, NewFacts
  <1>5. c.record.outcome = "unpublished"
    BY <1>4, SMTT(30) DEF Unpublished
  <1>6. KeepsAccount(c, c)
    BY DEF KeepsAccount
  <1>7. AInv(c)
    BY <1>1, <1>2, <1>3, <1>4, <1>5, <1>6, NewAccount, JudgedAreKept
  <1> QED
    BY <1>2, <1>7

\* And every step keeps them.
LEMMA NextAccounts == IInv /\ AccountsInv /\ [Next]_vars => AccountsInv'
  <1> SUFFICES ASSUME IInv, AccountsInv, [Next]_vars, NEW q \in Requests PROVE AInv(req'[q])
    BY DEF AccountsInv
  <1>1. AInv(req[q])
    BY DEF AccountsInv
  <1>2. ASSUME NEW r \in Requests, Request(r) PROVE AInv(req'[q])
    <2>1. AInv(req[r])
      BY DEF AccountsInv
    <2>2. PICK d : AccountsTo(r, d)
      BY <1>2, <2>1, RequestAccount, JudgedAreKept
    <2>3. req' = [req EXCEPT ![r] = d] /\ AInv(d)
      BY <2>2 DEF AccountsTo, Become
    <2>4. DOMAIN req = Requests
      BY DEF IInv
    <2>5. CASE q = r
      BY <2>3, <2>4, <2>5
    <2>6. CASE q # r
      BY <1>1, <2>3, <2>4, <2>6
    <2> QED
      BY <2>5, <2>6
  <1>3. CASE StoreDrop
    <2>1. dropped = FALSE
      BY <1>3 DEF StoreDrop, IInv
    <2>2. CInv(req[q], FALSE) /\ req[q].pc \in {"new", "done"}
      BY <1>3, <2>1 DEF IInv, StoreDrop
    <2>3. req'[q] = [req[q] EXCEPT !.record = mark_record_interrupted(@)]
      BY <1>3 DEF StoreDrop
    <2> QED
      BY <1>1, <2>2, <2>3, StoreDropAccount
  <1>4. CASE req' = req
    BY <1>1, <1>4
  <1> QED
    BY <1>2, <1>3, <1>4 DEF Next, Shutdown, Exited, vars

\* The account of every request is kept.
THEOREM AccountsInvariant == Spec => []AccountsInv
  BY InitAccounts, NextAccounts, Invariant, PTL DEF Spec

\* A final record lists exactly the attempts the metric counted, in order, with
\* the retried ones before the last and the outcome of the last; an interrupted
\* one misses at most the attempt whose headers were awaited.
THEOREM AttemptsListed == Spec => []RecordListsEveryAttempt
  <1>1. AccountsInv => RecordListsEveryAttempt
    BY DEF AccountsInv, AInv, Accounts, RecordListsEveryAttempt
  <1> QED
    BY <1>1, AccountsInvariant, PTL

\* Health is told of every attempt that says something about its backend, in
\* order and under the backend that was tried.
THEOREM AttemptsJudged == Spec => []HealthJudgesEveryAttempt
  <1>1. AccountsInv => HealthJudgesEveryAttempt
    BY DEF AccountsInv, AInv, HealthJudgesEveryAttempt
  <1> QED
    BY <1>1, AccountsInvariant, PTL

\* An attempt is linked to a debug capture exactly if one was made for it, and the
\* capture has the outcome of the attempt.
THEOREM CapturesMatched == Spec => []CapturesMatchAttempts
  <1>1. AccountsInv => CapturesMatchAttempts
    BY DEF AccountsInv, AInv, Captured, CapturesMatchAttempts
  <1> QED
    BY <1>1, AccountsInvariant, PTL

\* An error body is forwarded only if the route exposes it and it was read to its
\* end below the cap; the record and health say what happened.
THEOREM ForwardedWhole == Spec => []ForwardedErrorsAreWhole
  <1>1. AccountsInv => ForwardedErrorsAreWhole
    BY DEF AccountsInv, AInv, Body, ForwardedErrorsAreWhole
  <1> QED
    BY <1>1, AccountsInvariant, PTL
=============================================================================
