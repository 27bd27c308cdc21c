---------------------------- MODULE ProxyAccounts ----------------------------
(***************************************************************************)
(* The account of a request: what its record, health and the debug         *)
(* captures say of its attempts.  AInv holds next to CInv, and every       *)
(* action keeps it.                                                        *)
(***************************************************************************)
EXTENDS ProxySteps

\* Zenon proves the steps that name no prover.
USE ZenonT(20)

\* What the record of request c lists, while it is in flight and at its end.
Accounts(c) ==
  /\ Active(c) => /\ c.retried_attempts = c.backend_attempts
                  /\ c.sent = Len(c.backend_attempts_total)
  /\ c.record.outcome = "in_flight" => /\ Len(c.record.attempts) <= c.sent
                                       /\ c.sent <= Len(c.record.attempts) + 1
  /\ ListsEveryAttempt(c)

\* The attempt under way, wherever it is held.
Held(c) == IF c.pc = "send" THEN c.attempt_record ELSE c.current_attempt

\* No capture is made ahead of its attempt, and the one of the attempt under
\* way is linked to it.
Captured(c) ==
  /\ CapturesMatch(c)
  /\ Active(c) => \A n \in AttemptNumbers : n > c.attempt => c.captures[n] = None
  /\ c.pc = "route" => c.captures[c.attempt] = None
  /\ c.pc \in {"send", "error_body", "buffer", "stream"} =>
       Slots(c) /\ Held(c).debug_capture_id = c.debug_capture
  /\ c.cfg.debug_capture = "failures" /\ c.pc \in {"send", "buffer", "stream"} =>
       c.debug_capture = 0

\* How much of an error body has been read.
Body(c) ==
  /\ c.pc \in {"route", "send"} => c.error_bytes = 0 /\ c.received_bytes = 0
  /\ c.pc = "error_body" => /\ c.error_bytes = c.received_bytes
                            /\ c.received_bytes < ErrorBodyCap
  /\ c.pc = "stream" => c.response.kind = "stream"
  /\ ForwardsWhole(c)

AInv(c) == Accounts(c) /\ JudgesEveryAttempt(c) /\ Captured(c) /\ Body(c)

\* What the account needs to know of Keep: the attempts that say something about
\* their backend are picked one by one.  Lemma JudgedAreKept of ProxyProofs.
JudgedKept ==
  /\ Keep(<<>>, Judged) = <<>>
  /\ \A s \in Seq(AttemptRecord) :
       /\ Keep(s, Judged) \in Seq(AttemptRecord)
       /\ \A b \in AttemptRecord :
            Keep(Append(s, b), Judged) =
              IF b \in Judged THEN Append(Keep(s, Judged), b) ELSE Keep(s, Judged)

\* The record of a request under way has no outcome of its own yet.
LEMMA OpenRecord ==
  ASSUME NEW c, CInv(c, FALSE), Active(c)
  PROVE  /\ c.record.outcome \in {"in_flight", "unpublished"}
         /\ c.record.outcome \notin RR!AttemptOutcomes /\ c.record.outcome # "interrupted"
  <1>1. c.record.outcome \in {"in_flight", "unpublished"}
    BY SMTT(30) DEF CInv, Recorded, Unpublished
  <1> QED
    BY <1>1 DEF RR!AttemptOutcomes

\* The captures of the attempts listed before the one under way stay.
LEMMA SameMatch ==
  ASSUME NEW c, NEW d, CInv(c, FALSE), Active(c), CapturesMatch(c), SameCaptures(c, d),
         d.backend_attempts = c.backend_attempts, d.cfg = c.cfg
  PROVE  CapturesMatch(d)
  <1>1. /\ c.attempt \in Nat /\ c.backend_attempts \in Seq(AttemptRecord)
        /\ c.attempt \in AttemptNumbers
    BY ActiveFacts
  <1>2. Len(c.backend_attempts) = c.attempt - 1
    BY DEF CInv, Underway
  <1>3. \A i \in DOMAIN c.backend_attempts : i \in AttemptNumbers /\ i # c.attempt
    BY <1>1, <1>2, BoundsAssumption, SMTT(30) DEF AttemptNumbers
  <1>4. \A i \in DOMAIN c.backend_attempts : d.captures[i] = c.captures[i]
    BY <1>3 DEF SameCaptures
  <1> QED
    BY <1>4 DEF CapturesMatch

\* A request that is not observed leaves its account as it was.
LEMMA QuietAccount ==
  ASSUME NEW c, NEW d, CInv(c, FALSE), Active(c), AInv(c), d.pc = "done",
         d.sent = c.sent, d.cfg = c.cfg, d.backend_attempts = c.backend_attempts,
         d.health = c.health, SameCaptures(c, d), d.response.kind # "forwarded",
         d.record.outcome = c.record.outcome,
         Len(d.record.attempts) = Len(c.record.attempts)
  PROVE  AInv(d)
  <1>1. Accounts(d)
    BY OpenRecord DEF AInv, Accounts, ListsEveryAttempt, Active
  <1>2. JudgesEveryAttempt(d)
    BY DEF AInv, JudgesEveryAttempt
  <1>3. CapturesMatch(d)
    BY SameMatch DEF AInv, Captured
  <1>4. Captured(d)
    BY <1>3 DEF Captured, Active
  <1>5. Body(d)
    BY DEF Body, ForwardsWhole
  <1> QED
    BY <1>1, <1>2, <1>4, <1>5 DEF AInv

\* One verdict more for one attempt more.
LEMMA JudgesMore ==
  ASSUME JudgedKept, NEW c \in Context, NEW d, JudgesEveryAttempt(c), NEW b \in AttemptRecord,
         b.backend = c.labels_backend, TellsHealth(c, d, b),
         d.backend_attempts = Append(c.backend_attempts, b)
  PROVE  JudgesEveryAttempt(d)
  <1> DEFINE s == c.backend_attempts
             k == Keep(s, Judged)
             l == Keep(d.backend_attempts, Judged)
  <1>1. s \in Seq(AttemptRecord) /\ c.health \in Seq(HealthVerdict)
    BY DEF Context, HealthVerdict
  <1>2. l = IF b \in Judged THEN Append(k, b) ELSE k
    <2>1. s \in Seq(AttemptRecord) /\ d.backend_attempts = Append(s, b)
      BY <1>1
    <2> HIDE DEF s
    <2>2. Keep(Append(s, b), Judged) = IF b \in Judged THEN Append(k, b) ELSE k
      BY <2>1 DEF JudgedKept
    <2> QED
      BY <2>1, <2>2
  <1>3. k \in Seq(AttemptRecord)
    BY <1>1 DEF JudgedKept
  <1>4. /\ Len(c.health) = Len(k)
        /\ \A i \in DOMAIN k : /\ c.health[i].backend = k[i].backend
                               /\ c.health[i].ok <=> k[i].outcome = "completed"
    BY DEF JudgesEveryAttempt
  <1> HIDE DEF k, l
  <1>5. CASE b \notin Judged
    <2>1. l = k /\ d.health = c.health
      BY <1>2, <1>5 DEF TellsHealth
    <2> QED
      BY <1>4, <2>1 DEF JudgesEveryAttempt, l
  <1>6. CASE b \in Judged
    <2>1. PICK v \in HealthVerdict : /\ v.backend = c.labels_backend
                                     /\ v.ok <=> b.outcome = "completed"
                                     /\ d.health = Append(c.health, v)
      BY <1>6 DEF TellsHealth
    <2>2. l = Append(k, b)
      BY <1>2, <1>6
    <2> DEFINE n == Len(k)
    <2>3. /\ n \in Nat /\ Len(l) = n + 1 /\ Len(d.health) = n + 1 /\ DOMAIN l = 1..(n + 1)
          /\ DOMAIN k = 1..n
      BY <1>1, <1>3, <1>4, <2>1, <2>2, SMTT(30)
    <2>4. \A i \in 1..n : l[i] = k[i] /\ d.health[i] = c.health[i]
      BY <1>1, <1>3, <1>4, <2>1, <2>2, SMTT(30)
    <2>5. l[n + 1] = b /\ d.health[n + 1] = v
      BY <1>1, <1>3, <1>4, <2>1, <2>2, SMTT(30)
    <2>6. \A i \in DOMAIN l : /\ d.health[i].backend = l[i].backend
                              /\ d.health[i].ok <=> l[i].outcome = "completed"
      <3> SUFFICES ASSUME NEW i \in 1..(n + 1)
                   PROVE  /\ d.health[i].backend = l[i].backend
                          /\ d.health[i].ok <=> l[i].outcome = "completed"
        BY <2>3
      <3>1. CASE i = n + 1
        BY <2>1, <2>5, <3>1
      <3>2. CASE i # n + 1
        <4>1. i \in 1..n
          BY <2>3, <3>2, SMTT(30)
        <4> QED
          BY <1>4, <2>3, <2>4, <4>1
      <3> QED
        BY <3>1, <3>2
    <2> QED
      BY <2>3, <2>6 DEF JudgesEveryAttempt, l
  <1> QED
    BY <1>5, <1>6

\* One attempt more, with the capture that was made for it.
LEMMA CapturesMore ==
  ASSUME NEW c, NEW d, CInv(c, FALSE), Active(c), CapturesMatch(c), NEW b \in AttemptRecord,
         TellsCapture(c, d, b), d.backend_attempts = Append(c.backend_attempts, b),
         d.cfg = c.cfg
  PROVE  CapturesMatch(d)
  <1> DEFINE s == c.backend_attempts
             n == c.attempt
  <1>1. n \in Nat /\ n \in AttemptNumbers /\ s \in Seq(AttemptRecord)
    BY ActiveFacts
  <1>2. Len(s) = n - 1 /\ n > 0
    BY DEF CInv, Underway
  <1>3. /\ DOMAIN d.backend_attempts = 1..n /\ DOMAIN s = 1..(n - 1)
        /\ d.backend_attempts[n] = b
        /\ \A i \in 1..(n - 1) : d.backend_attempts[i] = s[i]
    BY <1>1, <1>2, SMTT(30)
  <1> DEFINE Match(i) ==
        LET a == d.backend_attempts[i] IN
        /\ d.captures[i] \in {None, a.outcome}
        /\ a.debug_capture_id = IF d.captures[i] = None THEN 0 ELSE i
        /\ d.cfg.debug_capture = "failures" /\ d.captures[i] # None =>
             a.outcome \notin {"completed", "stream_incomplete"}
  <1>4. Match(n)
    BY <1>3 DEF TellsCapture
  <1>5. \A i \in 1..(n - 1) : Match(i)
    <2> SUFFICES ASSUME NEW i \in 1..(n - 1) PROVE Match(i)
      OBVIOUS
    <2>1. i \in AttemptNumbers /\ i # n
      BY <1>1, BoundsAssumption, SMTT(30) DEF AttemptNumbers
    <2>2. d.captures[i] = c.captures[i]
      BY <2>1 DEF TellsCapture, SameCaptures
    <2> QED
      BY <1>3, <2>2 DEF CapturesMatch
  <1>6. \A i \in 1..n : i = n \/ i \in 1..(n - 1)
    BY <1>1, SMTT(30)
  <1>7. \A i \in 1..n : Match(i)
    BY <1>4, <1>5, <1>6
  <1> QED
    BY <1>3, <1>7 DEF CapturesMatch

\* The attempt under way is for the candidate at hand.
LEMMA ToldBackend ==
  ASSUME NEW c, NEW d, CInv(c, FALSE), Active(c), NEW b \in AttemptRecord,
         d.backend_attempts = Append(c.backend_attempts, b), Listed(d),
         d.candidates = c.candidates
  PROVE  b.backend = c.labels_backend
  <1>1. /\ c.attempt \in Nat /\ c.backend_attempts \in Seq(AttemptRecord)
        /\ c.labels_backend = c.candidates[c.attempt].backend_id
    BY ActiveFacts
  <1>2. Len(c.backend_attempts) = c.attempt - 1 /\ c.attempt > 0
    BY DEF CInv, Underway
  <1>3. c.attempt \in DOMAIN d.backend_attempts /\ d.backend_attempts[c.attempt] = b
    BY <1>1, <1>2, SMTT(30)
  <1> QED
    BY <1>1, <1>3 DEF Listed

\* The record of a request that has told of its last attempt.
LEMMA ListsMore ==
  ASSUME NEW c, NEW d, CInv(c, FALSE), Active(c), c.pc # "route", Accounts(c),
         CInv(d, FALSE), NEW b, Tells(c, d, b), d.cfg = c.cfg,
         d.backend_attempts_total = c.backend_attempts_total
  PROVE  ListsEveryAttempt(d) /\ d.record.outcome # "in_flight"
  <1>1. CASE ~c.cfg.inspector
    <2>1. d.record = Unpublished
      BY <1>1 DEF CInv, Recorded
    <2> QED
      BY <2>1, SMTT(30) DEF ListsEveryAttempt, Unpublished, RR!AttemptOutcomes
  <1>2. CASE c.cfg.inspector
    <2> DEFINE s == c.backend_attempts
               t == d.backend_attempts
               n == c.attempt
               total == c.backend_attempts_total
    <2>1. n \in Nat /\ s \in Seq(AttemptRecord) /\ total \in Seq(Backends)
      BY ActiveFacts
    <2>2. n > 0 /\ Len(s) = n - 1 /\ Len(total) = n
      BY DEF CInv, Underway
    <2>3. /\ b \in AttemptRecord /\ b.outcome \in RR!AttemptOutcomes /\ t = Append(s, b)
          /\ d.record.outcome = b.outcome /\ d.record.status = b.status
          /\ d.record.attempts = t /\ d.record.retried = s
      BY <1>2 DEF Tells, TellsRecord, Accounts
    <2>4. /\ Len(t) = n /\ DOMAIN t = 1..n /\ t[n] = b /\ DOMAIN total = 1..n
          /\ s = SubSeq(t, 1, Len(t) - 1)
      <3>1. /\ Len(t) = n /\ DOMAIN t = 1..n /\ t[n] = b /\ DOMAIN total = 1..n
        BY <2>1, <2>2, <2>3, SMTT(30)
      <3>2. t \in Seq(AttemptRecord) /\ \A i \in 1..(n - 1) : t[i] = s[i]
        BY <2>1, <2>2, <2>3, SMTT(30)
      <3>3. SubSeq(t, 1, n - 1) \in Seq(AttemptRecord)
            /\ Len(SubSeq(t, 1, n - 1)) = n - 1
            /\ \A i \in 1..(n - 1) : SubSeq(t, 1, n - 1)[i] = t[i]
        BY <2>1, <2>2, <3>1, <3>2, SMTT(30)
      <3> HIDE DEF s, t, n
      <3>4. s = SubSeq(t, 1, n - 1)
        <4>1. PICK u : u = SubSeq(t, 1, n - 1)
          OBVIOUS
        <4>2. s = [i \in 1..(n - 1) |-> s[i]] /\ u = [i \in 1..(n - 1) |-> u[i]]
          BY <2>1, <2>2, <3>3, <4>1, SMTT(30)
        <4>3. \A i \in 1..(n - 1) : s[i] = u[i]
          BY <3>2, <3>3, <4>1
        <4> QED
          BY <4>1, <4>2, <4>3
      <3> QED
        BY <3>1, <3>4
    <2>5. \A i \in 1..n : t[i].backend = total[i]
      <3>1. Listed(d)
        BY DEF CInv
      <3>2. DOMAIN d.backend_attempts_total = 1..n
        BY <2>4
      <3> HIDE DEF n
      <3> QED
        BY <2>4, <3>1, <3>2 DEF Listed
    <2>6. n = Len(s) + 1
      BY <2>1, <2>2, SMTT(30)
    <2>7. b.outcome # "in_flight" /\ b.outcome # "interrupted"
      BY <2>3 DEF RR!AttemptOutcomes
    <2> HIDE DEF s, t, n, total
    <2>8. /\ Len(d.record.attempts) = Len(total)
          /\ \A i \in DOMAIN d.record.attempts : d.record.attempts[i].backend = total[i]
          /\ d.record.retried = SubSeq(d.record.attempts, 1, Len(d.record.attempts) - 1)
          /\ d.record.attempts[Len(d.record.retried) + 1].outcome = d.record.outcome
          /\ d.record.attempts[Len(d.record.retried) + 1].status = d.record.status
      BY <2>2, <2>3, <2>4, <2>5, <2>6
    <2> QED
      BY <2>3, <2>7, <2>8 DEF ListsEveryAttempt, total
  <1> QED
    BY <1>1, <1>2

\* The end of a request is accounted for, if it tells of its last attempt.
LEMMA EndAccount ==
  ASSUME JudgedKept, NEW c, NEW d, CInv(c, FALSE), Active(c), c.pc # "route", AInv(c),
         \E b : Tells(c, d, b), CInv(d, FALSE), d.pc = "done", d.cfg = c.cfg,
         d.backend_attempts_total = c.backend_attempts_total,
         d.candidates = c.candidates, ForwardsWhole(d)
  PROVE  AInv(d)
  <1> PICK b : Tells(c, d, b)
    OBVIOUS
  <1>1. /\ b \in AttemptRecord /\ d.backend_attempts = Append(c.backend_attempts, b)
        /\ TellsHealth(c, d, b) /\ TellsCapture(c, d, b)
    BY DEF Tells
  <1>2. c \in Context /\ Listed(d)
    BY DEF CInv
  <1>3. Accounts(d)
    <2>1. ListsEveryAttempt(d) /\ d.record.outcome # "in_flight"
      BY ListsMore DEF AInv
    <2> QED
      BY <2>1 DEF Accounts, Active
  <1>4. JudgesEveryAttempt(d)
    <2>1. b.backend = c.labels_backend
      BY <1>1, <1>2, ToldBackend
    <2> QED
      BY <1>1, <1>2, <2>1, JudgesMore DEF AInv
  <1>5. CapturesMatch(d)
    BY <1>1, CapturesMore DEF AInv, Captured
  <1> QED
    BY <1>3, <1>4, <1>5 DEF AInv, Captured, Body, Active

\* Nothing of what the account of c is about has changed.
KeepsAccount(c, d) ==
  /\ d.backend_attempts = c.backend_attempts /\ d.retried_attempts = c.retried_attempts
  /\ d.backend_attempts_total = c.backend_attempts_total /\ d.health = c.health
  /\ d.captures = c.captures /\ d.sent = c.sent
  /\ d.error_bytes = c.error_bytes /\ d.received_bytes = c.received_bytes

\* Nothing is to be accounted for before the first attempt.
LEMMA NewAccount ==
  ASSUME JudgedKept, NEW c, NEW d, CInv(c, FALSE), c.pc = "new", KeepsAccount(c, d),
         d.pc \in {"new", "route", "done"}, d.pc = "route" => d.attempt \in AttemptNumbers,
         d.record.outcome \in {"unpublished", "preflight", "in_flight"},
         d.record.outcome = "in_flight" => Len(d.record.attempts) = 0,
         d.response.kind # "forwarded"
  PROVE  AInv(d)
  <1>1. /\ d.backend_attempts = <<>> /\ d.retried_attempts = <<>> /\ d.health = <<>>
        /\ d.backend_attempts_total = <<>> /\ d.sent = 0
        /\ d.captures = [n \in AttemptNumbers |-> None]
        /\ d.error_bytes = 0 /\ d.received_bytes = 0
    BY SMTT(30) DEF CInv, Underway, NewContext, KeepsAccount
  <1>2. Accounts(d)
    BY <1>1, SMTT(30) DEF Accounts, ListsEveryAttempt, RR!AttemptOutcomes
  <1>3. JudgesEveryAttempt(d)
    <2>1. Keep(d.backend_attempts, Judged) = <<>>
      BY <1>1 DEF JudgedKept
    <2> QED
      BY <1>1, <2>1, SMTT(30) DEF JudgesEveryAttempt
  <1>4. Captured(d)
    BY <1>1, SMTT(30) DEF Captured, CapturesMatch
  <1>5. Body(d)
    BY <1>1 DEF Body, ForwardsWhole
  <1> QED
    BY <1>2, <1>3, <1>4, <1>5 DEF AInv

\* count_tokens answers at once.
LEMMA CountTokensAccount ==
  ASSUME JudgedKept, NEW c, CInv(c, FALSE), c.pc = "new"
  PROVE  AInv(respond(c, "error", 404))
  <1> DEFINE d == respond(c, "error", 404)
  <1>1. c \in Context /\ c.record = Unpublished
    BY NewFacts
  <1>2. /\ KeepsAccount(c, d) /\ d.pc = "done" /\ d.record = c.record
        /\ d.response.kind = "error"
    BY <1>1, SMTT(30) DEF respond, KeepsAccount, Context
  <1>3. d.record.outcome = "unpublished"
    BY <1>1, <1>2, SMTT(30) DEF Unpublished
  <1> HIDE DEF d
  <1>4. AInv(d)
    BY <1>2, <1>3, NewAccount
  <1> QED
    BY <1>4 DEF d

\* A request refused before routing.
LEMMA PreflightAccount ==
  ASSUME JudgedKept, NEW c, CInv(c, FALSE), c.pc = "new", NEW status \in Nat
  PROVE  AInv(handle_preflight_failure(c, status))
  <1> DEFINE d == handle_preflight_failure(c, status)
  <1>1. c \in Context /\ c.record = Unpublished
    BY NewFacts
  <1>2. /\ KeepsAccount(c, d) /\ d.pc = "done"
        /\ d.response.kind = "error"
    BY <1>1 DEF handle_preflight_failure, record_request, record_inspector, upsert, respond,
                KeepsAccount, Context
  <1>3. d.record.outcome \in {"unpublished", "preflight"}
    BY <1>1, SMTT(30)
       DEF handle_preflight_failure, record_request, record_inspector, upsert, respond,
                Context, Unpublished
  <1> HIDE DEF d
  <1>4. AInv(d)
    BY <1>2, <1>3, NewAccount
  <1> QED
    BY <1>4 DEF d

\* Routing admits the request: its first attempt is ahead.
LEMMA AdmitAccount ==
  ASSUME JudgedKept, NEW c, CInv(c, FALSE), c.pc = "new", NEW stream,
         NEW routes, NEW head, NEW backend,
         NEW rest, NEW n
  PROVE  AInv(live_upsert(
                [c EXCEPT !.pc = "route", !.stream = stream,
                          !.candidates = routes, !.route = head,
                          !.labels_backend = backend, !.fallback_routes = rest,
                          !.attempt = 1, !.max_attempts = n]))
  <1> DEFINE d == live_upsert(
                    [c EXCEPT !.pc = "route", !.stream = stream,
                              !.candidates = routes, !.route = head,
                              !.labels_backend = backend, !.fallback_routes = rest,
                              !.attempt = 1, !.max_attempts = n])
  <1>1. /\ c \in Context /\ c.record = Unpublished /\ c.current_attempt = NoAttempt
        /\ c.backend_attempts = <<>> /\ c.response.kind = "none"
    BY NewFacts
  <1>2. KeepsAccount(c, d)
    BY <1>1, SMTT(30) DEF live_upsert, upsert, KeepsAccount, Context
  <1>3. d.pc = "route" /\ d.attempt = 1 /\ d.response = c.response
    BY <1>1 DEF live_upsert, upsert, Context
  <1>4. \/ d.record = Unpublished
        \/ d.record.outcome = "in_flight" /\ d.record.attempts = <<>>
    BY <1>1 DEF live_upsert, upsert, build_live_record_from_context, Context
  <1> HIDE DEF d
  <1>5. 1 \in AttemptNumbers
    BY BoundsAssumption, SMTT(30) DEF AttemptNumbers
  <1>6. /\ d.record.outcome \in {"unpublished", "in_flight"}
        /\ d.record.outcome = "in_flight" => Len(d.record.attempts) = 0
    BY <1>4, SMTT(30) DEF Unpublished
  <1>7. AInv(d)
    BY <1>1, <1>2, <1>3, <1>5, <1>6, NewAccount
  <1> QED
    BY <1>7 DEF d

\* A request under way has its captures for the attempts it can still make.
LEMMA RouteFacts ==
  ASSUME NEW c, CInv(c, FALSE), AInv(c), c.pc = "route"
  PROVE  /\ c \in Context /\ Active(c) /\ c.attempt \in AttemptNumbers
         /\ c.labels_backend \in Backends /\ c.captures[c.attempt] = None
         /\ c.current_attempt = NoAttempt
  BY SendingFacts, ActiveFacts DEF AInv, Captured

\* The body could not be rewritten for the backend: nothing was sent.
LEMMA RewriteFailedAccount ==
  ASSUME NEW c, CInv(c, FALSE), AInv(c), c.pc = "route"
  PROVE  AInv(respond(record_backend_attempt(c), "error", 400))
  <1> DEFINE d == respond(record_backend_attempt(c), "error", 400)
  <1>1. c \in Context /\ Active(c)
    BY RouteFacts
  <1>2. /\ d.pc = "done" /\ d.sent = c.sent /\ d.cfg = c.cfg
        /\ d.backend_attempts = c.backend_attempts /\ d.health = c.health
        /\ d.captures = c.captures /\ d.record = c.record /\ d.response.kind = "error"
    BY <1>1, SMTT(30) DEF respond, record_backend_attempt, Context
  <1> HIDE DEF d
  <1>3. SameCaptures(c, d)
    BY <1>2 DEF SameCaptures
  <1>4. AInv(d)
    BY <1>1, <1>2, <1>3, QuietAccount
  <1> QED
    BY <1>4 DEF d

\* A shutdown while the response is awaited or read.
LEMMA ShutdownAccount ==
  ASSUME NEW c, CInv(c, FALSE), AInv(c), c.pc \in {"send", "buffer"}
  PROVE  AInv(respond(c, "error", 500))
  <1> DEFINE d == respond(c, "error", 500)
  <1>1. c \in Context /\ Active(c)
    BY DEF CInv, Active
  <1>2. /\ d.pc = "done" /\ d.sent = c.sent /\ d.cfg = c.cfg
        /\ d.backend_attempts = c.backend_attempts /\ d.health = c.health
        /\ d.captures = c.captures /\ d.record = c.record /\ d.response.kind = "error"
    BY <1>1, SMTT(30) DEF respond, Context
  <1> HIDE DEF d
  <1>3. SameCaptures(c, d)
    BY <1>2 DEF SameCaptures
  <1>4. AInv(d)
    BY <1>1, <1>2, <1>3, QuietAccount
  <1> QED
    BY <1>4 DEF d

\* The handler of a client that has gone is dropped.
LEMMA HandlerDroppedAccount ==
  ASSUME NEW c, CInv(c, FALSE), AInv(c), c.pc \in {"send", "error_body", "buffer"}
  PROVE  AInv([c EXCEPT !.pc = "done"])
  <1> DEFINE d == [c EXCEPT !.pc = "done"]
  <1>1. c \in Context /\ Active(c) /\ c.response.kind = "none"
    BY DEF CInv, Active, Observed
  <1>2. /\ d.pc = "done" /\ d.sent = c.sent /\ d.cfg = c.cfg
        /\ d.backend_attempts = c.backend_attempts /\ d.health = c.health
        /\ d.captures = c.captures /\ d.record = c.record /\ d.response = c.response
    BY <1>1 DEF Context
  <1> HIDE DEF d
  <1>3. SameCaptures(c, d)
    BY <1>2 DEF SameCaptures
  <1>4. AInv(d)
    BY <1>1, <1>2, <1>3, QuietAccount
  <1> QED
    BY <1>4 DEF d

\* prepare_outbound makes the capture of the attempt, keeps it for a failure, or
\* makes none; the attempt is told.
LEMMA PrepareSlots ==
  ASSUME NEW c \in Context, NEW written \in BOOLEAN, c.attempt \in AttemptNumbers,
         c.captures[c.attempt] = None, c.current_attempt = NoAttempt,
         NEW d, d = prepare_outbound(c, written)
  PROVE  /\ Slots(d) /\ SameCaptures(c, d) /\ d.attempt = c.attempt
         /\ d.attempt_record.debug_capture_id = d.debug_capture
         /\ c.cfg.debug_capture = "failures" => d.debug_capture = 0
         /\ d.backend_attempts_total = Append(c.backend_attempts_total, c.labels_backend)
         /\ d.pc = c.pc /\ d.retried_attempts = c.retried_attempts
  <1>1. /\ DOMAIN c.captures = AttemptNumbers /\ 0 \notin AttemptNumbers
        /\ c.cfg.debug_capture \in {"off", "all", "failures"}
    BY SMTT(30) DEF Context, AttemptNumbers, Config
  <1>2. /\ d.attempt = c.attempt /\ d.pc = c.pc /\ d.retried_attempts = c.retried_attempts
        /\ d.backend_attempts_total = Append(c.backend_attempts_total, c.labels_backend)
        /\ d.attempt_record.debug_capture_id = d.debug_capture
    BY <1>1, SMTT(30)
       DEF prepare_outbound, record_backend_attempt, capture, live_upsert, upsert, Context
  <1>3. CASE c.cfg.debug_capture = "off"
    <2>1. d.debug_capture = 0 /\ d.pending_debug_capture = 0 /\ d.captures = c.captures
      BY <1>3 DEF prepare_outbound, record_backend_attempt, live_upsert, upsert, Context
    <2> QED
      BY <1>2, <1>3, <2>1 DEF Slots, SameCaptures
  <1>4. CASE c.cfg.debug_capture = "failures"
    <2>1. /\ d.debug_capture = 0 /\ d.pending_debug_capture = c.attempt
          /\ d.captures = c.captures
      BY <1>4 DEF prepare_outbound, record_backend_attempt, live_upsert, upsert, Context
    <2> QED
      BY <1>2, <2>1 DEF Slots, SameCaptures
  <1>5. CASE c.cfg.debug_capture = "all"
    <2>1. /\ d.debug_capture = IF written THEN c.attempt ELSE 0
          /\ d.pending_debug_capture = 0
          /\ d.captures = IF written THEN [c.captures EXCEPT ![c.attempt] = "sent_to_upstream"]
                          ELSE c.captures
      <3>1. PICK b : b = record_backend_attempt(c)
        OBVIOUS
      <3>2. /\ b.captures = c.captures /\ DOMAIN b = DOMAIN c
            /\ {"debug_capture", "pending_debug_capture", "captures"} \subseteq DOMAIN c
        BY <3>1 DEF record_backend_attempt, Context
      <3>3. PICK e : e = [capture(b, c.attempt, written) EXCEPT !.pending_debug_capture = 0]
        OBVIOUS
      <3>4. PICK a : d = live_upsert([e EXCEPT !.attempt_record = a])
        BY <1>5, <3>1, <3>3 DEF prepare_outbound
      <3>5. /\ e.debug_capture = IF written THEN c.attempt ELSE 0
            /\ e.pending_debug_capture = 0
            /\ e.captures = IF written THEN [c.captures EXCEPT ![c.attempt] = "sent_to_upstream"]
                            ELSE c.captures
        BY <3>2, <3>3 DEF capture
      <3>6. DOMAIN e = DOMAIN c
        BY <3>2, <3>3 DEF capture
      <3>7. /\ d.debug_capture = e.debug_capture /\ d.captures = e.captures
            /\ d.pending_debug_capture = e.pending_debug_capture
        BY <3>2, <3>4, <3>6 DEF live_upsert, upsert
      <3> QED
        BY <3>5, <3>7
    <2> QED
      BY <1>1, <1>2, <1>5, <2>1 DEF Slots, SameCaptures
  <1> QED
    BY <1>1, <1>2, <1>3, <1>4, <1>5

\* A shutdown after the attempt was prepared, before it is sent.
LEMMA PrepareShutdownAccount ==
  ASSUME NEW c, CInv(c, FALSE), AInv(c), c.pc = "route", NEW written \in BOOLEAN
  PROVE  AInv(respond(prepare_outbound(c, written), "error", 500))
  <1>1. PICK e : e = prepare_outbound(c, written)
    OBVIOUS
  <1> DEFINE d == respond(e, "error", 500)
  <1>2. /\ c \in Context /\ Active(c) /\ c.attempt \in AttemptNumbers
        /\ c.captures[c.attempt] = None /\ c.current_attempt = NoAttempt
    BY RouteFacts
  <1>3. SameCaptures(c, e)
    BY <1>1, <1>2, PrepareSlots
  <1>4. /\ Changes(c, e, CaptureFields \cup {"backend_attempts_total", "record"})
        /\ ~c.cfg.inspector => e.record = Unpublished
        /\ c.cfg.inspector => /\ e.record.outcome = "in_flight"
                              /\ Len(e.record.attempts) = c.attempt - 1
    BY <1>1, Prepared
  <1>5. /\ e \in Context /\ e.sent = c.sent /\ e.cfg = c.cfg
        /\ e.backend_attempts = c.backend_attempts /\ e.health = c.health
    BY <1>4 DEF Changes, Keeps, Fields, CaptureFields
  <1>a. e \in Context
    BY <1>5
  <1>6. /\ d.pc = "done" /\ d.sent = e.sent /\ d.cfg = e.cfg
        /\ d.backend_attempts = e.backend_attempts /\ d.health = e.health
        /\ d.captures = e.captures /\ d.record = e.record /\ d.response.kind = "error"
    BY <1>a, SMTT(30) DEF respond, Context
  <1>7. /\ e.record.outcome = c.record.outcome
        /\ Len(e.record.attempts) = Len(c.record.attempts)
    BY <1>4, SendingFacts
  <1> HIDE DEF d
  <1>8. SameCaptures(c, d)
    BY <1>3, <1>6 DEF SameCaptures
  <1>9. AInv(d)
    BY <1>2, <1>5, <1>6, <1>7, <1>8, QuietAccount
  <1> QED
    BY <1>1, <1>9 DEF d

\* The record of a request under way lists what was sent, but for the attempt
\* whose headers are awaited.
LEMMA OpenAccounts ==
  ASSUME NEW d, CInv(d, FALSE), Active(d), d.retried_attempts = d.backend_attempts,
         d.sent = Len(d.backend_attempts_total)
  PROVE  Accounts(d)
  <1>1. d.attempt \in Nat /\ d.attempt > 0
    BY ActiveFacts DEF CInv, Underway
  <1>2. /\ d.sent = IF d.pc = "route" THEN d.attempt - 1 ELSE d.attempt
        /\ d.pc = "route" => d.current_attempt = NoAttempt
    BY DEF CInv, Underway
  <1>3. d.pc # "route" => \/ d.current_attempt = NoAttempt
                          \/ d.current_attempt # NoAttempt
    OBVIOUS
  <1>4. d.record.outcome = "in_flight" =>
          Len(d.record.attempts) = IF d.current_attempt = NoAttempt
                                   THEN d.attempt - 1 ELSE d.attempt
    BY SMTT(30) DEF CInv, Recorded, Unpublished
  <1>5. d.record.outcome = "in_flight" => /\ Len(d.record.attempts) <= d.sent
                                          /\ d.sent <= Len(d.record.attempts) + 1
    <2>1. CASE d.current_attempt = NoAttempt
      BY <1>1, <1>2, <1>4, <2>1, SMTT(30)
    <2>2. CASE d.current_attempt # NoAttempt
      BY <1>1, <1>2, <1>4, <2>2, SMTT(30)
    <2> QED
      BY <2>1, <2>2
  <1>6. ListsEveryAttempt(d)
    BY OpenRecord DEF ListsEveryAttempt
  <1> QED
    BY <1>5, <1>6 DEF Accounts

\* A request that goes on with the same attempt.
LEMMA OngoingAccount ==
  ASSUME NEW c, NEW d, CInv(c, FALSE), Active(c), AInv(c), CInv(d, FALSE), Active(d),
         d.pc # "route", d.attempt = c.attempt, d.cfg = c.cfg,
         d.backend_attempts = c.backend_attempts, d.retried_attempts = c.retried_attempts,
         d.health = c.health, d.sent = Len(d.backend_attempts_total),
         SameCaptures(c, d), Slots(d), Held(d).debug_capture_id = d.debug_capture,
         d.cfg.debug_capture = "failures" /\ d.pc # "error_body" => d.debug_capture = 0,
         Body(d)
  PROVE  AInv(d)
  <1>1. Accounts(d)
    BY OpenAccounts DEF AInv, Accounts
  <1>2. JudgesEveryAttempt(d)
    BY DEF AInv, JudgesEveryAttempt
  <1>3. CapturesMatch(d)
    BY SameMatch DEF AInv, Captured
  <1>4. \A n \in AttemptNumbers : n > d.attempt => d.captures[n] = None
    <2> SUFFICES ASSUME NEW n \in AttemptNumbers, n > c.attempt
                 PROVE  d.captures[n] = None
      OBVIOUS
    <2>0. c.attempt \in Nat
      BY ActiveFacts
    <2>1. n \in Nat /\ c.attempt \in Nat
      BY <2>0, BoundsAssumption, SMTT(30) DEF AttemptNumbers
    <2>2. n # c.attempt
      BY <2>1, SMTT(30)
    <2> QED
      BY <2>2 DEF SameCaptures, AInv, Captured
  <1>5. Captured(d)
    BY <1>3, <1>4 DEF Captured
  <1> QED
    BY <1>1, <1>2, <1>5 DEF AInv

\* The attempt is prepared and sent.
LEMMA PrepareOutboundAccount ==
  ASSUME NEW c, CInv(c, FALSE), AInv(c), c.pc = "route", NEW written \in BOOLEAN
  PROVE  AInv([prepare_outbound(c, written) EXCEPT !.pc = "send", !.sent = @ + 1])
  <1>1. PICK e : e = prepare_outbound(c, written)
    OBVIOUS
  <1> DEFINE d == [e EXCEPT !.pc = "send", !.sent = @ + 1]
  <1>2. /\ c \in Context /\ Active(c) /\ c.attempt \in AttemptNumbers
        /\ c.captures[c.attempt] = None /\ c.current_attempt = NoAttempt
        /\ c.labels_backend \in Backends
    BY RouteFacts
  <1>3. /\ Slots(e) /\ SameCaptures(c, e) /\ e.attempt = c.attempt
        /\ e.attempt_record.debug_capture_id = e.debug_capture
        /\ c.cfg.debug_capture = "failures" => e.debug_capture = 0
        /\ e.backend_attempts_total = Append(c.backend_attempts_total, c.labels_backend)
    BY <1>1, <1>2, PrepareSlots
  <1>4. Changes(c, e, CaptureFields \cup {"backend_attempts_total", "record"})
    BY <1>1, Prepared
  <1>5. /\ e \in Context /\ e.sent = c.sent /\ e.cfg = c.cfg
        /\ e.backend_attempts = c.backend_attempts /\ e.health = c.health
        /\ e.retried_attempts = c.retried_attempts /\ e.response = c.response
        /\ e.error_bytes = c.error_bytes /\ e.received_bytes = c.received_bytes
    BY <1>4 DEF Changes, Keeps, Fields, CaptureFields
  <1>a. e \in Context
    BY <1>5
  <1>6. /\ d.pc = "send" /\ d.sent = e.sent + 1 /\ d.cfg = e.cfg
        /\ d.backend_attempts = e.backend_attempts /\ d.health = e.health
        /\ d.captures = e.captures /\ d.retried_attempts = e.retried_attempts
        /\ d.attempt = e.attempt /\ d.attempt_record = e.attempt_record
    BY <1>a DEF Context
  <1>7. /\ d.debug_capture = e.debug_capture
        /\ d.pending_debug_capture = e.pending_debug_capture
        /\ d.backend_attempts_total = e.backend_attempts_total /\ d.response = e.response
        /\ d.error_bytes = e.error_bytes /\ d.received_bytes = e.received_bytes
    BY <1>a DEF Context
  <1>8. CInv(d, FALSE)
    BY <1>1, PrepareOutboundStep DEF Safe
  <1> HIDE DEF d
  <1>9. SameCaptures(c, d) /\ Slots(d) /\ Held(d).debug_capture_id = d.debug_capture
    BY <1>3, <1>6, <1>7 DEF SameCaptures, Slots, Held
  <1>10. d.sent = Len(d.backend_attempts_total)
    <2>1. c.backend_attempts_total \in Seq(Backends) /\ c.sent = Len(c.backend_attempts_total)
      BY <1>2, ActiveFacts DEF AInv, Accounts
    <2> QED
      BY <1>2, <1>3, <1>5, <1>6, <1>7, <2>1, SMTT(30)
  <1>11. Body(d)
    <2>1. c.response.kind = "none" /\ c.error_bytes = 0 /\ c.received_bytes = 0
      BY SendingFacts DEF AInv, Body
    <2> QED
      BY <1>5, <1>6, <1>7, <2>1 DEF Body, ForwardsWhole
  <1>12. Active(d) /\ d.pc # "route"
    BY <1>6 DEF Active
  <1>13. AInv(d)
    BY <1>2, <1>3, <1>5, <1>6, <1>7, <1>8, <1>9, <1>10, <1>11, <1>12, OngoingAccount
  <1> QED
    BY <1>1, <1>13 DEF d

\* What a request holds whose headers are awaited.
LEMMA SendFacts ==
  ASSUME NEW c, CInv(c, FALSE), AInv(c), c.pc = "send"
  PROVE  /\ c \in Context /\ Active(c) /\ c.pc # "route" /\ c.attempt \in AttemptNumbers
         /\ c.attempt \in Nat /\ c.labels_backend \in Backends
         /\ c.attempt_record \in AttemptRecord
         /\ c.attempt_record.debug_capture_id = c.debug_capture
         /\ Slots(c) /\ c.current_attempt = NoAttempt
         /\ c.cfg.debug_capture = "failures" => c.debug_capture = 0
         /\ c.error_bytes = 0 /\ c.received_bytes = 0 /\ c.response.kind = "none"
  <1>1. Active(c) /\ c.current_attempt = NoAttempt /\ c.response.kind = "none"
    BY SendingFacts
  <1>2. /\ c \in Context /\ c.attempt \in AttemptNumbers /\ c.attempt \in Nat
        /\ c.labels_backend \in Backends
    BY <1>1, ActiveFacts
  <1>3. c.attempt_record \in AttemptRecord
    BY DEF CInv, Underway, IsCurrent
  <1>4. /\ c.attempt_record.debug_capture_id = c.debug_capture /\ Slots(c)
        /\ c.cfg.debug_capture = "failures" => c.debug_capture = 0
    BY DEF AInv, Captured, Held
  <1>5. c.error_bytes = 0 /\ c.received_bytes = 0
    BY DEF AInv, Body
  <1> QED
    BY <1>1, <1>2, <1>3, <1>4, <1>5

\* e is the context c with a capture of its failure, if one was made.
Ensures(c, e) ==
  /\ Changes(c, e, CaptureFields) /\ e \in Context
  /\ Slots(e) /\ SameCaptures(c, e)
  /\ e.attempt_record \in AttemptRecord
  /\ e.attempt_record.debug_capture_id = e.debug_capture
  /\ e.backend_attempts = c.backend_attempts /\ e.health = c.health
  /\ e.labels_backend = c.labels_backend /\ e.attempt = c.attempt /\ e.cfg = c.cfg
  /\ e.retried_attempts = c.retried_attempts
  /\ e.attempt \in AttemptNumbers /\ e.labels_backend \in Backends

\* The request once a capture of its failure may have been made.
LEMMA SendEnsured ==
  ASSUME NEW c, CInv(c, FALSE), AInv(c), c.pc = "send", NEW written \in BOOLEAN,
         NEW e, e = ensure_failure_debug_capture(c, written)
  PROVE  Ensures(c, e)
  <1>1. /\ c \in Context /\ c.attempt \in AttemptNumbers /\ Slots(c)
        /\ c.attempt_record \in AttemptRecord /\ c.labels_backend \in Backends
    BY SendFacts
  <1>2. /\ Changes(c, e, CaptureFields) /\ Slots(e) /\ SameCaptures(c, e)
        /\ e.attempt_record \in AttemptRecord
        /\ e.attempt_record.debug_capture_id = e.debug_capture
    BY <1>1, EnsuredAttempt
  <1>3. /\ e \in Context
        /\ e.backend_attempts = c.backend_attempts /\ e.health = c.health
        /\ e.labels_backend = c.labels_backend /\ e.attempt = c.attempt /\ e.cfg = c.cfg
        /\ e.retried_attempts = c.retried_attempts
    BY <1>2 DEF Changes, Keeps, Fields, CaptureFields
  <1> QED
    BY <1>1, <1>2, <1>3 DEF Ensures

\* The last attempt failed before its headers came.
LEMMA SendFailedAccount ==
  ASSUME JudgedKept, NEW c, CInv(c, FALSE), AInv(c), c.pc = "send",
         NEW written \in BOOLEAN, NEW kind
  PROVE  AInv(record_final_failure(ensure_failure_debug_capture(c, written), kind))
  <1>1. PICK e : e = ensure_failure_debug_capture(c, written)
    OBVIOUS
  <1>2. PICK d : d = record_final_failure(e, kind)
    OBVIOUS
  <1>3. /\ Changes(c, e, CaptureFields) /\ e \in Context
        /\ Slots(e) /\ SameCaptures(c, e)
        /\ e.attempt_record \in AttemptRecord
        /\ e.attempt_record.debug_capture_id = e.debug_capture
        /\ e.backend_attempts = c.backend_attempts /\ e.health = c.health
        /\ e.labels_backend = c.labels_backend /\ e.attempt = c.attempt /\ e.cfg = c.cfg
        /\ e.retried_attempts = c.retried_attempts
        /\ e.attempt \in AttemptNumbers /\ e.labels_backend \in Backends
    <2>1. Ensures(c, e)
      BY <1>1, SendEnsured
    <2> QED
      BY <2>1 DEF Ensures
  <1>4. (\E b : Tells(e, d, b)) /\ d.response.kind = "error"
    BY <1>2, <1>3, FinalFailureTells
  <1>5. \E b : Tells(c, d, b)
    BY <1>3, <1>4, TellsAfter
  <1>6. CInv(d, FALSE)
    BY <1>1, <1>2, SendFailedStep DEF Safe
  <1>7. Changes(e, d, EndFields) /\ d.pc = "done"
    <2>1. e.requests_total = <<>>
      BY <1>1, CapturedFacts
    <2> QED
      BY <1>2, <1>3, <2>1, FinalFailureEnds DEF Ended
  <1>8. /\ d.cfg = c.cfg /\ d.candidates = c.candidates
        /\ d.backend_attempts_total = c.backend_attempts_total
    BY <1>3, <1>7 DEF Changes, Keeps, Fields, EndFields, CaptureFields
  <1>9. Active(c) /\ c.pc # "route"
    BY SendFacts
  <1>10. ForwardsWhole(d)
    BY <1>4 DEF ForwardsWhole
  <1>11. AInv(d)
    BY <1>5, <1>6, <1>7, <1>8, <1>9, <1>10, EndAccount
  <1> QED
    BY <1>1, <1>2, <1>11

\* What record_retry tells of the attempt that failed.
LEMMA RetryTells ==
  ASSUME NEW c \in Context, NEW kind, c.labels_backend \in Backends,
         c.attempt \in AttemptNumbers, Slots(c), c.attempt_record \in AttemptRecord,
         c.attempt_record.debug_capture_id = c.debug_capture, c.current_attempt = NoAttempt,
         NEW d, d = record_retry(c, kind)
  PROVE  \E b \in AttemptRecord :
           /\ d.backend_attempts = Append(c.backend_attempts, b)
           /\ d.retried_attempts = Append(c.retried_attempts, b)
           /\ TellsHealth(c, d, b) /\ TellsCapture(c, d, b)
  <1> DEFINE status == client_status(kind)
             outcome == failure_outcome(kind)
             a == c.attempt_record
             ok == FALSE
             b == finish(a, status, outcome)
  <1>1. /\ d.health = Append(c.health, [backend |-> c.labels_backend, ok |-> ok,
                                        status |-> status])
        /\ d.backend_attempts = Append(c.backend_attempts, b)
        /\ d.retried_attempts = Append(c.retried_attempts, b)
    BY DEF record_retry, record_retried_attempt, apply_route, live_upsert, upsert,
           record_failure, record_health, record_outcome, Context
  <1>2. d.captures = record_outcome(c, outcome).captures
    BY SMTT(30) DEF record_retry, record_retried_attempt, apply_route, live_upsert, upsert,
           record_failure, record_health, record_outcome, Context
  <1>3. /\ status \in Nat /\ outcome \in RR!AttemptOutcomes
        /\ outcome \notin {"completed", "stream_incomplete"}
        /\ ok \in BOOLEAN /\ (ok <=> outcome = "completed")
        /\ a \in AttemptRecord /\ a.debug_capture_id = c.debug_capture
    BY FailureKinds DEF failure_outcome
  <1> HIDE DEF status, outcome, a, ok
  <1>4. /\ b \in AttemptRecord /\ b.outcome = outcome
        /\ b.debug_capture_id = c.debug_capture /\ b \in Judged
    <2>1. IsFinished(b, a, status, outcome)
      BY <1>3, Finished
    <2> QED
      BY <1>3, <2>1 DEF IsFinished
  <1> HIDE DEF b
  <1>5. TellsHealth(c, d, b)
    BY <1>1, <1>3, <1>4, HealthTold
  <1>6. TellsCapture(c, d, b)
    BY <1>2, <1>3, <1>4, OutcomeTold
  <1> QED
    BY <1>1, <1>4, <1>5, <1>6

\* A retry: the attempt that failed is accounted for, and no capture is ready
\* for the one to come.
LEMMA SendRetryAccount ==
  ASSUME JudgedKept, NEW c, CInv(c, FALSE), AInv(c), c.pc = "send", c.fallback_routes # <<>>,
         NEW written \in BOOLEAN, NEW kind
  PROVE  AInv(record_retry(ensure_failure_debug_capture(c, written), kind))
  <1>1. PICK e : e = ensure_failure_debug_capture(c, written)
    OBVIOUS
  <1>2. PICK d : d = record_retry(e, kind)
    OBVIOUS
  <1>3. /\ Changes(c, e, CaptureFields) /\ e \in Context
        /\ Slots(e) /\ SameCaptures(c, e)
        /\ e.attempt_record \in AttemptRecord
        /\ e.attempt_record.debug_capture_id = e.debug_capture
        /\ e.backend_attempts = c.backend_attempts /\ e.health = c.health
        /\ e.labels_backend = c.labels_backend /\ e.attempt = c.attempt /\ e.cfg = c.cfg
        /\ e.retried_attempts = c.retried_attempts
        /\ e.attempt \in AttemptNumbers /\ e.labels_backend \in Backends
    <2>1. Ensures(c, e)
      BY <1>1, SendEnsured
    <2> QED
      BY <2>1 DEF Ensures
  <1>4. e.current_attempt = NoAttempt
    BY <1>1, CapturedFacts
  <1>5. PICK b \in AttemptRecord :
             /\ d.backend_attempts = Append(e.backend_attempts, b)
             /\ d.retried_attempts = Append(e.retried_attempts, b)
             /\ TellsHealth(e, d, b) /\ TellsCapture(e, d, b)
    BY <1>2, <1>3, <1>4, RetryTells
  <1>6. /\ d.backend_attempts = Append(c.backend_attempts, b)
        /\ d.retried_attempts = Append(c.retried_attempts, b)
        /\ TellsHealth(c, d, b)
    BY <1>3, <1>5 DEF TellsHealth
  <1>7. TellsCapture(c, d, b)
    BY <1>3, <1>5 DEF TellsCapture, SameCaptures
  <1>8. CInv(d, FALSE)
    BY <1>1, <1>2, SendRetryStep DEF Safe
  <1>a. e \in Context
    BY <1>3
  <1>9. /\ d.pc = "route" /\ d.attempt = e.attempt + 1 /\ d.cfg = e.cfg
        /\ d.candidates = e.candidates /\ d.sent = e.sent
        /\ d.backend_attempts_total = e.backend_attempts_total
        /\ d.error_bytes = e.error_bytes /\ d.received_bytes = e.received_bytes
        /\ d.response = e.response
    BY <1>2, <1>a, SMTT(30)
       DEF record_retry, record_retried_attempt, apply_route, live_upsert, upsert,
           record_failure, record_health, record_outcome, Context
  <1>10. /\ e.candidates = c.candidates /\ e.sent = c.sent /\ e.response = c.response
         /\ e.backend_attempts_total = c.backend_attempts_total
         /\ e.error_bytes = c.error_bytes /\ e.received_bytes = c.received_bytes
    BY <1>3 DEF Changes, Keeps, Fields, CaptureFields
  <1>11. /\ c \in Context /\ Active(c) /\ c.attempt \in Nat
         /\ c.error_bytes = 0 /\ c.received_bytes = 0 /\ c.response.kind = "none"
    BY SendFacts
  <1>12. Active(d)
    BY <1>9 DEF Active
  <1>13. Accounts(d)
    BY <1>6, <1>8, <1>9, <1>10, <1>11, <1>12, OpenAccounts DEF AInv, Accounts
  <1>14. JudgesEveryAttempt(d)
    <2>1. Listed(d)
      BY <1>8 DEF CInv
    <2>2. b.backend = c.labels_backend
      BY <1>6, <1>9, <1>10, <1>11, <2>1, ToldBackend
    <2> QED
      BY <1>6, <1>11, <2>2, JudgesMore DEF AInv
  <1>15. CapturesMatch(d)
    BY <1>3, <1>6, <1>7, <1>9, <1>11, CapturesMore DEF AInv, Captured
  <1>16. \A n \in AttemptNumbers : n >= d.attempt => d.captures[n] = None
    <2> SUFFICES ASSUME NEW n \in AttemptNumbers, n >= d.attempt
                 PROVE  d.captures[n] = None
      OBVIOUS
    <2>1. n \in Nat /\ d.attempt = c.attempt + 1
      BY <1>3, <1>9, BoundsAssumption, SMTT(30) DEF AttemptNumbers
    <2>2. n > c.attempt /\ n # c.attempt
      BY <1>11, <2>1, SMTT(30)
    <2>3. d.captures[n] = c.captures[n]
      BY <1>7, <2>2 DEF TellsCapture, SameCaptures
    <2> QED
      BY <1>11, <2>2, <2>3 DEF AInv, Captured
  <1>17. d.attempt \in AttemptNumbers /\ d.attempt \in Nat
    BY <1>8, <1>12, ActiveFacts
  <1>18. /\ d.captures[d.attempt] = None
         /\ \A n \in AttemptNumbers : n > d.attempt => d.captures[n] = None
    <2>1. \A n \in AttemptNumbers : n \in Nat
      BY BoundsAssumption, SMTT(30) DEF AttemptNumbers
    <2> QED
      BY <1>16, <1>17, <2>1, SMTT(30)
  <1>19. Captured(d)
    BY <1>9, <1>15, <1>18 DEF Captured
  <1>20. Body(d)
    BY <1>9, <1>10, <1>11 DEF Body, ForwardsWhole
  <1>21. AInv(d)
    BY <1>13, <1>14, <1>19, <1>20 DEF AInv
  <1> QED
    BY <1>1, <1>2, <1>21

\* What stays of request c when the headers of a response make it e.
HasHeaders(c, e) ==
  /\ e \in Context /\ e.current_attempt \in AttemptRecord
  /\ e.current_attempt.debug_capture_id = e.debug_capture
  /\ Slots(e) /\ SameCaptures(c, e) /\ e.captures = c.captures
  /\ e.backend_attempts = c.backend_attempts /\ e.health = c.health
  /\ e.labels_backend = c.labels_backend /\ e.attempt = c.attempt /\ e.cfg = c.cfg
  /\ e.retried_attempts = c.retried_attempts
  /\ e.sent = c.sent /\ e.backend_attempts_total = c.backend_attempts_total
  /\ e.debug_capture = c.debug_capture /\ e.response = c.response
  /\ e.error_bytes = c.error_bytes /\ e.received_bytes = c.received_bytes
  /\ e.candidates = c.candidates

\* The request once the headers of the response have come.
LEMMA HeadersAccount ==
  ASSUME NEW c, CInv(c, FALSE), AInv(c), c.pc = "send", NEW status \in Nat
  PROVE  HasHeaders(c, headers_received(c, status))
  <1> DEFINE e == headers_received(c, status)
  <1>1. /\ c \in Context /\ c.attempt_record \in AttemptRecord
        /\ c.attempt_record.debug_capture_id = c.debug_capture /\ Slots(c)
    BY SendFacts
  <1>a. c \in Context
    BY <1>1
  <1>2. Changes(c, e, {"upstream_status", "current_attempt", "attempt_record", "record"})
    BY HeadersFacts
  <1>3. e.current_attempt = c.attempt_record
    BY <1>a DEF headers_received, live_upsert, upsert, Context
  <1> HIDE DEF e
  <1>4. /\ e \in Context /\ e.captures = c.captures
        /\ e.pending_debug_capture = c.pending_debug_capture
        /\ e.backend_attempts = c.backend_attempts /\ e.health = c.health
        /\ e.labels_backend = c.labels_backend /\ e.attempt = c.attempt /\ e.cfg = c.cfg
        /\ e.retried_attempts = c.retried_attempts
    BY <1>2 DEF Changes, Keeps, Fields
  <1>5. /\ e.sent = c.sent /\ e.backend_attempts_total = c.backend_attempts_total
        /\ e.debug_capture = c.debug_capture /\ e.response = c.response
        /\ e.error_bytes = c.error_bytes /\ e.received_bytes = c.received_bytes
        /\ e.candidates = c.candidates
    BY <1>2 DEF Changes, Keeps, Fields
  <1>6. Slots(e) /\ SameCaptures(c, e)
    BY <1>1, <1>4, <1>5 DEF Slots, SameCaptures
  <1>7. HasHeaders(c, e)
    BY <1>1, <1>3, <1>4, <1>5, <1>6 DEF HasHeaders
  <1> QED
    BY <1>7 DEF e

\* A response that is not a success ends the request, sanitized or forwarded.
LEMMA NonSuccessAccount ==
  ASSUME JudgedKept, NEW c, NEW e \in Context, CInv(c, FALSE), AInv(c), Active(c), c.pc # "route",
         SameCaptures(c, e), e.backend_attempts = c.backend_attempts, e.health = c.health,
         e.labels_backend = c.labels_backend, e.attempt = c.attempt, e.cfg = c.cfg,
         e.retried_attempts = c.retried_attempts, e.candidates = c.candidates,
         e.backend_attempts_total = c.backend_attempts_total, Slots(e),
         e.current_attempt \in AttemptRecord,
         e.current_attempt.debug_capture_id = e.debug_capture,
         NEW exposed \in BOOLEAN,
         exposed => /\ e.route.expose_backend_errors /\ e.upstream_ended
                    /\ e.received_bytes < ErrorBodyCap,
         CInv(record_non_success(e, exposed), FALSE)
  PROVE  AInv(record_non_success(e, exposed))
  <1>1. PICK d : d = record_non_success(e, exposed)
    OBVIOUS
  <1>2. c.attempt \in AttemptNumbers /\ c.labels_backend \in Backends
    BY ActiveFacts
  <1>3. /\ \E b : Tells(e, d, b)
        /\ d.response.kind = IF exposed THEN "forwarded" ELSE "error"
        /\ d.cfg.inspector => d.record.exposed = exposed
        /\ d.health[Len(d.health)].status = d.upstream_status
        /\ d.route = e.route /\ d.upstream_ended = e.upstream_ended
        /\ d.received_bytes = e.received_bytes
    BY <1>1, <1>2, NonSuccessTells, SMTT(30)
  <1>4. \E b : Tells(c, d, b)
    BY <1>3, TellsAfter
  <1>5. /\ d.pc = "done" /\ d.cfg = e.cfg /\ d.candidates = e.candidates
        /\ d.backend_attempts_total = e.backend_attempts_total
    BY <1>1, SMTT(30) DEF record_non_success, record_failure, record_health, record_outcome,
                record_request, record_final_attempt, record_inspector, upsert, respond, Context
  <1>6. ForwardsWhole(d)
    BY <1>3 DEF ForwardsWhole
  <1>7. AInv(d)
    BY <1>1, <1>4, <1>5, <1>6, EndAccount
  <1> QED
    BY <1>1, <1>7

\* The headers of a response that is not a success.
LEMMA SendNonSuccessAccount ==
  ASSUME JudgedKept, NEW c, CInv(c, FALSE), AInv(c), c.pc = "send", NEW status \in Nat,
         NEW written \in BOOLEAN
  PROVE  LET e == ensure_failure_debug_capture(headers_received(c, status), written)
         IN AInv([e EXCEPT !.pc = "error_body"]) /\ AInv(sanitize_upstream_error(e))
  <1>1. PICK g : g = headers_received(c, status)
    OBVIOUS
  <1>2. PICK e : e = ensure_failure_debug_capture(g, written)
    OBVIOUS
  <1>3. /\ g \in Context /\ g.current_attempt \in AttemptRecord
        /\ Slots(g) /\ g.captures = c.captures
        /\ g.backend_attempts = c.backend_attempts /\ g.health = c.health
        /\ g.labels_backend = c.labels_backend /\ g.attempt = c.attempt /\ g.cfg = c.cfg
        /\ g.retried_attempts = c.retried_attempts
        /\ g.sent = c.sent /\ g.backend_attempts_total = c.backend_attempts_total
        /\ g.response = c.response /\ g.candidates = c.candidates
        /\ g.error_bytes = c.error_bytes /\ g.received_bytes = c.received_bytes
    <2>1. HasHeaders(c, g)
      BY <1>1, HeadersAccount
    <2> QED
      BY <2>1 DEF HasHeaders
  <1>4. /\ Active(c) /\ c.pc # "route" /\ c.attempt \in AttemptNumbers
        /\ c.error_bytes = 0 /\ c.received_bytes = 0 /\ c.response.kind = "none"
    BY SendFacts
  <1>5. /\ Changes(g, e, CaptureFields) /\ Slots(e) /\ SameCaptures(g, e)
        /\ e.current_attempt \in AttemptRecord
        /\ e.current_attempt.debug_capture_id = e.debug_capture
    BY <1>2, <1>3, <1>4, EnsuredAttempt, SMTT(30)
  <1>6. /\ e \in Context /\ e.backend_attempts = c.backend_attempts /\ e.health = c.health
        /\ e.labels_backend = c.labels_backend /\ e.attempt = c.attempt /\ e.cfg = c.cfg
        /\ e.retried_attempts = c.retried_attempts /\ e.candidates = c.candidates
        /\ e.backend_attempts_total = c.backend_attempts_total /\ e.sent = c.sent
    BY <1>3, <1>5 DEF Changes, Keeps, Fields, CaptureFields
  <1>7. /\ e.response = c.response
        /\ e.error_bytes = c.error_bytes /\ e.received_bytes = c.received_bytes
    BY <1>3, <1>5 DEF Changes, Keeps, Fields, CaptureFields
  <1>8. SameCaptures(c, e)
    BY <1>3, <1>5 DEF SameCaptures
  <1>9. AInv(sanitize_upstream_error(e))
    <2>1. PICK exposed \in BOOLEAN : ~exposed /\ exposed = FALSE
      OBVIOUS
    <2>2. sanitize_upstream_error(e) = record_non_success(e, exposed)
      BY <2>1 DEF sanitize_upstream_error
    <2>3. CInv(record_non_success(e, exposed), FALSE)
      BY <1>1, <1>2, <2>2, SendNonSuccessStep DEF Safe
    <2>4. AInv(record_non_success(e, exposed))
      BY <1>4, <1>5, <1>6, <1>8, <2>1, <2>3, NonSuccessAccount
    <2> QED
      BY <2>2, <2>4
  <1>10. AInv([e EXCEPT !.pc = "error_body"])
    <2> DEFINE d == [e EXCEPT !.pc = "error_body"]
    <2>a. e \in Context
      BY <1>6
    <2>1. /\ d.pc = "error_body" /\ d.sent = e.sent /\ d.cfg = e.cfg
          /\ d.backend_attempts = e.backend_attempts /\ d.health = e.health
          /\ d.captures = e.captures /\ d.retried_attempts = e.retried_attempts
          /\ d.attempt = e.attempt /\ d.current_attempt = e.current_attempt
      BY <2>a DEF Context
    <2>2. /\ d.debug_capture = e.debug_capture
          /\ d.pending_debug_capture = e.pending_debug_capture
          /\ d.backend_attempts_total = e.backend_attempts_total /\ d.response = e.response
          /\ d.error_bytes = e.error_bytes /\ d.received_bytes = e.received_bytes
      BY <2>a DEF Context
    <2>3. CInv(d, FALSE)
      BY <1>1, <1>2, SendNonSuccessStep DEF Safe
    <2> HIDE DEF d
    <2>4. SameCaptures(c, d) /\ Slots(d) /\ Held(d).debug_capture_id = d.debug_capture
      BY <1>5, <1>8, <2>1, <2>2 DEF SameCaptures, Slots, Held
    <2>5. d.sent = Len(d.backend_attempts_total)
      BY <1>4, <1>6, <2>1, <2>2 DEF AInv, Accounts
    <2>6. Body(d)
      BY <1>4, <1>7, <2>1, <2>2, BoundsAssumption, SMTT(30) DEF Body, ForwardsWhole
    <2>7. Active(d) /\ d.pc # "route"
      BY <2>1 DEF Active
    <2>8. AInv(d)
      BY <1>4, <1>6, <2>1, <2>3, <2>4, <2>5, <2>6, <2>7, OngoingAccount
    <2> QED
      BY <2>8 DEF d
  <1> QED
    BY <1>1, <1>2, <1>9, <1>10

\* A success whose body is read before the client is answered.
LEMMA SendBufferedAccount ==
  ASSUME NEW c, CInv(c, FALSE), AInv(c), c.pc = "send", NEW status \in Nat
  PROVE  AInv([headers_received(c, status) EXCEPT !.pc = "buffer"])
  <1>1. PICK e : e = headers_received(c, status)
    OBVIOUS
  <1> DEFINE d == [e EXCEPT !.pc = "buffer"]
  <1>2. /\ e \in Context /\ e.current_attempt \in AttemptRecord
        /\ e.current_attempt.debug_capture_id = e.debug_capture
        /\ Slots(e) /\ SameCaptures(c, e)
        /\ e.backend_attempts = c.backend_attempts /\ e.health = c.health
        /\ e.attempt = c.attempt /\ e.cfg = c.cfg
        /\ e.retried_attempts = c.retried_attempts
        /\ e.sent = c.sent /\ e.backend_attempts_total = c.backend_attempts_total
        /\ e.debug_capture = c.debug_capture /\ e.response = c.response
    <2>1. HasHeaders(c, e)
      BY <1>1, HeadersAccount
    <2> QED
      BY <2>1 DEF HasHeaders
  <1>3. /\ Active(c) /\ c.response.kind = "none"
        /\ c.cfg.debug_capture = "failures" => c.debug_capture = 0
    BY SendFacts
  <1>a. e \in Context
    BY <1>2
  <1>4. /\ d.pc = "buffer" /\ d.sent = e.sent /\ d.cfg = e.cfg
        /\ d.backend_attempts = e.backend_attempts /\ d.health = e.health
        /\ d.captures = e.captures /\ d.retried_attempts = e.retried_attempts
        /\ d.attempt = e.attempt /\ d.current_attempt = e.current_attempt
    BY <1>a DEF Context
  <1>5. /\ d.debug_capture = e.debug_capture
        /\ d.pending_debug_capture = e.pending_debug_capture
        /\ d.backend_attempts_total = e.backend_attempts_total /\ d.response = e.response
    BY <1>a DEF Context
  <1>6. CInv(d, FALSE)
    BY <1>1, SendBufferedStep DEF Safe
  <1> HIDE DEF d
  <1>7. SameCaptures(c, d) /\ Slots(d) /\ Held(d).debug_capture_id = d.debug_capture
    BY <1>2, <1>4, <1>5 DEF SameCaptures, Slots, Held
  <1>8. d.sent = Len(d.backend_attempts_total)
    BY <1>2, <1>3, <1>4, <1>5 DEF AInv, Accounts
  <1>9. Body(d)
    BY <1>2, <1>3, <1>4, <1>5 DEF Body, ForwardsWhole
  <1>10. Active(d) /\ d.pc # "route"
    BY <1>4 DEF Active
  <1>11. AInv(d)
    BY <1>2, <1>3, <1>4, <1>5, <1>6, <1>7, <1>8, <1>9, <1>10, OngoingAccount
  <1> QED
    BY <1>1, <1>11 DEF d

\* A success that is streamed: the status goes out with the first bytes.
LEMMA SendStreamingAccount ==
  ASSUME NEW c, CInv(c, FALSE), AInv(c), c.pc = "send", NEW status \in Nat
  PROVE  AInv(streaming_response(headers_received(c, status)))
  <1>1. PICK e : e = headers_received(c, status)
    OBVIOUS
  <1>2. PICK d : d = streaming_response(e)
    OBVIOUS
  <1>3. /\ e \in Context /\ e.current_attempt \in AttemptRecord
        /\ e.current_attempt.debug_capture_id = e.debug_capture
        /\ Slots(e) /\ SameCaptures(c, e)
        /\ e.backend_attempts = c.backend_attempts /\ e.health = c.health
        /\ e.attempt = c.attempt /\ e.cfg = c.cfg
        /\ e.retried_attempts = c.retried_attempts
        /\ e.sent = c.sent /\ e.backend_attempts_total = c.backend_attempts_total
        /\ e.debug_capture = c.debug_capture
    <2>1. HasHeaders(c, e)
      BY <1>1, HeadersAccount
    <2> QED
      BY <2>1 DEF HasHeaders
  <1>4. /\ Active(c)
        /\ c.cfg.debug_capture = "failures" => c.debug_capture = 0
    BY SendFacts
  <1>a. e \in Context
    BY <1>3
  <1>5. /\ d.pc = "stream" /\ d.sent = e.sent /\ d.cfg = e.cfg
        /\ d.backend_attempts = e.backend_attempts /\ d.health = e.health
        /\ d.captures = e.captures /\ d.retried_attempts = e.retried_attempts
        /\ d.attempt = e.attempt /\ d.current_attempt = e.current_attempt
    BY <1>2, <1>a DEF streaming_response, record_request, Context
  <1>6. /\ d.debug_capture = e.debug_capture
        /\ d.pending_debug_capture = e.pending_debug_capture
        /\ d.backend_attempts_total = e.backend_attempts_total
        /\ d.response.kind = "stream"
    BY <1>2, <1>a DEF streaming_response, record_request, Context
  <1>7. CInv(d, FALSE)
    BY <1>1, <1>2, SendStreamingStep DEF Safe
  <1>8. SameCaptures(c, d) /\ Slots(d) /\ Held(d).debug_capture_id = d.debug_capture
    BY <1>3, <1>5, <1>6 DEF SameCaptures, Slots, Held
  <1>9. d.sent = Len(d.backend_attempts_total)
    BY <1>3, <1>4, <1>5, <1>6 DEF AInv, Accounts
  <1>10. Body(d)
    BY <1>5, <1>6 DEF Body, ForwardsWhole
  <1>11. Active(d) /\ d.pc # "route"
    BY <1>5 DEF Active
  <1>12. AInv(d)
    BY <1>3, <1>4, <1>5, <1>6, <1>7, <1>8, <1>9, <1>10, <1>11, OngoingAccount
  <1> QED
    BY <1>1, <1>2, <1>12

\* What a request holds that is reading a body.
LEMMA BodyFacts ==
  ASSUME NEW c, CInv(c, FALSE), AInv(c), c.pc \in {"error_body", "buffer", "stream"}
  PROVE  /\ c \in Context /\ Active(c) /\ c.pc # "route" /\ c.attempt \in AttemptNumbers
         /\ c.labels_backend \in Backends /\ Slots(c)
         /\ c.current_attempt \in AttemptRecord
         /\ c.current_attempt.debug_capture_id = c.debug_capture
         /\ c.cfg.debug_capture = "failures" /\ c.pc # "error_body" => c.debug_capture = 0
         /\ c.sent = Len(c.backend_attempts_total)
  <1>1. /\ c \in Context /\ Active(c) /\ c.pc # "route" /\ c.labels_backend \in Backends
        /\ c.current_attempt \in AttemptRecord
    BY ReadingFacts
  <1>2. c.attempt \in AttemptNumbers
    BY <1>1, ActiveFacts
  <1>3. /\ Slots(c) /\ c.current_attempt.debug_capture_id = c.debug_capture
        /\ c.cfg.debug_capture = "failures" /\ c.pc # "error_body" => c.debug_capture = 0
    BY DEF AInv, Captured, Held
  <1>4. c.sent = Len(c.backend_attempts_total)
    BY <1>1 DEF AInv, Accounts
  <1> QED
    BY <1>1, <1>2, <1>3, <1>4

\* What the end of a body leaves of the account of the request.
LEMMA ReadAccount ==
  ASSUME NEW c, NEW e, CInv(c, FALSE), AInv(c), c.pc \in {"error_body", "buffer"},
         Changes(c, e, ReadFields)
  PROVE  /\ e \in Context /\ SameCaptures(c, e) /\ Slots(e)
         /\ e.current_attempt \in AttemptRecord
         /\ e.current_attempt.debug_capture_id = e.debug_capture
         /\ e.debug_capture = c.debug_capture
         /\ e.backend_attempts = c.backend_attempts /\ e.health = c.health
         /\ e.labels_backend = c.labels_backend /\ e.attempt = c.attempt /\ e.cfg = c.cfg
         /\ e.retried_attempts = c.retried_attempts /\ e.candidates = c.candidates
         /\ e.backend_attempts_total = c.backend_attempts_total
         /\ e.pc = c.pc /\ e.sent = c.sent /\ e.response = c.response
  <1>1. /\ Slots(c) /\ c.current_attempt \in AttemptRecord
        /\ c.current_attempt.debug_capture_id = c.debug_capture
    BY BodyFacts
  <1>2. /\ e \in Context /\ e.captures = c.captures /\ e.current_attempt = c.current_attempt
        /\ e.debug_capture = c.debug_capture
        /\ e.pending_debug_capture = c.pending_debug_capture
        /\ e.backend_attempts = c.backend_attempts /\ e.health = c.health
        /\ e.labels_backend = c.labels_backend /\ e.attempt = c.attempt /\ e.cfg = c.cfg
    BY DEF Changes, Keeps, Fields, ReadFields
  <1>3. /\ e.retried_attempts = c.retried_attempts /\ e.candidates = c.candidates
        /\ e.backend_attempts_total = c.backend_attempts_total
        /\ e.pc = c.pc /\ e.sent = c.sent /\ e.response = c.response
    BY DEF Changes, Keeps, Fields, ReadFields
  <1>4. SameCaptures(c, e) /\ Slots(e)
    BY <1>1, <1>2 DEF SameCaptures, Slots
  <1> QED
    BY <1>1, <1>2, <1>3, <1>4

\* The error body is read, cut off or lost: what is forwarded is whole.
LEMMA ErrorBodyDoneAccount ==
  ASSUME JudgedKept, NEW c, NEW e, CInv(c, FALSE), AInv(c), c.pc = "error_body",
         Changes(c, e, ReadFields), NEW captured \in BOOLEAN,
         captured /\ ~e.truncated => e.upstream_ended /\ e.received_bytes < ErrorBodyCap
  PROVE  AInv(error_body_done(e, captured))
  <1>1. PICK exposed \in BOOLEAN :
          exposed <=> e.route.expose_backend_errors /\ captured /\ ~e.truncated
    <2>1. CASE e.route.expose_backend_errors /\ captured /\ ~e.truncated
      BY <2>1
    <2>2. CASE ~(e.route.expose_backend_errors /\ captured /\ ~e.truncated)
      BY <2>2
    <2> QED
      BY <2>1, <2>2
  <1>2. error_body_done(e, captured) = record_non_success(e, exposed)
    <2>1. CASE exposed
      <3>1. exposed = TRUE
        BY <2>1
      <3> QED
        BY <1>1, <2>1, <3>1 DEF error_body_done, forward_upstream_error
    <2>2. CASE ~exposed
      <3>1. exposed = FALSE
        BY <2>2
      <3> QED
        BY <1>1, <2>2, <3>1 DEF error_body_done, sanitize_upstream_error
    <2> QED
      BY <2>1, <2>2
  <1>3. CInv(record_non_success(e, exposed), FALSE)
    BY <1>2, ErrorBodyDoneStep DEF Safe
  <1>4. Active(c) /\ c.pc # "route"
    BY BodyFacts
  <1>5. /\ e \in Context /\ SameCaptures(c, e) /\ Slots(e)
        /\ e.current_attempt \in AttemptRecord
        /\ e.current_attempt.debug_capture_id = e.debug_capture
        /\ e.backend_attempts = c.backend_attempts /\ e.health = c.health
        /\ e.labels_backend = c.labels_backend /\ e.attempt = c.attempt /\ e.cfg = c.cfg
        /\ e.retried_attempts = c.retried_attempts /\ e.candidates = c.candidates
        /\ e.backend_attempts_total = c.backend_attempts_total
    BY ReadAccount
  <1>6. AInv(record_non_success(e, exposed))
    BY <1>1, <1>3, <1>4, <1>5, NonSuccessAccount
  <1> QED
    BY <1>2, <1>6

\* The end of the error body, and its loss.
LEMMA ErrorBodyEndAccount ==
  ASSUME JudgedKept, NEW c, CInv(c, FALSE), AInv(c), c.pc = "error_body"
  PROVE  /\ AInv(error_body_done([c EXCEPT !.upstream_ended = TRUE], TRUE))
         /\ AInv(error_body_done(c, FALSE))
  <1> DEFINE e == WithUpstreamEnded(c)
             yes == TRUE
             no == FALSE
  <1>1. c \in Context
    BY BodyFacts
  <1>2. /\ [c EXCEPT !.upstream_ended = TRUE] = e /\ yes \in BOOLEAN /\ no \in BOOLEAN /\ ~no
    BY DEF WithUpstreamEnded
  <1>3. e.upstream_ended /\ e.received_bytes = c.received_bytes
    BY <1>1 DEF WithUpstreamEnded, Context
  <1>4. Changes(c, e, ReadFields) /\ Changes(c, c, ReadFields)
    BY <1>1, SetUpstreamEnded, SMTT(60) DEF Changes, Keeps, ReadFields
  <1>5. c.received_bytes < ErrorBodyCap
    BY DEF AInv, Body
  <1> HIDE DEF e, yes, no
  <1>6. AInv(error_body_done(e, yes))
    BY <1>2, <1>3, <1>4, <1>5, ErrorBodyDoneAccount
  <1>7. AInv(error_body_done(c, no))
    BY <1>2, <1>4, ErrorBodyDoneAccount
  <1> QED
    BY <1>2, <1>6, <1>7 DEF yes, no

\* One chunk of the error body: the one that fills the buffer cuts it off.
LEMMA ErrorBodyChunkAccount ==
  ASSUME JudgedKept, NEW c, CInv(c, FALSE), AInv(c), c.pc = "error_body",
         NEW n \in 1..(ErrorBodyCap + 1),
         NEW full \in BOOLEAN, full <=> c.error_bytes + n >= ErrorBodyCap
  PROVE  LET read == [c EXCEPT !.error_bytes = IF full THEN ErrorBodyCap ELSE @ + n,
                               !.received_bytes = @ + n,
                               !.truncated = full]
         IN AInv(IF full THEN error_body_done(read, TRUE) ELSE read)
  <1> DEFINE read == [c EXCEPT !.error_bytes = IF full THEN ErrorBodyCap ELSE @ + n,
                               !.received_bytes = @ + n,
                               !.truncated = full]
             yes == TRUE
  <1>1. /\ c \in Context /\ Active(c) /\ c.pc # "route"
        /\ c.sent = Len(c.backend_attempts_total)
    BY BodyFacts
  <1>a. c \in Context
    BY <1>1
  <1>2. /\ read.error_bytes = IF full THEN ErrorBodyCap ELSE c.error_bytes + n
        /\ read.received_bytes = c.received_bytes + n /\ read.truncated = full
    BY <1>a DEF Context
  <1>3. Keeps(c, read, ReadFields)
    BY <1>a DEF Keeps, Fields, ReadFields, Context
  <1>4. /\ c.error_bytes \in Nat /\ c.received_bytes \in Nat /\ ErrorBodyCap \in Nat
        /\ c.error_bytes = c.received_bytes /\ n \in Nat
    BY <1>a, BoundsAssumption, SMTT(30) DEF Context, AInv, Body
  <1>5. Safe(c, IF full THEN error_body_done(read, TRUE) ELSE read)
    BY ErrorBodyChunkStep
  <1>6. read \in Context
    <2> DEFINE kept == IF full THEN ErrorBodyCap ELSE c.error_bytes + n
               received == c.received_bytes + n
    <2>1. kept \in 0..ErrorBodyCap /\ received \in Nat
      BY <1>4, SMTT(30)
    <2>2. read = WithErrorBytes(c, kept, received, full)
      BY <1>a DEF WithErrorBytes, Context
    <2> HIDE DEF kept, received
    <2>3. Changes(c, WithErrorBytes(c, kept, received, full),
                  {"error_bytes", "received_bytes", "truncated"})
      BY <1>a, <2>1, SetErrorBytes, SMTT(60)
    <2> QED
      BY <2>2, <2>3 DEF Changes
  <1>7. Changes(c, read, ReadFields)
    BY <1>3, <1>6 DEF Changes
  <1> HIDE DEF read
  <1>8. yes \in BOOLEAN
    OBVIOUS
  <1>9. CASE full
    <2>1. read.truncated
      BY <1>2, <1>9
    <2> HIDE DEF yes
    <2>2. AInv(error_body_done(read, yes))
      BY <1>7, <1>8, <2>1, ErrorBodyDoneAccount
    <2> QED
      BY <1>9, <2>2 DEF yes, read
  <1>10. CASE ~full
    <2>1. CInv(read, FALSE)
      BY <1>5, <1>10 DEF Safe
    <2>2. /\ SameCaptures(c, read) /\ Slots(read)
          /\ read.current_attempt.debug_capture_id = read.debug_capture
          /\ read.backend_attempts = c.backend_attempts /\ read.health = c.health
          /\ read.attempt = c.attempt /\ read.cfg = c.cfg
          /\ read.retried_attempts = c.retried_attempts
          /\ read.backend_attempts_total = c.backend_attempts_total
          /\ read.pc = c.pc /\ read.sent = c.sent /\ read.response = c.response
      BY <1>7, ReadAccount
    <2>3. /\ read.error_bytes = read.received_bytes
          /\ read.received_bytes < ErrorBodyCap
      BY <1>2, <1>4, <1>10, SMTT(30)
    <2>4. c.response.kind # "forwarded"
      <3>1. c.response.kind = "none"
        BY <1>1 DEF CInv, Observed
      <3> QED
        BY <3>1
    <2>5. Body(read)
      BY <2>2, <2>3, <2>4 DEF Body, ForwardsWhole
    <2>6. Active(read) /\ read.pc # "route" /\ Held(read) = read.current_attempt
      BY <2>2 DEF Active, Held
    <2>7. AInv(read)
      BY <1>1, <2>1, <2>2, <2>5, <2>6, OngoingAccount
    <2> QED
      BY <1>10, <2>7 DEF read
  <1> QED
    BY <1>9, <1>10

\* The end of a request whose context e at its last observation has the
\* account of c.
LEMMA FinishAccount ==
  ASSUME JudgedKept, NEW c, NEW e, NEW d, CInv(c, FALSE), AInv(c), Active(c), c.pc # "route",
         SameCaptures(c, e), e.backend_attempts = c.backend_attempts, e.health = c.health,
         e.labels_backend = c.labels_backend, e.attempt = c.attempt, e.cfg = c.cfg,
         e.retried_attempts = c.retried_attempts, e.candidates = c.candidates,
         e.backend_attempts_total = c.backend_attempts_total,
         \E b : Tells(e, d, b), CInv(d, FALSE), d.pc = "done", d.cfg = e.cfg,
         d.candidates = e.candidates,
         d.backend_attempts_total = e.backend_attempts_total,
         d.response.kind # "forwarded"
  PROVE  AInv(d)
  <1>1. \E b : Tells(c, d, b)
    BY TellsAfter
  <1>2. ForwardsWhole(d)
    BY DEF ForwardsWhole
  <1> QED
    BY <1>1, <1>2, EndAccount

\* A buffered body, read to its end.
LEMMA BufferedEndAccount ==
  ASSUME JudgedKept, NEW c, CInv(c, FALSE), AInv(c), c.pc = "buffer"
  PROVE  AInv(buffered_ok([c EXCEPT !.upstream_ended = TRUE]))
  <1>1. /\ c \in Context /\ Active(c) /\ c.pc # "route" /\ c.attempt \in AttemptNumbers
        /\ c.labels_backend \in Backends
        /\ c.cfg.debug_capture = "failures" => c.debug_capture = 0
    BY BodyFacts
  <1>2. PICK e : e = WithUpstreamEnded(c)
    OBVIOUS
  <1>3. Changes(c, e, ReadFields)
    BY <1>1, <1>2, SetUpstreamEnded, SMTT(60) DEF Changes, Keeps, ReadFields
  <1>4. PICK d : d = buffered_ok(e)
    OBVIOUS
  <1>5. /\ e \in Context /\ SameCaptures(c, e) /\ Slots(e)
        /\ e.current_attempt \in AttemptRecord
        /\ e.current_attempt.debug_capture_id = e.debug_capture
        /\ e.debug_capture = c.debug_capture
        /\ e.backend_attempts = c.backend_attempts /\ e.health = c.health
        /\ e.labels_backend = c.labels_backend /\ e.attempt = c.attempt /\ e.cfg = c.cfg
        /\ e.retried_attempts = c.retried_attempts /\ e.candidates = c.candidates
        /\ e.backend_attempts_total = c.backend_attempts_total
    BY <1>3, ReadAccount
  <1>a. e \in Context
    BY <1>5
  <1>6. (\E b : Tells(e, d, b)) /\ d.response.kind = "buffered"
    BY <1>1, <1>4, <1>5, BufferedOkTells
  <1>7. /\ d.pc = "done" /\ d.cfg = e.cfg /\ d.candidates = e.candidates
        /\ d.backend_attempts_total = e.backend_attempts_total
    BY <1>4, <1>a, SMTT(30) DEF buffered_ok, record_success, record_health, record_outcome,
         record_request, record_final_attempt, record_inspector, upsert, respond, Context
  <1>8. CInv(d, FALSE)
    <2>1. [c EXCEPT !.upstream_ended = TRUE] = e
      BY <1>2 DEF WithUpstreamEnded
    <2>2. Safe(c, buffered_ok([c EXCEPT !.upstream_ended = TRUE]))
      BY BufferedStep
    <2> QED
      BY <1>4, <2>1, <2>2 DEF Safe
  <1>9. AInv(d)
    BY <1>1, <1>5, <1>6, <1>7, <1>8, FinishAccount
  <1> QED
    BY <1>2, <1>4, <1>9 DEF WithUpstreamEnded

\* A buffered body that could not be read.
LEMMA BufferedFailedAccount ==
  ASSUME JudgedKept, NEW c, CInv(c, FALSE), AInv(c), c.pc = "buffer", NEW written \in BOOLEAN
  PROVE  AInv(buffered_failed(c, written))
  <1>1. /\ c \in Context /\ Active(c) /\ c.pc # "route" /\ c.attempt \in AttemptNumbers
        /\ c.labels_backend \in Backends /\ Slots(c) /\ c.current_attempt \in AttemptRecord
    BY BodyFacts
  <1>2. PICK d : d = buffered_failed(c, written)
    OBVIOUS
  <1>3. (\E b : Tells(c, d, b)) /\ d.response.kind = "error"
    BY <1>1, <1>2, BufferedFailedTells
  <1>4. Safe(c, d)
    BY <1>2, BufferedStep
  <1>5. CInv(d, FALSE)
    BY <1>4 DEF Safe
  <1>6. Changes(c, d, EndFields) /\ d.pc = "done"
    <2>1. c.requests_total = <<>>
      BY ReadingFacts
    <2> QED
      BY <1>1, <1>2, <2>1, BufferedFailedEnds DEF Ended
  <1>7. /\ d.cfg = c.cfg /\ d.candidates = c.candidates
        /\ d.backend_attempts_total = c.backend_attempts_total
    BY <1>6 DEF Changes, Keeps, Fields, EndFields, CaptureFields
  <1>8. AInv(d)
    BY <1>1, <1>3, <1>5, <1>6, <1>7, EndAccount DEF ForwardsWhole
  <1> QED
    BY <1>2, <1>8

\* A stream that is dropped, however it came to its end.
LEMMA StreamDropAccount ==
  ASSUME JudgedKept, NEW c, CInv(c, FALSE), AInv(c), c.pc = "stream", NEW written \in BOOLEAN
  PROVE  AInv(stream_dropped(c, written))
  <1>1. /\ c \in Context /\ Active(c) /\ c.pc # "route" /\ c.attempt \in AttemptNumbers
        /\ c.labels_backend \in Backends /\ Slots(c) /\ c.current_attempt \in AttemptRecord
        /\ c.current_attempt.debug_capture_id = c.debug_capture
        /\ c.cfg.debug_capture = "failures" => c.debug_capture = 0
    BY BodyFacts
  <1>2. PICK d : d = stream_dropped(c, written)
    OBVIOUS
  <1>3. (\E b : Tells(c, d, b)) /\ d.response = c.response
    BY <1>1, <1>2, StreamDroppedTells
  <1>4. CInv(d, FALSE)
    BY <1>2, StreamDropStep DEF Safe
  <1>5. Changes(c, d, EndFields) /\ d.pc = "done"
    <2>1. c.requests_total = <<c.response.status>>
      BY ReadingFacts
    <2> QED
      BY <1>1, <1>2, <2>1, StreamDroppedEnds DEF Ended
  <1>6. /\ d.cfg = c.cfg /\ d.candidates = c.candidates
        /\ d.backend_attempts_total = c.backend_attempts_total
    BY <1>5 DEF Changes, Keeps, Fields, EndFields, CaptureFields
  <1>7. ForwardsWhole(d)
    <2>1. c.response.kind = "stream"
      BY DEF AInv, Body
    <2> QED
      BY <1>3, <2>1 DEF ForwardsWhole
  <1>8. AInv(d)
    BY <1>1, <1>3, <1>4, <1>5, <1>6, <1>7, EndAccount
  <1> QED
    BY <1>2, <1>8

\* What a stream goes through before it is dropped leaves its account alone.
LEMMA StreamAccount ==
  ASSUME NEW c, NEW d, CInv(c, FALSE), AInv(c), c.pc = "stream", CInv(d, FALSE),
         Keeps(c, d, BodyFields)
  PROVE  AInv(d)
  <1>1. /\ Active(c) /\ Slots(c) /\ c.sent = Len(c.backend_attempts_total)
        /\ c.current_attempt.debug_capture_id = c.debug_capture
        /\ c.cfg.debug_capture = "failures" => c.debug_capture = 0
    BY BodyFacts
  <1>2. /\ d.pc = c.pc /\ d.attempt = c.attempt /\ d.cfg = c.cfg
        /\ d.backend_attempts = c.backend_attempts
        /\ d.retried_attempts = c.retried_attempts /\ d.health = c.health
        /\ d.sent = c.sent /\ d.backend_attempts_total = c.backend_attempts_total
    BY DEF Keeps, Fields, BodyFields
  <1>3. /\ d.captures = c.captures /\ d.current_attempt = c.current_attempt
        /\ d.debug_capture = c.debug_capture
        /\ d.pending_debug_capture = c.pending_debug_capture /\ d.response = c.response
    BY DEF Keeps, Fields, BodyFields
  <1>4. SameCaptures(c, d) /\ Slots(d) /\ Held(d).debug_capture_id = d.debug_capture
    BY <1>1, <1>2, <1>3 DEF SameCaptures, Slots, Held
  <1>5. Body(d)
    <2>1. c.response.kind = "stream"
      BY DEF AInv, Body
    <2> QED
      BY <1>2, <1>3, <2>1 DEF Body, ForwardsWhole
  <1>6. Active(d) /\ d.pc # "route"
    BY <1>2 DEF Active
  <1> QED
    BY <1>1, <1>2, <1>3, <1>4, <1>5, <1>6, OngoingAccount

\* A chunk of a stream.
LEMMA StreamChunkAccount ==
  ASSUME NEW c, CInv(c, FALSE), AInv(c), c.pc = "stream"
  PROVE  AInv([c EXCEPT !.client_bytes = TRUE])
  <1> DEFINE d == [c EXCEPT !.client_bytes = TRUE]
  <1>1. c \in Context
    BY BodyFacts
  <1>2. Keeps(c, d, BodyFields)
    BY <1>1 DEF Keeps, Fields, BodyFields, Context
  <1>3. CInv(d, FALSE)
    BY StreamChunkStep DEF Safe
  <1> HIDE DEF d
  <1>4. AInv(d)
    BY <1>2, <1>3, StreamAccount
  <1> QED
    BY <1>4 DEF d

\* An error of the upstream stream.
LEMMA StreamErrorAccount ==
  ASSUME NEW c, CInv(c, FALSE), AInv(c), c.pc = "stream", NEW kind \in UpstreamErrors
  PROVE  AInv([c EXCEPT !.stream_error_kind = kind,
                        !.stream_capture = IF @ = "open" THEN "error" ELSE @])
  <1> DEFINE d == [c EXCEPT !.stream_error_kind = kind,
                            !.stream_capture = IF @ = "open" THEN "error" ELSE @]
  <1>1. c \in Context
    BY BodyFacts
  <1>2. Keeps(c, d, BodyFields)
    BY <1>1 DEF Keeps, Fields, BodyFields, Context
  <1>3. CInv(d, FALSE)
    BY StreamErrorStep DEF Safe
  <1> HIDE DEF d
  <1>4. AInv(d)
    BY <1>2, <1>3, StreamAccount
  <1> QED
    BY <1>4 DEF d

\* The end of the upstream stream, and a shutdown that is taken for it.
LEMMA StreamEndAccount ==
  ASSUME NEW c, CInv(c, FALSE), AInv(c), c.pc = "stream"
  PROVE  /\ AInv(body_completed([c EXCEPT !.upstream_ended = TRUE]))
         /\ AInv(body_completed(c))
  <1> DEFINE d == body_completed([c EXCEPT !.upstream_ended = TRUE])
             e == body_completed(c)
  <1>1. c \in Context
    BY BodyFacts
  <1>2. Keeps(c, d, BodyFields)
    BY <1>1 DEF body_completed, Keeps, Fields, BodyFields, Context
  <1>3. Keeps(c, e, BodyFields)
    BY <1>1 DEF body_completed, Keeps, Fields, BodyFields, Context
  <1>4. CInv(d, FALSE) /\ CInv(e, FALSE)
    BY StreamEndStep DEF Safe
  <1> HIDE DEF d, e
  <1>5. AInv(d) /\ AInv(e)
    BY <1>2, <1>3, <1>4, StreamAccount
  <1> QED
    BY <1>5 DEF d, e

\* The drop of the store leaves the account of a request that has ended, or
\* not yet begun.
LEMMA StoreDropAccount ==
  ASSUME NEW c, CInv(c, FALSE), AInv(c), c.pc \in {"new", "done"}
  PROVE  AInv([c EXCEPT !.record = mark_record_interrupted(@)])
  <1> DEFINE d == [c EXCEPT !.record = mark_record_interrupted(@)]
  <1>1. c \in Context
    BY DEF CInv
  <1>2. c.record \in InspectorRecord
    BY <1>1 DEF Context
  <1>3. d.record = mark_record_interrupted(c.record)
    BY <1>1 DEF Context
  <1>4. /\ d.pc = c.pc /\ d.sent = c.sent /\ d.cfg = c.cfg /\ d.health = c.health
        /\ d.backend_attempts = c.backend_attempts /\ d.captures = c.captures
        /\ d.retried_attempts = c.retried_attempts
        /\ d.backend_attempts_total = c.backend_attempts_total
    BY <1>1 DEF Context
  <1>5. /\ d.response = c.response /\ d.route = c.route
        /\ d.upstream_ended = c.upstream_ended /\ d.received_bytes = c.received_bytes
        /\ d.upstream_status = c.upstream_status
    BY <1>1 DEF Context
  <1>6. /\ d.record.attempts = c.record.attempts /\ d.record.retried = c.record.retried
        /\ d.record.exposed = c.record.exposed
        /\ c.record.outcome = "in_flight" => d.record.outcome = "interrupted"
        /\ c.record.outcome # "in_flight" => d.record = c.record
    BY <1>2, <1>3, SMTT(30) DEF mark_record_interrupted, InspectorRecord
  <1> HIDE DEF d
  <1>7. ~Active(c) /\ ~Active(d)
    BY <1>4 DEF Active
  <1>8. Accounts(d)
    <2>1. CASE c.record.outcome = "in_flight"
      <3>1. d.record.outcome = "interrupted" /\ d.record.outcome \notin RR!AttemptOutcomes
        BY <1>6, <2>1 DEF RR!AttemptOutcomes
      <3> QED
        BY <1>4, <1>6, <1>7, <2>1, <3>1 DEF AInv, Accounts, ListsEveryAttempt
    <2>2. CASE c.record.outcome # "in_flight"
      BY <1>4, <1>6, <1>7, <2>2 DEF AInv, Accounts, ListsEveryAttempt
    <2> QED
      BY <2>1, <2>2
  <1>9. JudgesEveryAttempt(d)
    BY <1>4, SMTT(30) DEF AInv, JudgesEveryAttempt
  <1>10. Captured(d)
    BY <1>4, <1>7, SMTT(30) DEF AInv, Captured, CapturesMatch
  <1>11. Body(d)
    BY <1>4, <1>5, <1>6 DEF AInv, Body, ForwardsWhole
  <1>12. AInv(d)
    BY <1>8, <1>9, <1>10, <1>11 DEF AInv
  <1> QED
    BY <1>12 DEF d

-----------------------------------------------------------------------------
(***************************************************************************)
(* The accounts of all requests.                                           *)
(***************************************************************************)

\* A step of request r takes its context to d, with its account.
AccountsTo(r, d) == Become(r, d) /\ AInv(d)

\* Every action of a request keeps its account.
LEMMA RequestAccount ==
  ASSUME JudgedKept, IInv, NEW r \in Requests, AInv(req[r]), Request(r)
  PROVE  \E d : AccountsTo(r, d)
  <1> DEFINE c == req[r]
  <1>1. CInv(c, FALSE)
    <2>1. dropped = FALSE
      BY RequestStep DEF IInv
    <2> QED
      BY <2>1 DEF IInv
  <1>2. AInv(c)
    OBVIOUS
  <1>3. CASE CountTokens(r)
    BY <1>1, <1>2, <1>3, CountTokensAccount, ZenonT(60) DEF CountTokens, At, AccountsTo
  <1>4. CASE Preflight(r)
    <2>1. PICK status \in Nat : Become(r, handle_preflight_failure(c, status))
      BY <1>4, SMTT(30) DEF Preflight
    <2>2. c.pc = "new"
      BY <1>4 DEF Preflight, At
    <2> QED
      BY <1>1, <1>2, <2>1, <2>2, PreflightAccount DEF AccountsTo
  <1>5. CASE Admit(r)
    <2>1. PICK routes \in Candidates, stream \in BOOLEAN : \E n :
            Become(r, live_upsert(
              [c EXCEPT !.pc = "route", !.stream = stream,
                        !.candidates = routes, !.route = Head(routes),
                        !.labels_backend = Head(routes).backend_id,
                        !.fallback_routes = SubSeq(routes, 2, n),
                        !.attempt = 1, !.max_attempts = n]))
      BY <1>5 DEF Admit
    <2>2. PICK n :
            Become(r, live_upsert(
              [c EXCEPT !.pc = "route", !.stream = stream,
                        !.candidates = routes, !.route = Head(routes),
                        !.labels_backend = Head(routes).backend_id,
                        !.fallback_routes = SubSeq(routes, 2, n),
                        !.attempt = 1, !.max_attempts = n]))
      BY <2>1
    <2>3. c.pc = "new"
      BY <1>5 DEF Admit, At
    <2>4. \A head, backend, rest :
            AInv(live_upsert(
              [c EXCEPT !.pc = "route", !.stream = stream,
                        !.candidates = routes, !.route = head,
                        !.labels_backend = backend, !.fallback_routes = rest,
                        !.attempt = 1, !.max_attempts = n]))
      BY <1>1, <2>3, AdmitAccount
    <2> QED
      BY <2>2, <2>4 DEF AccountsTo
  <1>6. CASE PrepareOutbound(r)
    BY <1>1, <1>2, <1>6, PrepareOutboundAccount DEF PrepareOutbound, At, AccountsTo
  <1>7. CASE PrepareShutdown(r)
    <2>1. PICK written \in BOOLEAN : Become(r, respond(prepare_outbound(c, written), "error", 500))
      BY <1>7 DEF PrepareShutdown
    <2>2. c.pc = "route"
      BY <1>7 DEF PrepareShutdown, At
    <2> QED
      BY <1>1, <1>2, <2>1, <2>2, PrepareShutdownAccount DEF AccountsTo
  <1>8. CASE RewriteFailed(r)
    BY <1>1, <1>2, <1>8, RewriteFailedAccount, ZenonT(60) DEF RewriteFailed, At, AccountsTo
  <1>9. CASE SendShutdown(r)
    BY <1>1, <1>2, <1>9, ShutdownAccount, ZenonT(60) DEF SendShutdown, At, AccountsTo
  <1>10. CASE SendRetry(r)
    BY <1>1, <1>2, <1>10, SendRetryAccount DEF SendRetry, At, AccountsTo
  <1>11. CASE SendFailed(r)
    BY <1>1, <1>2, <1>11, SendFailedAccount DEF SendFailed, At, AccountsTo
  <1>12. CASE SendNonSuccess(r)
    <2>1. PICK status \in UpstreamStatuses, written \in BOOLEAN :
            LET e == ensure_failure_debug_capture(headers_received(c, status), written)
            IN Become(r, IF e.debug_capture # 0 \/ e.route.expose_backend_errors
                         THEN [e EXCEPT !.pc = "error_body"]
                         ELSE sanitize_upstream_error(e))
      BY <1>12 DEF SendNonSuccess
    <2> DEFINE e == ensure_failure_debug_capture(headers_received(c, status), written)
    <2>2. c.pc = "send" /\ status \in Nat
      BY <1>12, BoundsAssumption DEF SendNonSuccess, At
    <2>3. AInv([e EXCEPT !.pc = "error_body"]) /\ AInv(sanitize_upstream_error(e))
      BY <1>1, <1>2, <2>1, <2>2, SendNonSuccessAccount
    <2>4. CASE e.debug_capture # 0 \/ e.route.expose_backend_errors
      BY <2>1, <2>3, <2>4 DEF AccountsTo
    <2>5. CASE ~(e.debug_capture # 0 \/ e.route.expose_backend_errors)
      BY <2>1, <2>3, <2>5, ZenonT(60) DEF AccountsTo
    <2> QED
      BY <2>4, <2>5
  <1>13. CASE SendStreaming(r)
    <2>1. PICK status \in UpstreamStatuses :
            Become(r, streaming_response(headers_received(c, status)))
      BY <1>13 DEF SendStreaming
    <2>2. c.pc = "send" /\ status \in Nat
      BY <1>13, BoundsAssumption DEF SendStreaming, At
    <2> QED
      BY <1>1, <1>2, <2>1, <2>2, SendStreamingAccount DEF AccountsTo
  <1>14. CASE SendBuffered(r)
    <2>1. PICK status \in UpstreamStatuses :
            Become(r, [headers_received(c, status) EXCEPT !.pc = "buffer"])
      BY <1>14 DEF SendBuffered
    <2>2. c.pc = "send" /\ status \in Nat
      BY <1>14, BoundsAssumption DEF SendBuffered, At
    <2> QED
      BY <1>1, <1>2, <2>1, <2>2, SendBufferedAccount DEF AccountsTo
  <1>15. CASE ErrorBodyChunk(r)
    <2>1. PICK n \in 1..(ErrorBodyCap + 1) :
            LET full == c.error_bytes + n >= ErrorBodyCap
                read == [c EXCEPT !.error_bytes = IF full THEN ErrorBodyCap ELSE @ + n,
                                  !.received_bytes = @ + n, !.truncated = full]
            IN Become(r, IF full THEN error_body_done(read, TRUE) ELSE read)
      BY <1>15 DEF ErrorBodyChunk
    <2>2. c.pc = "error_body"
      BY <1>15 DEF ErrorBodyChunk, At
    <2> DEFINE full == c.error_bytes + n >= ErrorBodyCap
               read == [c EXCEPT !.error_bytes = IF full THEN ErrorBodyCap ELSE @ + n,
                                 !.received_bytes = @ + n, !.truncated = full]
    <2>3. full \in BOOLEAN /\ (full <=> c.error_bytes + n >= ErrorBodyCap)
      BY SMTT(30)
    <2>4. Become(r, IF full THEN error_body_done(read, TRUE) ELSE read)
      BY <2>1
    <2> HIDE DEF full
    <2>5. AInv(IF full THEN error_body_done(read, TRUE) ELSE read)
      BY <1>1, <1>2, <2>2, <2>3, ErrorBodyChunkAccount
    <2> QED
      BY <2>4, <2>5 DEF AccountsTo
  <1>16. CASE ErrorBodyEnd(r)
    BY <1>1, <1>2, <1>16, ErrorBodyEndAccount DEF ErrorBodyEnd, At, AccountsTo
  <1>17. CASE ErrorBodyLost(r)
    BY <1>1, <1>2, <1>17, ErrorBodyEndAccount DEF ErrorBodyLost, At, AccountsTo
  <1>18. CASE BufferedEnd(r)
    BY <1>1, <1>2, <1>18, BufferedEndAccount DEF BufferedEnd, At, AccountsTo
  <1>19. CASE BufferedFailed(r)
    BY <1>1, <1>2, <1>19, BufferedFailedAccount DEF BufferedFailed, At, AccountsTo
  <1>20. CASE BufferedShutdown(r)
    BY <1>1, <1>2, <1>20, ShutdownAccount, ZenonT(60) DEF BufferedShutdown, At, AccountsTo
  <1>21. CASE StreamChunk(r)
    BY <1>1, <1>2, <1>21, StreamChunkAccount DEF StreamChunk, Streaming, At, AccountsTo
  <1>22. CASE StreamError(r)
    BY <1>1, <1>2, <1>22, StreamErrorAccount DEF StreamError, Streaming, At, AccountsTo
  <1>23. CASE StreamEnd(r)
    BY <1>1, <1>2, <1>23, StreamEndAccount DEF StreamEnd, Streaming, At, AccountsTo
  <1>24. CASE StreamShutdown(r)
    BY <1>1, <1>2, <1>24, StreamEndAccount
    DEF StreamShutdown, Streaming, At, AccountsTo
  <1>25. CASE StreamDrop(r)
    BY <1>1, <1>2, <1>25, StreamDropAccount DEF StreamDrop, At, AccountsTo
  <1>26. CASE HandlerDropped(r)
    BY <1>1, <1>2, <1>26, HandlerDroppedAccount DEF HandlerDropped, AccountsTo
  <1> QED
    BY <1>3, <1>4, <1>5, <1>6, <1>7, <1>8, <1>9, <1>10, <1>11, <1>12, <1>13, <1>14,
       <1>15, <1>16, <1>17, <1>18, <1>19, <1>20, <1>21, <1>22, <1>23, <1>24, <1>25, <1>26
    DEF Request, Progress
=============================================================================
