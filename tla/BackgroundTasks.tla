---------------------------- MODULE BackgroundTasks ----------------------------
(***************************************************************************)
(* What the server does on its own while it serves: the record of how each *)
(* backend fares, which requests and probes share, the loop that probes,   *)
(* and the loop that asks backends for the context sizes of their models.  *)
(* Both loops work on a snapshot of a configuration that may be replaced   *)
(* under them.                                                             *)
(***************************************************************************)
EXTENDS ConfigReload, Keep

CONSTANTS Backends,            \* ids that some configuration may have
          UnhealthyThreshold,  \* UNHEALTHY_FAILURE_THRESHOLD
          FailureWindow,       \* FAILURE_WINDOW, in ticks of the clock
          ContextSize(_, _)    \* what a backend answers for a model: {} or {size}

ASSUME HealthAssumption == UnhealthyThreshold \in Nat \ {0} /\ FailureWindow \in Nat

VARIABLES now,      \* the monotonic clock
          health,   \* BackendHealthStore
          log,      \* history: every observation, in the order of the lock
          probe,    \* HealthProbeTask: the backends left of its round
          cache,    \* ContextSizeCache
          refresh   \* ContextSizeRefreshTask: what its round still waits for

healthVars == <<now, health, log, probe>>
sizeVars == <<cache, refresh>>

-----------------------------------------------------------------------------
(***************************************************************************)
(* BackendHealthStore.                                                     *)
(***************************************************************************)
Sources == {"traffic", "probe"}

Unobserved ==
  [successes |-> [s \in Sources |-> 0], failures |-> [s \in Sources |-> 0],
   recent_failures |-> <<>>, observed |-> FALSE]

Incremented(counts, source) == [counts EXCEPT ![source] = @ + 1]

record_success_with_source(record, source) ==
  [record EXCEPT !.successes = Incremented(@, source), !.recent_failures = <<>>, !.observed = TRUE]

\* Mutant: failures never grow too old to count.
record_failure_with_source_unpruned(record, source, time) ==
  [record EXCEPT !.failures = Incremented(@, source), !.observed = TRUE,
                 !.recent_failures = Append(@, time)]

\* The failures are in the order of the clock, so the old ones come first.
record_failure_with_source(record, source, time) ==
  [record EXCEPT !.failures = Incremented(@, source), !.observed = TRUE,
                 !.recent_failures =
                   Keep(Append(@, time), {t \in Nat : t + FailureWindow >= time})]

status(record) ==
  CASE ~record.observed -> "unknown"
    [] record.observed /\ record.recent_failures = <<>> -> "healthy"
    [] Len(record.recent_failures) >= UnhealthyThreshold -> "unhealthy"
    [] OTHER -> "degraded"

\* snapshot: what the operator sees of one backend.
snapshot(backend) ==
  [status |-> status(health[backend]),
   successes |-> health[backend].successes,
   failures |-> health[backend].failures,
   consecutive_failures |-> Len(health[backend].recent_failures)]

Observe(backend, source, ok) ==
  /\ health' = [health EXCEPT ![backend] =
                  IF ok THEN record_success_with_source(@, source)
                  ELSE record_failure_with_source(@, source, now)]
  /\ log' = Append(log, [backend |-> backend, source |-> source, ok |-> ok, time |-> now])

-----------------------------------------------------------------------------
HealthInit ==
  /\ now = 0
  /\ health = [b \in Backends |-> Unobserved]
  /\ log = <<>>
  /\ probe = <<>>

Tick ==
  /\ limits.ticks > 0
  /\ limits' = [limits EXCEPT !.ticks = @ - 1]
  /\ now' = now + 1
  /\ UNCHANGED <<health, log, probe>>

\* A request judges a backend (module Proxy): one of the configuration in
\* force when it began, which may not be this one.
record_traffic(backend, ok) ==
  /\ limits.requests > 0
  /\ limits' = [limits EXCEPT !.requests = @ - 1]
  /\ Observe(backend, "traffic", ok)
  /\ UNCHANGED <<now, probe>>

\* The probe loop: a round takes the backends of the configuration in force.
\* While probing is off it does nothing but look again.
ProbeRound ==
  /\ limits.rounds > 0 /\ probe = <<>>
  /\ config.active
  /\ limits' = [limits EXCEPT !.rounds = @ - 1]
  /\ probe' = config.backends
  /\ UNCHANGED <<now, health, log>>

probe_backend(ok) ==
  /\ probe # <<>>
  /\ Observe(Head(probe).id, "probe", ok)
  /\ probe' = Tail(probe)
  /\ UNCHANGED <<now, limits>>

HealthNext ==
  \/ Tick
  \/ \E b \in Backends, ok \in BOOLEAN : record_traffic(b, ok)
  \/ ProbeRound
  \/ \E ok \in BOOLEAN : probe_backend(ok)

-----------------------------------------------------------------------------
(***************************************************************************)
(* The context sizes: refresh_once asks every backend at the same time,    *)
(* waits for all of them, and drops what the snapshot did not ask for.     *)
(***************************************************************************)
collect_upstream_targets(c) ==
  {[public |-> Only(r.public), backend_id |-> r.context_length.backend_id,
    backend_model |-> r.context_length.backend_model] :
     r \in {r \in Range(c.routes) : r.context_length.kind = "upstream"}}

\* A route without backends is a target, and there is nobody to ask.
Fetched(c) == {t \in collect_upstream_targets(c) : t.backend_id \in BackendIds(c.backends)}

Lookup(public) == IF public \in DOMAIN cache THEN cache[public] ELSE {}

\* public_model_context_lengths_with_cache: the size shown for a route.
ShownSize(route) ==
  CASE route.context_length.kind = "none" -> {}
    [] route.context_length.kind = "static" -> {"static"}
    [] route.context_length.kind = "upstream" -> Lookup(Only(route.public))

SizesInit ==
  /\ cache = <<>>
  /\ refresh = [at |-> "asleep", active |-> {}, fetching |-> {}]

RefreshStart ==
  /\ refresh.at = "asleep" /\ limits.refresh
  /\ refresh' = [at |-> "fetching",
                 active |-> {t.public : t \in collect_upstream_targets(config)},
                 fetching |-> Fetched(config)]
  /\ UNCHANGED cache

\* What a fetch may come to: the size, or an error, after FETCH_TIMEOUT at the
\* latest.
fetch_upstream_n_ctx(target) == {ContextSize(target.backend_id, target.backend_model), {}}

\* ContextSizeCache::set: an error takes away the size that was known.
set(public, value) ==
  [p \in DOMAIN cache \cup {public} |-> IF p = public THEN value ELSE cache[p]]

FetchEnds(target, value) ==
  /\ cache' = set(target.public, value)
  /\ refresh' = [refresh EXCEPT !.fetching = @ \ {target}]

prune == Restrict(cache, DOMAIN cache \cap refresh.active)

RefreshEnd ==
  /\ refresh.at = "fetching" /\ refresh.fetching = {}
  /\ cache' = prune
  /\ refresh' = [at |-> "asleep", active |-> {}, fetching |-> {}]

RefreshStep == \/ RefreshStart \/ RefreshEnd
               \/ \E t \in refresh.fetching :
                    \E value \in fetch_upstream_n_ctx(t) : FetchEnds(t, value)
=============================================================================
