------------------------------- MODULE Routing -------------------------------
(***************************************************************************)
(* BackendSelector: which backends may serve a request, in which dialect,  *)
(* and in which order they are tried, with the round-robin counters that   *)
(* outlive a request and a configuration.                                  *)
(*                                                                         *)
(* A marker is a string, a model and a path are names.  An absent route    *)
(* behaves as one that exposes nothing in particular, so the expose of no  *)
(* route is {}.  A candidate keeps what its order and the tests look at.   *)
(***************************************************************************)
EXTENDS Keep, FiniteSets, Functions

CONSTANTS BackendIds,        \* ids of [[backend]] blocks
          Models,            \* public models
          OtherPaths,        \* paths without a dialect of their own
          PathCandidates,    \* path_capability_candidates of those paths
          RequiresModel,     \* the ones among them that path_requires_model names
          Requests,          \* requests that clients may send
          Configs,           \* configurations the process may start with
          Reloads,           \* configurations it may reload
          CounterModulus     \* 2^64, where a counter wraps

None == "none"

Dialects == {"/v1/responses", "/v1/chat/completions", "/v1/messages"}
Paths == Dialects \cup OtherPaths

RequestMode == {"native", "responses_via_chat_completions", "chat_completions_via_responses",
                "chat_completions_via_messages", "anthropic_messages_native"}

Backend == [id : BackendIds, supports : SUBSET STRING, weight : Nat \ {0}]
Route == [key : Models \cup Paths, expose : SUBSET STRING, backends : Seq(BackendIds)]
Request == [path : Paths, model : Models \cup {None}, stream : BOOLEAN, tools : BOOLEAN,
            sticky : Nat]     \* the hash of the sticky routing key
Candidate == [backend_id : BackendIds, request_mode : RequestMode, weight : Nat \ {0}]

\* A loaded configuration has one route per key, and routes to its backends.
IsConfig(c) ==
  /\ c.backends \in Seq(Backend)
  /\ c.routes \in Seq(Route)
  /\ c.strategy \in {"priority", "sticky", "round_robin", "weighted_random"}
  /\ \A i, j \in DOMAIN c.backends : c.backends[i].id = c.backends[j].id => i = j
  /\ \A i, j \in DOMAIN c.routes : c.routes[i].key = c.routes[j].key => i = j
  /\ \A i \in DOMAIN c.routes : \A k \in DOMAIN c.routes[i].backends :
       \E j \in DOMAIN c.backends : c.backends[j].id = c.routes[i].backends[k]

ASSUME KeysAssumption == Models \cap (Paths \cup {None}) = {}
\* proxy_v1 refuses a request without the model its path requires.
ASSUME RequestsAssumption ==
  Requests \subseteq {q \in Request : q.path \in Dialects \cup RequiresModel => q.model # None}
ASSUME PathsAssumption ==
  RequiresModel \subseteq OtherPaths /\ PathCandidates \in [OtherPaths -> SUBSET STRING]
ASSUME LoadedAssumption == Reloads \subseteq Configs /\ \A c \in Configs : IsConfig(c)
ASSUME ModulusAssumption == CounterModulus \in Nat \ {0}

VARIABLES config,      \* the active configuration
          counters,    \* counters[key]: RoundRobinCounters; 0 if absent
          selection,   \* what the last select returned
          turns        \* history: turns[key]: the candidates of the last
                       \* round-robin selections of key, and their primaries

vars == <<config, counters, selection, turns>>

-----------------------------------------------------------------------------
(***************************************************************************)
(* Markers.                                                                *)
(***************************************************************************)

has_capability(capabilities, capability) ==
  capability \in capabilities \/ "all" \in capabilities

supports_candidates(capabilities, candidates) ==
  \E candidate \in candidates : has_capability(capabilities, candidate)

supports_responses(supports) == supports_candidates(supports, {"responses", "response"})

supports_chat_compat(supports) ==
  supports_candidates(supports, {"chat", "chat_completions", "completions"})

supports_messages(supports) == has_capability(supports, "messages")

has_tool_capability(supports) ==
  supports_candidates(supports, {"tools", "tool_calls", "function_calling", "functions"})

\* Mutant: a route that exposes anything inherits the backend's marker.
route_supports_compat_marker_either(supports, expose, marker) ==
  marker \in expose \cup supports

\* A compatibility marker counts only by name: from expose, or from the backend
\* if the route exposes nothing in particular.
route_supports_compat_marker(supports, expose, marker) ==
  marker \in IF expose # {} THEN expose ELSE supports

-----------------------------------------------------------------------------
(***************************************************************************)
(* Eligibility.                                                            *)
(***************************************************************************)

request_mode_for_responses(supports, expose) ==
  IF supports_responses(supports) /\ (expose = {} \/ supports_responses(expose))
  THEN "native"
  ELSE IF /\ supports_chat_compat(supports)
          /\ route_supports_compat_marker(supports, expose, "responses_via_chat_completions")
  THEN "responses_via_chat_completions" ELSE None

request_mode_for_chat_completions(supports, expose) ==
  IF supports_chat_compat(supports) /\ (expose = {} \/ supports_chat_compat(expose))
  THEN "native"
  ELSE IF /\ supports_responses(supports)
          /\ route_supports_compat_marker(supports, expose, "chat_completions_via_responses")
  THEN "chat_completions_via_responses"
  ELSE IF /\ supports_messages(supports)
          /\ route_supports_compat_marker(supports, expose, "chat_completions_via_messages")
  THEN "chat_completions_via_messages" ELSE None

request_mode_for_messages(supports, expose) ==
  IF supports_messages(supports) /\ (expose = {} \/ supports_messages(expose))
  THEN "anthropic_messages_native" ELSE None

request_mode_for_path(path, supports, expose) ==
  CASE path = "/v1/responses" -> request_mode_for_responses(supports, expose)
    [] path = "/v1/chat/completions" -> request_mode_for_chat_completions(supports, expose)
    [] path = "/v1/messages" -> request_mode_for_messages(supports, expose)
    [] OTHER -> IF /\ supports_candidates(supports, PathCandidates[path])
                   /\ expose = {} \/ supports_candidates(expose, PathCandidates[path])
                THEN "native" ELSE None

supports_tools(supports, expose) ==
  has_tool_capability(supports) /\ (expose = {} \/ has_tool_capability(expose))

\* The mode of a backend that could serve q but for its tools, or None.
mode(q, backend, expose) ==
  IF q.stream /\ ~has_capability(backend.supports, "streaming") THEN None
  ELSE request_mode_for_path(q.path, backend.supports, expose)

is_eligible(q, backend, expose) ==
  /\ mode(q, backend, expose) # None
  /\ q.tools => supports_tools(backend.supports, expose)

-----------------------------------------------------------------------------
(***************************************************************************)
(* Candidates.                                                             *)
(***************************************************************************)

backend_of(c, id) == c.backends[CHOOSE i \in DOMAIN c.backends : c.backends[i].id = id]

has_route(c, key) == \E i \in DOMAIN c.routes : c.routes[i].key = key
route_for(c, key) == c.routes[CHOOSE i \in DOMAIN c.routes : c.routes[i].key = key]

key_of(q) == IF q.model # None THEN q.model ELSE q.path

\* The backends select looks at: the bindings of the model's route in their
\* order, or the configured backends, of which a route for the path keeps those
\* it binds.
considered(c, q) ==
  IF q.model # None
  THEN LET bound == route_for(c, q.model).backends
       IN [i \in DOMAIN bound |-> backend_of(c, bound[i])]
  ELSE Keep(c.backends, {backend \in Range(c.backends) :
         has_route(c, q.path) => backend.id \in Range(route_for(c, q.path).backends)})

expose_of(c, q) == IF has_route(c, key_of(q)) THEN route_for(c, key_of(q)).expose ELSE {}

build_candidate(q, backend, expose) ==
  [backend_id |-> backend.id, request_mode |-> mode(q, backend, expose),
   weight |-> backend.weight]

candidates(c, q) ==
  LET expose == expose_of(c, q)
      eligible == Keep(considered(c, q), {backend \in Range(considered(c, q)) :
                                            is_eligible(q, backend, expose)})
  IN [i \in DOMAIN eligible |-> build_candidate(q, eligible[i], expose)]

\* Mutant: the tools are blamed for every empty list of a request with tools.
selection_error_hasty(c, q) ==
  IF q.tools THEN "tools_unsupported" ELSE "endpoint_unavailable"

\* Which error an empty list of candidates is reported as.
selection_error(c, q) ==
  IF /\ q.tools
     /\ \E backend \in Range(considered(c, q)) : mode(q, backend, expose_of(c, q)) # None
  THEN "tools_unsupported" ELSE "endpoint_unavailable"

-----------------------------------------------------------------------------
(***************************************************************************)
(* Order.                                                                  *)
(***************************************************************************)

\* Mutant: the candidates before the primary are not kept as fallbacks.
rotate_left_dropped(seq, n) == SubSeq(seq, n + 1, Len(seq))

rotate_left(seq, n) == SubSeq(seq, n + 1, Len(seq)) \o SubSeq(seq, 1, n)

\* The sum of the first n weights.
cumulative(seq) ==
  LET sum[n \in 0..Len(seq)] == IF n = 0 THEN 0 ELSE sum[n - 1] + seq[n].weight
  IN sum

\* Mutant: the last pick of a candidate's share goes to it and to the next.
weighted_index_inclusive(seq, pick) ==
  LET sum == cumulative(seq)
      hits == {i \in DOMAIN seq : pick <= sum[i]}
  IN (CHOOSE i \in hits : \A j \in hits : i <= j) - 1

\* The first candidate whose cumulative weight exceeds the pick.
weighted_index(seq, pick) ==
  LET sum == cumulative(seq)
      hits == {i \in DOMAIN seq : pick < sum[i]}
  IN (CHOOSE i \in hits : \A j \in hits : i <= j) - 1

\* By how much the candidates may be rotated.
rotations(q, seq) ==
  CASE config.strategy = "priority" -> {0}
    [] config.strategy = "sticky" -> {q.sticky % Len(seq)}
    [] config.strategy = "round_robin" -> {counters[key_of(q)] % Len(seq)}
    [] config.strategy = "weighted_random" ->
         {weighted_index(seq, pick) : pick \in 0..(cumulative(seq)[Len(seq)] - 1)}

\* Mutant: one pointer for all keys.
next_index_shared(q) ==
  counters' = [key \in DOMAIN counters |-> (counters[key] + 1) % CounterModulus]

\* Mutant: the counter does not wrap.
next_index_unwrapped(q) ==
  counters' = [counters EXCEPT ![key_of(q)] = @ + 1]

\* RoundRobinCounters::next_index leaves the key's counter one further, wrapping.
next_index(q) ==
  counters' = [counters EXCEPT ![key_of(q)] = (@ + 1) % CounterModulus]

\* The turns of key after one more: those with the same candidates, at most as
\* many as there are candidates.
another_turn(turn, seq, n) ==
  IF turn.candidates # seq THEN [candidates |-> seq, primaries |-> <<n>>]
  ELSE [turn EXCEPT !.primaries =
          Append(IF Len(@) < Len(seq) THEN @ ELSE Tail(@), n)]

-----------------------------------------------------------------------------
NoSelection == [request |-> None, error |-> "not_asked", candidates |-> <<>>]
NoTurns == [candidates |-> <<>>, primaries |-> <<>>]

Init ==
  /\ config \in Configs
  /\ counters = [key \in Models \cup Paths |-> 0]
  /\ selection = NoSelection
  /\ turns = [key \in Models \cup Paths |-> NoTurns]

Fail(q, error) ==
  /\ selection' = [request |-> q, error |-> error, candidates |-> <<>>]
  /\ UNCHANGED <<config, counters, turns>>

\* The proxy has looked the model up among the identity's before, and loading
\* wants a route for each of those; select does not rely on it.
ModelNotFound(q) ==
  /\ q.model # None
  /\ ~has_route(config, q.model)
  /\ Fail(q, "model_not_found")

NoCandidate(q) ==
  /\ q.model # None => has_route(config, q.model)
  /\ candidates(config, q) = <<>>
  /\ Fail(q, selection_error(config, q))

Select(q) ==
  /\ q.model # None => has_route(config, q.model)
  /\ LET seq == candidates(config, q) IN
     /\ seq # <<>>
     /\ \E n \in rotations(q, seq) :
          /\ selection' = [request |-> q, error |-> None, candidates |-> rotate_left(seq, n)]
          /\ IF config.strategy = "round_robin"
             THEN /\ next_index(q)
                  /\ turns' = [turns EXCEPT ![key_of(q)] = another_turn(@, seq, n)]
             ELSE UNCHANGED <<counters, turns>>
  /\ UNCHANGED config

\* The counters belong to the process, not to the configuration.
Reload ==
  /\ config' \in Reloads \ {config}
  /\ selection' = NoSelection
  /\ UNCHANGED <<counters, turns>>

Next ==
  \/ \E q \in Requests : ModelNotFound(q) \/ NoCandidate(q) \/ Select(q)
  \/ Reload

Spec == Init /\ [][Next]_vars

-----------------------------------------------------------------------------
(***************************************************************************)
(* Properties.                                                             *)
(***************************************************************************)

\* The state has its types; in particular a counter wraps.
TypeOK ==
  /\ IsConfig(config)
  /\ counters \in [Models \cup Paths -> 0..(CounterModulus - 1)]
  /\ selection.error # "not_asked" => selection.request \in Requests
  /\ \A i \in DOMAIN selection.candidates : selection.candidates[i] \in Candidate

\* Whatever the strategy, select returns every eligible candidate once, in the
\* cyclic order of the configuration: choosing a primary never costs the proxy a
\* fallback ("the same set of compatible backends remains reachable").
SelectionKeepsFallbacks ==
  selection.error \notin {"not_asked", "model_not_found"} =>
    LET seq == candidates(config, selection.request)
        returned == selection.candidates
    IN /\ Len(returned) = Len(seq)
       /\ returned # <<>> =>
            \E n \in 0..(Len(seq) - 1) : \A i \in DOMAIN seq :
              returned[i] = seq[((i + n - 1) % Len(seq)) + 1]

\* A translation is named by its marker, which "all" does not stand for, in the
\* route's expose, or by the backend when the route exposes nothing in particular.
\* The backend serves the dialect translated to, by its name or by "all", and
\* backend and route have no native way to serve the request:
\* request_mode_for_responses and request_mode_for_chat_completions.
CompatIsExplicit ==
  \A i \in DOMAIN selection.candidates :
    LET m == selection.candidates[i].request_mode
        supports == backend_of(config, selection.candidates[i].backend_id).supports
        expose == expose_of(config, selection.request)
        responses(markers) == markers \cap {"responses", "response", "all"} # {}
        chat(markers) == markers \cap {"chat", "chat_completions", "completions", "all"} # {}
        native(markers) ==
          IF selection.request.path = "/v1/responses" THEN responses(markers) ELSE chat(markers)
    IN m \notin {"native", "anthropic_messages_native"} =>
         /\ IF expose = {} THEN m \in supports ELSE m \in expose
         /\ \/ m = "responses_via_chat_completions" /\ chat(supports)
            \/ m = "chat_completions_via_responses" /\ responses(supports)
            \/ m = "chat_completions_via_messages" /\ supports \cap {"messages", "all"} # {}
         /\ ~(native(supports) /\ (expose = {} \/ native(expose)))

\* The tools are blamed exactly when the same request without tools has a
\* candidate: tool_incompatible is set by a backend that fails nothing else.
ToolsErrorIsAboutTools ==
  selection.error \notin {"not_asked", "model_not_found"} =>
    LET q == selection.request IN
    selection.error = "tools_unsupported" <=>
      /\ q.tools
      /\ candidates(config, q) = <<>>
      /\ candidates(config, [q EXCEPT !.tools = FALSE]) # <<>>

\* As long as the candidates of a key stay the same, each is the primary once in
\* as many selections as there are candidates, whatever other keys, strategies
\* and reloads do in between; only a wrap of the counter may break the cycle.
RoundRobinCycles ==
  \A key \in DOMAIN turns :
    counters[key] >= Len(turns[key].primaries) =>
      IsInjective(turns[key].primaries)

\* Each candidate is the primary for as many of the picks as its weight says, so
\* weighted_rotate always rotates and its odds are the weights.
WeightedShare ==
  selection.error = None /\ config.strategy = "weighted_random" =>
    LET seq == selection.candidates
        total == cumulative(seq)[Len(seq)]
    IN \A i \in DOMAIN seq :
         seq[i].weight = Cardinality({pick \in 0..(total - 1) : weighted_index(seq, pick) = i - 1})

-----------------------------------------------------------------------------
\* The test behind the warning "it will never be selected" at load time.
has_marker(set, marker) == marker \in set \/ "all" \in set

is_compat_marker_pair(marker, supports) ==
  \/ /\ marker = "responses_via_chat_completions"
     /\ \E m \in {"chat", "chat_completions", "completions"} : has_marker(supports, m)
  \/ /\ marker = "chat_completions_via_responses"
     /\ \E m \in {"responses", "response"} : has_marker(supports, m)
  \/ /\ marker = "chat_completions_via_messages"
     /\ has_marker(supports, "messages")

route_can_serve(expose, backend) ==
  \E marker \in expose :
    marker \in backend.supports \/ is_compat_marker_pair(marker, backend.supports)

\* A backend that warn_about_unreachable_backends said "will never be selected"
\* on a route is not selected on it.
WarnedNeverSelected ==
  \A i \in DOMAIN selection.candidates :
    has_route(config, key_of(selection.request)) =>
      route_can_serve(expose_of(config, selection.request),
                      backend_of(config, selection.candidates[i].backend_id))
=============================================================================
