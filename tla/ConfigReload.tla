----------------------------- MODULE ConfigReload -----------------------------
(***************************************************************************)
(* The configuration: what is accepted as one (Config::load), the store    *)
(* that holds the one in force, and the watcher that replaces it when the  *)
(* file changes.                                                           *)
(*                                                                         *)
(* An Option is a set with at most one element.  Of the values that are    *)
(* only checked (secrets, URLs, numbers) the file says whether they pass.  *)
(***************************************************************************)
EXTENDS Naturals, Sequences, FiniteSets, Functions

CONSTANTS Files,         \* what the file may contain
          KnownMarkers,  \* the markers that the router knows
          MaxAttempts,   \* CONFIG_RELOAD_MAX_ATTEMPTS
          Limits         \* bounds on what happens, one of which is chosen

VARIABLES file,     \* the contents of the file
          config,   \* ConfigStore: the configuration in force
          dirty,    \* a change that notify has not reported yet
          events,   \* the channel to the task of the watcher
          watcher,  \* the task
          missed,   \* history: the last change came before the watch
          limits    \* how much of everything may still happen

configVars == <<file, config, dirty, events, watcher, missed>>

\* A file that is absent or is no TOML.
Unreadable == [toml |-> FALSE]

-----------------------------------------------------------------------------
(***************************************************************************)
(* Config::load: {} when the file is rejected.                             *)
(***************************************************************************)
resolve_clients(f) ==
  IF /\ f.clients # <<>>
     /\ IsInjective([i \in DOMAIN f.clients |-> f.clients[i].id])
     /\ \A i \in DOMAIN f.clients : f.clients[i].secret
  THEN {[i \in DOMAIN f.clients |->
          [id |-> f.clients[i].id, models |-> f.default_models \cup f.clients[i].models]]}
  ELSE {}

validate_markers(markers, policy) == policy = "error" => markers \subseteq KnownMarkers

resolve_backends(f) ==
  IF /\ f.backends # <<>>
     /\ IsInjective([i \in DOMAIN f.backends |-> f.backends[i].id])
     /\ \A i \in DOMAIN f.backends :
          /\ f.backends[i].weight > 0
          /\ f.backends[i].address
          /\ validate_markers(f.backends[i].supports, f.unknown_capability)
  THEN {f.backends}
  ELSE {}

\* Every route has a key of its own: a public model or a path, and not both.
validate_routes(f) ==
  /\ IsInjective([i \in DOMAIN f.routes |-> <<f.routes[i].public, f.routes[i].path>>])
  /\ \A i \in DOMAIN f.routes :
       /\ Cardinality(f.routes[i].public) + Cardinality(f.routes[i].path) = 1
       /\ f.routes[i].headers
       /\ validate_markers(f.routes[i].expose, f.unknown_endpoint)

Only(option) == CHOOSE x \in option : TRUE
BackendIds(backends) == {backends[i].id : i \in DOMAIN backends}

\* An entry model@backend, or a backend under the name that the client uses.
bind_routes(route, backends) ==
  IF \A i \in DOMAIN route.backends : route.backends[i].backend \in BackendIds(backends)
  THEN {[i \in DOMAIN route.backends |->
          LET entry == route.backends[i] IN
            [backend_id |-> entry.backend,
             backend_model |-> IF entry.model # {} THEN Only(entry.model)
                               ELSE IF route.public # {} THEN Only(route.public)
                               ELSE entry.backend]]}
  ELSE {}

\* The first binding is the one that is asked; there may be none.
resolve_context_lengths(route, bindings) ==
  IF route.path # {} THEN [kind |-> "none"]
  ELSE CASE route.context_length = "none" -> [kind |-> "none"]
         [] route.context_length = "static" -> [kind |-> "static"]
         [] route.context_length = "upstream" ->
              [kind |-> "upstream",
               backend_id |-> IF bindings = <<>> THEN "" ELSE bindings[1].backend_id,
               backend_model |-> IF bindings = <<>> THEN Only(route.public)
                                 ELSE bindings[1].backend_model]

resolve_routes(f, backends) ==
  LET bound == [i \in DOMAIN f.routes |-> bind_routes(f.routes[i], backends)] IN
    IF validate_routes(f) /\ \A i \in DOMAIN bound : bound[i] # {}
    THEN {[i \in DOMAIN f.routes |->
            [public |-> f.routes[i].public, path |-> f.routes[i].path,
             backends |-> Only(bound[i]),
             context_length |-> resolve_context_lengths(f.routes[i], Only(bound[i]))]]}
    ELSE {}

PublicModels(routes) == UNION {routes[i].public : i \in DOMAIN routes}

validate_allowed_routes(clients, routes) ==
  \A i \in DOMAIN clients : clients[i].models \subseteq PublicModels(routes)

\* sections: whether validate_top_level accepts the sections of single values.
resolve(f) ==
  LET clients == resolve_clients(f)
      backends == resolve_backends(f)
      routes == IF backends = {} THEN {} ELSE resolve_routes(f, Only(backends))
  IN IF /\ f.sections /\ clients # {} /\ backends # {} /\ routes # {}
        /\ validate_allowed_routes(Only(clients), Only(routes))
     THEN {[clients |-> Only(clients), backends |-> Only(backends),
            routes |-> Only(routes), active |-> f.active]}
     ELSE {}

Load(f) == IF f.toml THEN resolve(f) ELSE {}

-----------------------------------------------------------------------------
(***************************************************************************)
(* The watcher.  main loads the file, starts the tasks, and only then the  *)
(* watch: an edit between the two is reported to nobody.                   *)
(***************************************************************************)
ConfigInit ==
  /\ file \in {f \in Files \cap limits.files : Load(f) # {}}
  /\ config = Only(Load(file))
  /\ dirty = FALSE
  /\ events = <<>>
  /\ watcher = [at |-> "starting", attempt |-> 0, loaded |-> {}]
  /\ missed = FALSE

\* Somebody replaces the file; limits bound how often.
Edit(f) ==
  /\ limits.edits > 0 /\ f \in limits.files \ {file}
  /\ limits' = [limits EXCEPT !.edits = @ - 1]
  /\ file' = f
  /\ missed' = (watcher.at = "starting")
  /\ dirty' = (watcher.at # "starting")
  /\ UNCHANGED <<config, events, watcher>>

StartWatcher ==
  /\ watcher.at = "starting"
  /\ watcher' = [watcher EXCEPT !.at = "idle"]
  /\ UNCHANGED <<file, config, dirty, events, missed, limits>>

\* The callback of notify; changes it has not reported yet become one event.
Notify ==
  /\ dirty
  /\ dirty' = FALSE
  /\ events' = Append(events, "reload")
  /\ UNCHANGED <<file, config, watcher, missed, limits>>

\* notify reports an error of its own.
NotifyError ==
  /\ limits.errors > 0 /\ watcher.at # "starting"
  /\ limits' = [limits EXCEPT !.errors = @ - 1]
  /\ events' = Append(events, "error")
  /\ UNCHANGED <<file, config, dirty, watcher, missed>>

process_config_watch_events ==
  /\ watcher.at = "idle" /\ events # <<>>
  /\ events' = Tail(events)
  /\ watcher' = IF Head(events) = "reload" THEN [watcher EXCEPT !.at = "debounce"] ELSE watcher
  /\ UNCHANGED <<file, config, dirty, missed, limits>>

\* The end of one debounce: whatever is queued is dropped, and a reload
\* event among it starts another one.
wait_for_reload_quiet ==
  /\ watcher.at = "debounce"
  /\ events' = <<>>
  /\ watcher' = IF "reload" \in Range(events) THEN watcher
                ELSE [watcher EXCEPT !.at = "load", !.attempt = 1]
  /\ UNCHANGED <<file, config, dirty, missed, limits>>

\* One attempt of reload_config_with_retries: the file is read and resolved ...
reload_config_with_retries ==
  /\ watcher.at = "load"
  /\ watcher' =
       CASE Load(file) # {} -> [watcher EXCEPT !.at = "apply", !.loaded = Load(file)]
         [] Load(file) = {} /\ watcher.attempt = MaxAttempts ->
              [watcher EXCEPT !.at = "idle", !.attempt = 0]
         [] OTHER -> [watcher EXCEPT !.attempt = @ + 1]
  /\ UNCHANGED <<file, config, dirty, events, missed, limits>>

\* Mutant: the events that came during the reload count as handled by it.
apply_reloaded_config_draining ==
  /\ watcher.at = "apply"
  /\ config' = Only(watcher.loaded)
  /\ events' = <<>>
  /\ watcher' = [watcher EXCEPT !.at = "idle", !.attempt = 0, !.loaded = {}]
  /\ UNCHANGED <<file, dirty, missed, limits>>

\* ... and what it held is put in force, by now perhaps not what it holds.
apply_reloaded_config ==
  /\ watcher.at = "apply"
  /\ config' = Only(watcher.loaded)
  /\ watcher' = [watcher EXCEPT !.at = "idle", !.attempt = 0, !.loaded = {}]
  /\ UNCHANGED <<file, dirty, events, missed, limits>>

WatcherStep == \/ StartWatcher \/ Notify \/ process_config_watch_events
               \/ wait_for_reload_quiet \/ reload_config_with_retries
               \/ apply_reloaded_config

ConfigNext == (\E f \in Files : Edit(f)) \/ NotifyError \/ WatcherStep
=============================================================================
