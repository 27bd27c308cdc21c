----------------------------- MODULE MCOperations -----------------------------
(***************************************************************************)
(* Operations on small instances: files that load into configurations with *)
(* different targets and backends, files that each check of Config::load   *)
(* rejects, and a choice of what happens: edits under refreshes, or        *)
(* observations under a reload, or a signal under open streams.            *)
(***************************************************************************)
EXTENDS Operations

Client(id, models) == [id |-> id, secret |-> TRUE, models |-> models]
Backend(id) == [id |-> id, weight |-> 1, address |-> TRUE, supports |-> {"chat"}]
Entry(backend) == [backend |-> backend, model |-> {}]
As(model, backend) == [backend |-> backend, model |-> {model}]
Public(model, entries, context_length) ==
  [public |-> {model}, path |-> {}, expose |-> {"chat"}, headers |-> TRUE,
   backends |-> entries, context_length |-> context_length]

\* One backend, asked for the size of the one model.
Single ==
  [toml |-> TRUE, sections |-> TRUE, active |-> FALSE,
   unknown_capability |-> "error", unknown_endpoint |-> "warn",
   default_models |-> {"m1"}, clients |-> <<Client("c1", {})>>,
   backends |-> <<Backend("b1")>>,
   routes |-> <<Public("m1", <<Entry("b1")>>, "upstream")>>]

\* The model moves to another backend under another name; a second model.
Moved ==
  [Single EXCEPT !.active = TRUE,
                 !.clients = <<Client("c1", {"m2"}), Client("c2", {})>>,
                 !.backends = <<Backend("b1"), Backend("b2")>>,
                 !.routes = <<Public("m1", <<As("big", "b2"), Entry("b1")>>, "upstream"),
                              Public("m2", <<Entry("b1")>>, "upstream")>>]

\* A model without backends, one of a known size, and a route for a path.
Fixed ==
  [Single EXCEPT !.active = TRUE,
                 !.routes = <<Public("m1", <<>>, "upstream"),
                              Public("m2", <<Entry("b1")>>, "static"),
                              [Public("m3", <<Entry("b1")>>, "upstream") EXCEPT
                                 !.public = {}, !.path = {"files"}]>>]

\* What each check rejects.
Rejected ==
  {Unreadable,
   [Single EXCEPT !.sections = FALSE],
   [Single EXCEPT !.clients = <<>>],
   [Single EXCEPT !.clients = <<Client("c1", {}), Client("c1", {})>>],
   [Single EXCEPT !.clients[1].secret = FALSE],
   [Single EXCEPT !.clients[1].models = {"m2"}],
   [Single EXCEPT !.backends = <<>>, !.routes = <<>>, !.default_models = {}],
   [Single EXCEPT !.backends = <<Backend("b1"), Backend("b1")>>],
   [Single EXCEPT !.backends[1].weight = 0],
   [Single EXCEPT !.backends[1].address = FALSE],
   [Single EXCEPT !.backends[1].supports = {"chat", "telepathy"}],
   [Single EXCEPT !.routes = <<@[1], @[1]>>],
   [Single EXCEPT !.routes[1].path = {"files"}],
   [Single EXCEPT !.routes[1].headers = FALSE],
   [Single EXCEPT !.routes[1].backends = <<Entry("b3")>>],
   [Single EXCEPT !.routes[1].expose = {"telepathy"}, !.unknown_endpoint = "error"]}

\* Unknown markers that are only warned about.
Warned == [Single EXCEPT !.routes[1].expose = {"chat", "telepathy"}]

MCFiles == {Single, Moved, Fixed, Warned} \cup Rejected

ASSUME FilesJudged == \A f \in MCFiles : (Load(f) = {}) <=> f \in Rejected

MCContextSize(backend, model) ==
  CASE backend = "b1" -> {1} [] backend = "b2" /\ model = "big" -> {2} [] OTHER -> {3}

Nothing ==
  [files |-> {Single}, edits |-> 0, errors |-> 0, ticks |-> 0, requests |-> 0,
   rounds |-> 0, streams |-> 0, signal |-> FALSE, refresh |-> FALSE]

MCLimits ==
  {[Nothing EXCEPT !.files = {Single, Moved, Fixed, Unreadable}, !.edits = 2,
                   !.errors = 1, !.refresh = TRUE],
   [Nothing EXCEPT !.files = MCFiles, !.edits = 1, !.refresh = TRUE],
   [Nothing EXCEPT !.files = {Moved, Single}, !.edits = 1, !.ticks = 1, !.requests = 1,
                   !.rounds = 2],
   [Nothing EXCEPT !.ticks = 3, !.requests = 4],
   [Nothing EXCEPT !.streams = 3, !.signal = TRUE, !.refresh = TRUE]}
=============================================================================
