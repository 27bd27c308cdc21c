------------------------------ MODULE MCRouting ------------------------------
(***************************************************************************)
(* Instances of Routing.  Grid varies what one backend supports and what    *)
(* the route of m3 exposes.  Fleet has three backends, the models m1 and m2  *)
(* and a path, and is reloaded with another strategy and route of m2.       *)
(***************************************************************************)
EXTENDS Routing

MCOtherPaths == {"/v1/files", "/v1/embeddings"}
MCRequiresModel == {"/v1/embeddings"}
MCPathCandidates ==
  [path \in MCOtherPaths |->
     IF path = "/v1/files" THEN {"files", "file"} ELSE {"embeddings", "embedding"}]

Compat == {"responses_via_chat_completions", "chat_completions_via_responses",
           "chat_completions_via_messages"}
Native == {"responses", "chat", "messages"}

backend(id, supports, weight) == [id |-> id, supports |-> supports, weight |-> weight]
route(key, expose, bound) == [key |-> key, expose |-> expose, backends |-> bound]

Grid ==
  {[backends |-> <<backend("b1", supports, 1)>>,
    routes |-> <<route("m3", expose, <<"b1">>)>>,
    strategy |-> "priority"] :
     supports \in SUBSET (Native \cup Compat \cup {"all"}),
     expose \in SUBSET (Native \cup Compat \cup {"tools"})}

\* b2 has no streaming and b3 no tools, so requests differ in their candidates.
Fleet(strategy, bound) ==
  [backends |-> <<backend("b1", {"all"}, 1),
                  backend("b2", {"chat", "files", "tools"}, 2),
                  backend("b3", {"chat", "file", "streaming"}, 3)>>,
   routes |-> <<route("m1", {}, <<"b3", "b1", "b2">>),
                route("m2", {"chat"}, bound),
                route("/v1/files", {}, <<"b1", "b2">>)>>,
   strategy |-> strategy]

Q(path, model, stream, tools, sticky) ==
  [path |-> path, model |-> model, stream |-> stream, tools |-> tools, sticky |-> sticky]

MCRequests ==
  {Q(path, "m3", FALSE, tools, 0) : path \in Dialects, tools \in BOOLEAN}
    \cup {Q("/v1/chat/completions", "m1", stream, FALSE, 1) : stream \in BOOLEAN}
    \cup {Q("/v1/chat/completions", "m2", FALSE, FALSE, 2),
          Q("/v1/files", None, FALSE, FALSE, 1)}

MCReloads == {Fleet(strategy, bound) : strategy \in {"round_robin", "weighted_random"},
                                       bound \in {<<"b1", "b2">>, <<"b2", "b2", "b3">>}}
MCConfigs == Grid \cup {Fleet("sticky", <<"b1", "b2">>)} \cup MCReloads
=============================================================================
