---------------------------- MODULE MCTranslation ----------------------------
(***************************************************************************)
(* A small set of routes, requests and answers for Translation.  The       *)
(* scripts are what backends of the three APIs send; the fields are those  *)
(* that the code reads.                                                    *)
(***************************************************************************)
EXTENDS Translation

MCPaths ==
  {[endpoint |-> "chat_completions", mode |-> m] :
     m \in {"Native", "ChatCompletionsViaResponses", "ChatCompletionsViaMessages"}} \cup
  {[endpoint |-> "responses", mode |-> m] : m \in {"Native", "ResponsesViaChatCompletions"}} \cup
  {[endpoint |-> "messages", mode |-> "AnthropicMessagesNative"]}

Policy(usage, store, limit, default, extra) ==
  [chat_stream_usage |-> usage, responses_store |-> store,
   responses_max_output_tokens |-> limit, anthropic_max_tokens |-> default,
   extra_body |-> extra]
MCPolicies ==
  {Policy("preserve", "preserve", "preserve", {2}, <<>>),
   Policy("insert", "force_false", "rename_to_max_completion_tokens", {},
          [top_k |-> 1, stream |-> FALSE]),
   Policy("force_true", "force_false", "rename_to_max_tokens", {3}, <<>>),
   Policy("preserve", "preserve", "drop", {3}, <<>>)}

-----------------------------------------------------------------------------
(***************************************************************************)
(* Requests.                                                               *)
(***************************************************************************)
Tools == <<[type |-> "function", name |-> "f"], [type |-> "function", name |-> "g"]>>
User == <<TextPart(<<"hello">>)>>
Image == [type |-> "image"]

ChatBase ==
  [model |-> PublicModel, stream |-> FALSE, tools |-> Tools,
   messages |-> <<[role |-> "system", content |-> <<TextPart(<<"be brief">>)>>],
                  [role |-> "user", content |-> User]>>]
ChatStreams ==
  LET base == [ChatBase EXCEPT !.stream = TRUE] IN
    {base} \cup {base @@ [stream_options |-> [include_usage |-> b]] : b \in BOOLEAN}

\* Requests that only some paths can serve, and ones that none can.
ChatOthers ==
  {ChatBase @@ [n |-> 1, max_tokens |-> 2, max_completion_tokens |-> 2],
   ChatBase @@ [n |-> 2], ChatBase @@ [top_logprobs |-> 1],
   ChatBase @@ [max_tokens |-> 1, max_completion_tokens |-> 2],
   ChatBase @@ [max_tokens |-> 5], ChatBase @@ [seed |-> 1],
   ChatBase @@ [tool_choice |-> [type |-> "required"]],
   ChatBase @@ [tool_choice |-> [type |-> "function", name |-> "f"]],
   ChatBase @@ [stream_options |-> [include_usage |-> TRUE, other |-> TRUE]],
   [ChatBase EXCEPT !.tools = Append(@, [type |-> "web_search"])],
   [ChatBase EXCEPT !.messages[1].role = "developer"],
   [ChatBase EXCEPT !.messages[2].content = Append(@, Image)],
   [ChatBase EXCEPT !.messages[1].content = <<Image>>],
   [ChatBase EXCEPT !.messages[2].role = "critic"],
   [ChatBase EXCEPT !.messages = @ \o
      <<[role |-> "assistant", content |-> NullContent,
         tool_calls |-> <<[name |-> "f"], [id |-> "old", name |-> "g",
                                           arguments |-> NotJson]>>],
        [role |-> "tool", tool_call_id |-> "old", content |-> NullContent]>>]}

ResponsesBase ==
  [model |-> PublicModel, stream |-> FALSE, tools |-> Append(Tools, [type |-> "web_search"]),
   instructions |-> <<"be brief">>,
   input |-> <<[type |-> "message", role |-> "user", content |-> User]>>]
OldCall == function_call_item("old", "f", <<"{}">>)
OldOutput == [type |-> "function_call_output", id |-> "old", output |-> <<"done">>]
ResponsesOthers ==
  {ResponsesBase @@ [previous_response_id |-> "r"], ResponsesBase @@ [max_output_tokens |-> 1],
   ResponsesBase @@ [max_output_tokens |-> 1, max_tokens |-> 2],
   Without(ResponsesBase, "model"), [ResponsesBase EXCEPT !.instructions = <<>>],
   [ResponsesBase EXCEPT !.input = Append(@, OldCall)],
   [ResponsesBase EXCEPT !.input = @ \o <<OldOutput, OldCall>>],
   [ResponsesBase EXCEPT !.input = @ \o <<[type |-> "reasoning", summary |-> <<"hm">>],
      OldCall, [OldCall EXCEPT !.id = "older"], OldOutput, [OldOutput EXCEPT !.id = "older"]>>],
   [ResponsesBase EXCEPT !.input[1].content = <<[type |-> "refusal", text |-> <<"no">>], Image>>],
   [ResponsesBase EXCEPT !.input[1].content = <<[type |-> "input_file"]>>],
   [ResponsesBase EXCEPT !.input[1].role = "developer"]}

MessagesBase ==
  [model |-> PublicModel, stream |-> FALSE, messages |-> <<[role |-> "user", content |-> User]>>]

MCRequests(endpoint) ==
  CASE endpoint = "chat_completions" -> {ChatBase} \cup ChatStreams \cup ChatOthers
    [] endpoint = "responses" ->
         {ResponsesBase, [ResponsesBase EXCEPT !.stream = TRUE]} \cup ResponsesOthers
    [] endpoint = "messages" ->
         {MessagesBase, [MessagesBase EXCEPT !.stream = TRUE] @@ [max_tokens |-> 1]}

-----------------------------------------------------------------------------
(***************************************************************************)
(* Answers.                                                                *)
(***************************************************************************)
Call(id, name, arguments) == [id |-> id, name |-> name, arguments |-> arguments]
Answer(text, calls, reason) == [text |-> text, calls |-> calls, reason |-> reason]
Answers ==
  {Answer(<<"a", "b">>, <<>>, "stop"), Answer(<<"a">>, <<>>, "length"),
   Answer(<<>>, <<>>, "stop"),
   Answer(<<"a">>, <<Call({"id1"}, "f", <<"x", "y">>)>>, "tool_calls"),
   Answer(<<>>, <<Call({"id1"}, "f", <<"x">>), Call({"id2"}, "g", <<>>)>>, "tool_calls"),
   Answer(<<>>, <<Call({}, "f", <<"x">>), Call({}, "g", <<"y">>)>>, "tool_calls")}

\* Token counts: the total is there, and is not the sum, or is missing.
UsageA == [input |-> 3, output |-> 2, total |-> 6]
UsageB == [input |-> 3, output |-> 2]

Exchange(api, answer, body, script, whole, usage) ==
  [api |-> api, answer |-> answer, body |-> body, script |-> script, whole |-> whole,
   wire |-> Wire(script), usage |-> usage]

\* A Chat Completions backend.
ChatCalls(answer) ==
  [k \in DOMAIN answer.calls |->
    With([name |-> answer.calls[k].name, arguments |-> answer.calls[k].arguments],
         "id", answer.calls[k].id)]
ChatBody(answer, usage) ==
  With([model |-> BackendModel,
        choices |-> <<[message |-> ChatMessage(answer.text, ChatCalls(answer)),
                       finish_reason |-> answer.reason]>>], "usage", usage)

ChatLine(choices, usage) ==
  sse_data(With([type |-> "chat.completion.chunk", model |-> BackendModel,
                 choices |-> choices], "usage", usage))
ChatDelta(delta) == ChatLine(<<[delta |-> delta]>>, {})

\* A call comes with its name, then its arguments.
ChatNameLines(call, k) ==
  ChatDelta([tool_calls |-> <<[index |-> k - 1] @@ [name |-> call.name] @@
                              With(<<>>, "id", Get(call, "id"))>>])
ChatArgumentLines(call, k) ==
  FlattenSeq([p \in DOMAIN call.arguments |->
    ChatDelta([tool_calls |-> <<[index |-> k - 1, arguments |-> <<call.arguments[p]>>]>>])])

\* Calls come one after the other, or side by side (the last one named grows
\* first), or, from some backends, all at once and with no index.
ChatCallLines(calls, style) ==
  LET names == [k \in DOMAIN calls |-> ChatNameLines(calls[k], k)]
      arguments == [k \in DOMAIN calls |-> ChatArgumentLines(calls[k], k)]
  IN CASE style = "one by one" -> FlattenSeq([k \in DOMAIN calls |-> names[k] \o arguments[k]])
       [] style = "side by side" -> FlattenSeq(names) \o FlattenSeq(Reverse(arguments))
       [] style = "at once" -> ChatDelta([tool_calls |-> calls])

ChatScript(answer, style, usage, place, done) ==
  LET calls == ChatCalls(answer) IN
    ChatDelta([role |-> "assistant", content |-> <<>>]) \o
    FlattenSeq([k \in DOMAIN answer.text |-> ChatDelta([content |-> <<answer.text[k]>>])]) \o
    ChatCallLines(calls, style) \o
    ChatLine(<<[delta |-> <<>>, finish_reason |-> answer.reason]>>,
             IF place = "finish" THEN usage ELSE {}) \o
    (IF place = "after" THEN ChatLine(<<>>, usage) ELSE <<>>) \o
    (IF done THEN done_event ELSE <<>>)

\* A backend that is asked for its usage reports it.
ChatExchanges(places) ==
  LET exchange_of(answer, style, usage, place, done) ==
        LET reported == IF place = "none" THEN {} ELSE {usage} IN
          Exchange("chat_completions", answer, ChatBody(answer, {usage}),
                   ChatScript(answer, style, reported, place, done), TRUE, reported)
      called == {a \in Answers : a.calls # <<>>}
  IN {exchange_of(a, "one by one", UsageA, p, d) : a \in Answers, p \in places, d \in BOOLEAN} \cup
     {exchange_of(a, "at once", UsageB, p, TRUE) : a \in called, p \in places} \cup
     {exchange_of(a, "side by side", UsageB, p, TRUE) :
        a \in {b \in called : Len(b.calls) > 1}, p \in places}
ChatExchangesAsked == ChatExchanges({"finish", "after"})
ChatExchangesNotAsked == ChatExchanges({"none", "finish"})

-----------------------------------------------------------------------------
\* A Responses backend.
ResponseItems(answer) ==
  (IF answer.text = <<>> THEN <<>> ELSE <<message_item("m", answer.text)>>) \o
  [k \in DOMAIN answer.calls |->
    With([type |-> "function_call", name |-> answer.calls[k].name,
          arguments |-> answer.calls[k].arguments], "id", answer.calls[k].id)]
ResponseBody(answer, status, items, usage) ==
  With([model |-> BackendModel, status |-> status, output |-> items], "usage", usage)
FinalStatus(answer) == IF answer.reason = "length" THEN "incomplete" ELSE "completed"

ResponseLines(value) == sse_event(value)
ItemEvents(item, index) ==
  LET event(type, more) == ResponseLines([type |-> type, output_index |-> index] @@ more)
      message == item.type = "message"
      delta == IF message THEN "response.output_text.delta"
               ELSE "response.function_call_arguments.delta"
      pieces == IF message THEN item.text ELSE item.arguments
  IN [added |-> event("response.output_item.added",
                      [item |-> IF message THEN [item EXCEPT !.text = <<>>]
                                ELSE [item EXCEPT !.arguments = <<>>]]),
      deltas |-> FlattenSeq([p \in DOMAIN pieces |-> event(delta, [delta |-> <<pieces[p]>>])]),
      done |-> event("response.output_item.done", [item |-> item])]

\* Items come only with the end, or also whole, or piece by piece, one after
\* the other or side by side.
ItemLines(items, style) ==
  LET events == [k \in DOMAIN items |-> ItemEvents(items[k], k - 1)]
      flat(f(_)) == FlattenSeq([k \in DOMAIN items |-> f(events[k])])
  IN CASE style = "final" -> <<>>
       [] style = "items" -> flat(LAMBDA v : v.done)
       [] style = "deltas" -> flat(LAMBDA v : v.added \o v.deltas \o v.done)
       [] style = "side by side" -> flat(LAMBDA v : v.added) \o
            FlattenSeq(Reverse([k \in DOMAIN items |-> events[k].deltas])) \o
            flat(LAMBDA v : v.done)

ResponsesScript(answer, style, end, usage) ==
  LET items == ResponseItems(answer)
      status == FinalStatus(answer)
  IN ResponseLines([type |-> "response.created",
                    response |-> ResponseBody(answer, "in_progress", <<>>, {})]) \o
     ItemLines(items, style) \o
     CASE end = "whole" -> ResponseLines([type |-> IF status = "completed"
                               THEN "response.completed" ELSE "response.incomplete",
                             response |-> ResponseBody(answer, status, items, usage)])
       [] end = "failed" -> ResponseLines([type |-> "response.failed",
                             response |-> ResponseBody(answer, "failed", <<>>, {})])
       [] end = "missing" -> <<>>

ResponsesExchanges ==
  {Exchange("responses", a, ResponseBody(a, FinalStatus(a), ResponseItems(a), {UsageB}),
            ResponsesScript(a, s, e, u), e = "whole", IF e = "whole" THEN u ELSE {}) :
     a \in Answers, s \in {"deltas", "side by side", "items", "final"}, e \in {"whole", "failed", "missing"},
     u \in {{}, {UsageB}}}

-----------------------------------------------------------------------------
\* A Messages backend.
StopReason(reason) ==
  CASE reason = "stop" -> "end_turn" [] reason = "length" -> "max_tokens"
    [] reason = "tool_calls" -> "tool_use"
Blocks(answer) ==
  (IF answer.text = <<>> THEN <<>> ELSE <<TextPart(answer.text)>>) \o
  [k \in DOMAIN answer.calls |->
    With([type |-> "tool_use", name |-> answer.calls[k].name,
          input |-> IF answer.calls[k].arguments = <<>> THEN <<"{}">>
                    ELSE answer.calls[k].arguments], "id", answer.calls[k].id)]
MessageBody(answer, usage) ==
  With([model |-> BackendModel, content |-> Blocks(answer),
        stop_reason |-> StopReason(answer.reason)], "usage", usage)

BlockLines(block, index, pieces) ==
  LET event(type, more) == sse_event([type |-> type, index |-> index] @@ more)
      delta(p) == IF IsText(block) THEN [type |-> "text_delta", text |-> <<p>>]
                                   ELSE [type |-> "input_json_delta", partial_json |-> <<p>>]
  IN event("content_block_start", [content_block |-> Without(Without(block, "input"), "text")]) \o
     FlattenSeq([p \in DOMAIN pieces |->
                  event("content_block_delta", [delta |-> delta(pieces[p])])]) \o
     event("content_block_stop", <<>>)

MessagesScript(answer, end, usage) ==
  LET blocks == Blocks(answer)
      texts == Len(blocks) - Len(answer.calls)
      pieces(k) == IF k <= texts THEN answer.text ELSE answer.calls[k - texts].arguments
      started == With([id |-> "msg", model |-> BackendModel], "usage",
                      {[input |-> u.input, output |-> 1] : u \in usage})
      ended == With([type |-> "message_delta",
                     delta |-> [stop_reason |-> StopReason(answer.reason)]], "usage",
                    {[output |-> u.output] : u \in usage})
  IN sse_event([type |-> "message_start", message |-> started]) \o
     FlattenSeq([k \in DOMAIN blocks |-> BlockLines(blocks[k], k - 1, pieces(k))]) \o
     CASE end = "whole" -> sse_event(ended) \o sse_event([type |-> "message_stop"])
       [] end = "failed" -> sse_event([type |-> "error"])
       [] end = "missing" -> <<>>

MessagesExchanges ==
  {Exchange("messages", a, MessageBody(a, {UsageB}), MessagesScript(a, e, u),
            e = "whole", IF e = "whole" THEN u ELSE {}) :
     a \in Answers, e \in {"whole", "failed", "missing"}, u \in {{}, {UsageB}}}

MCExchanges(api, outbound_body) ==
  CASE api = "chat_completions" ->
         IF UNION {Get(o, "include_usage") : o \in Get(outbound_body, "stream_options")} = {TRUE}
         THEN ChatExchangesAsked ELSE ChatExchangesNotAsked
    [] api = "responses" -> ResponsesExchanges
    [] api = "messages" -> MessagesExchanges
=============================================================================
