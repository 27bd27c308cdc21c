--------------------------- MODULE ResponsesToChat ---------------------------
(***************************************************************************)
(* A Chat Completions client of a Responses backend: the translation of    *)
(* Responses events into chat chunks (ChatCompletionsSseNormalizer) and of *)
(* a response into a chat completion.                                      *)
(***************************************************************************)
EXTENDS ChatToResponses

ChatNormalizer(emit_usage) ==
  Observer @@ [emit_usage_to_client |-> emit_usage, model |-> {}, role_sent |-> FALSE,
               text_sent |-> FALSE, tool_calls |-> <<>>, completed |-> FALSE,
               done_sent |-> FALSE]

\* A chunk for a chat client; delta is {} for an empty object.
chat_chunk(n, delta, finish_reason) ==
  sse_data([type |-> "chat.completion.chunk", model |-> UnwrapOr(n.model, "unknown"),
            choices |-> <<With([delta |-> delta], "finish_reason", finish_reason)>>])

chat_usage_chunk(n, usage) ==
  sse_data([type |-> "chat.completion.chunk", model |-> UnwrapOr(n.model, "unknown"),
            choices |-> <<>>, usage |-> usage])

SendDone(n) ==
  IF n.done_sent THEN n ELSE Emit([n EXCEPT !.done_sent = TRUE], done_event)

\* A delta with the role, if it is the first one.
SendDelta(n, delta) ==
  Emit([n EXCEPT !.role_sent = TRUE],
       chat_chunk(n, IF n.role_sent THEN delta ELSE With(delta, "role", {"assistant"}), {}))

\* A piece of a call's arguments; it carries no role.
SendArguments(n, index, arguments) ==
  IF arguments = <<>> THEN n
  ELSE Emit(n, chat_chunk(n, [tool_calls |-> <<[index |-> index, arguments |-> arguments]>>], {}))

\* Mutant: a call is announced with each of its deltas.
announce_tool_call_always(n, index) ==
  LET call == n.tool_calls[index] IN
    IF call.name = {} THEN n
    ELSE SendDelta(n, [tool_calls |-> <<[index |-> index,
                                         id |-> UnwrapOr(call.call_id, call_id(index)),
                                         name |-> UnwrapOr(call.name, "")]>>])

announce_tool_call_if_ready(n, index) ==
  LET call == n.tool_calls[index] IN
    IF call.added \/ call.name = {} THEN n
    ELSE SendDelta(SetToolCall(n, index, [call EXCEPT !.added = TRUE]),
                   [tool_calls |-> <<[index |-> index,
                                      id |-> UnwrapOr(call.call_id, call_id(index)),
                                      name |-> UnwrapOr(call.name, "")]>>])

-----------------------------------------------------------------------------
set_response_metadata(n, response) == [n EXCEPT !.model = Or(@, Get(response, "model"))]
set_event_metadata(n, event) ==
  LET inner == UnwrapOr(Get(event, "response"), <<>>) IN
    [set_response_metadata(n, inner) EXCEPT !.model = Or(@, Get(event, "model"))]

SendText(n, text) ==
  IF text = <<>> THEN n
  ELSE SendDelta([n EXCEPT !.text_sent = TRUE], [content |-> text])

ToolCallAt(n, index) ==
  IF index \in DOMAIN n.tool_calls THEN n.tool_calls[index] ELSE StreamToolCall

OutputIndex(n, event) ==
  UnwrapOr(Get(event, "output_index"), Cardinality(DOMAIN n.tool_calls))

process_function_arguments_delta(n, event) ==
  LET index == OutputIndex(n, event)
      old == ToolCallAt(n, index)
      delta == Text(event, "delta")
      new == [old EXCEPT !.call_id = Or(@, Get(event, "item_id")),
                         !.arguments = @ \o delta]
  IN SendArguments(announce_tool_call_if_ready(SetToolCall(n, index, new), index),
                   index, delta)

\* The arguments of a finished item count only if no delta brought them.
process_function_item(n, event, item, done) ==
  LET index == OutputIndex(n, event)
      old == ToolCallAt(n, index)
      late == IF done /\ old.arguments = <<>> THEN Text(item, "arguments") ELSE <<>>
      new == [old EXCEPT !.call_id = Or(@, Get(item, "id")),
                         !.name = Or(@, Get(item, "name")),
                         !.arguments = @ \o late]
  IN SendArguments(announce_tool_call_if_ready(SetToolCall(n, index, new), index),
                   index, late)

\* Mutant: the text of a finished message is sent whether or not it was streamed.
process_output_item_repeating(n, event, done) ==
  LET item == UnwrapOr(Get(event, "item"), [type |-> "none"]) IN
    CASE item.type = "function_call" -> process_function_item(n, event, item, done)
      [] item.type = "message" /\ done -> SendText(n, Text(item, "text"))
      [] OTHER -> n

process_output_item(n, event, done) ==
  LET item == UnwrapOr(Get(event, "item"), [type |-> "none"]) IN
    CASE item.type = "function_call" -> process_function_item(n, event, item, done)
      [] item.type = "message" /\ done /\ ~n.text_sent -> SendText(n, Text(item, "text"))
      [] OTHER -> n

-----------------------------------------------------------------------------
\* The text of the messages of a response, and its calls.
response_output_to_chat_message(output) ==
  LET messages == SelectSeq(output, LAMBDA item : item.type = "message")
      calls == Where(output, LAMBDA k : output[k].type = "function_call")
  IN [content |-> FlattenSeq([k \in DOMAIN messages |-> Text(messages[k], "text")]),
      tool_calls |-> [k \in DOMAIN calls |->
        LET item == output[calls[k]] IN
          [id |-> UnwrapOr(Get(item, "id"), call_id(calls[k] - 1)),
           name |-> UnwrapOr(Get(item, "name"), "unknown"),
           arguments |-> UnwrapOr(Get(item, "arguments"), <<"{}">>)]]]

\* A response that streamed neither text nor calls is sent from its output.
emit_completed_output_if_needed(n, response) ==
  LET message == response_output_to_chat_message(Text(response, "output"))
      call(m, k) ==
        LET c == message.tool_calls[k]
            new == [StreamToolCall EXCEPT !.call_id = {c.id}, !.name = {c.name},
                                          !.arguments = c.arguments]
        IN SendArguments(announce_tool_call_if_ready(SetToolCall(m, k - 1, new), k - 1),
                         k - 1, c.arguments)
  IN IF n.text_sent \/ DOMAIN n.tool_calls # {} THEN n
     ELSE FoldLeft(call, SendText(n, message.content),
                   [k \in DOMAIN message.tool_calls |-> k])

response_finish_reason(response, has_tool_calls) ==
  IF has_tool_calls THEN "tool_calls"
  ELSE IF Get(response, "status") = {"incomplete"} THEN "length" ELSE "stop"

ChatFinishResponse(n, response) ==
  LET known == set_response_metadata([n EXCEPT !.completed = TRUE],
                                     UnwrapOr(response, <<>>))
      reason == response_finish_reason(UnwrapOr(response, <<>>), DOMAIN n.tool_calls # {})
      usage == UNION {Get(r, "usage") : r \in response}
      finished == Emit(known, chat_chunk(known, <<>>, {reason}))
  IN IF n.completed THEN n
     ELSE IF n.emit_usage_to_client /\ usage # {}
          THEN Emit(finished, chat_usage_chunk(known,
                      usage_fields_from_object(UnwrapOr(usage, NoTotals))))
          ELSE finished

\* The error that stands for every failure of the backend.
ErrorData == sse_data([type |-> "upstream_error"])

fail_response(n, response) ==
  IF n.completed THEN n
  ELSE SendDone(Emit(set_response_metadata([n EXCEPT !.completed = TRUE],
                                           UnwrapOr(response, <<>>)), ErrorData))

process_response_event(n, event) ==
  LET known == set_event_metadata(n, event)
      response == Get(event, "response")
  IN CASE event.type = "response.output_text.delta" -> SendText(known, Text(event, "delta"))
       [] event.type = "response.function_call_arguments.delta" ->
            process_function_arguments_delta(known, event)
       [] event.type = "response.output_item.added" -> process_output_item(known, event, FALSE)
       [] event.type = "response.output_item.done" -> process_output_item(known, event, TRUE)
       [] event.type \in {"response.completed", "response.incomplete"} ->
            ChatFinishResponse(
              emit_completed_output_if_needed(known, UnwrapOr(response, <<>>)), response)
       [] event.type \in {"response.failed", "response.cancelled", "error"} ->
            fail_response(known, response)
       [] OTHER -> known

\* ChatCompletionsSseNormalizer::handle_frame and ::finish.
ChatFinish(n) == SendDone(ChatFinishResponse(n, {}))

ChatHandleFrame(n, frame) ==
  CASE frame.line = "event" -> [n EXCEPT !.pending_event_name = {frame.name}]
    [] frame.line = "data" ->
         process_response_event(apply_data_prologue(n, frame.value), rewritten(frame.value))
    [] frame.line = "unparseable" -> [n EXCEPT !.pending_event_name = {}]
    [] frame.line = "[DONE]" -> ChatFinish([n EXCEPT !.pending_event_name = {}])
    [] frame.line = "blank" -> n

-----------------------------------------------------------------------------
ChatMessage(content, tool_calls) ==
  With([content |-> content], "tool_calls", IF tool_calls = <<>> THEN {} ELSE {tool_calls})

ChatCompletion(model, message, finish_reason, usage) ==
  [model |-> model, usage |-> usage,
   choices |-> <<[message |-> message, finish_reason |-> finish_reason]>>]

response_to_chat_completion(response) ==
  LET message == response_output_to_chat_message(Text(response, "output")) IN
    ChatCompletion(UnwrapOr(Get(response, "model"), "unknown"),
                   ChatMessage(message.content, message.tool_calls),
                   response_finish_reason(response, message.tool_calls # <<>>),
                   usage_fields_from_object(UnwrapOr(Get(response, "usage"), NoTotals)))
=============================================================================
