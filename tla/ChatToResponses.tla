--------------------------- MODULE ChatToResponses ---------------------------
(***************************************************************************)
(* A Responses client of a Chat Completions backend: the translation of a  *)
(* chat stream into Responses events (ResponsesSseNormalizer) and of a     *)
(* chat completion into a response.                                        *)
(*                                                                         *)
(* A tool call of a chat message or delta has its function's name and      *)
(* arguments as fields of its own.                                         *)
(***************************************************************************)
EXTENDS ApiValues

\* format!("call_{index}"), for the indices that occur.
call_id(index) == <<"call_0", "call_1", "call_2", "call_3">>[index + 1]

\* message_id_from_response, for a choice of the completion.
message_id(index) == <<"msg_0", "msg_1">>[index + 1]
MessageId == message_id(0)

StreamToolCall == [call_id |-> {}, name |-> {}, arguments |-> <<>>, added |-> FALSE]

ResponsesNormalizer ==
  Observer @@ [model |-> {}, response_started |-> FALSE, text_started |-> FALSE,
               output_text |-> <<>>, tool_calls |-> <<>>, completed |-> FALSE]

\* The indices of the tool calls, in order; tool_calls is a BTreeMap.
Indices(n) == SetToSortSeq(DOMAIN n.tool_calls, <)

SetToolCall(n, index, call) == [n EXCEPT !.tool_calls = (index :> call) @@ @]

-----------------------------------------------------------------------------
message_item(id, text) == [type |-> "message", id |-> id, text |-> text]
function_call_item(id, name, arguments) ==
  [type |-> "function_call", id |-> id, name |-> name, arguments |-> arguments]

\* The usage of the response object is what the normalizer has observed.
response_object(n, status, items) ==
  [status |-> status, model |-> UnwrapOr(n.model, "unknown"), output |-> items,
   usage |-> [input |-> n.usage.input, output |-> n.usage.output,
              total |-> IF n.usage.total > 0 THEN n.usage.total
                        ELSE n.usage.input + n.usage.output]]

ResponseEvent(type, response) == sse_event([type |-> type, response |-> response])
ItemEvent(type, index, item) ==
  sse_event([type |-> type, output_index |-> index, item |-> item])
DeltaEvent(type, index, id, delta) ==
  sse_event([type |-> type, output_index |-> index, item_id |-> id, delta |-> delta])

start_response_events(n) ==
  IF n.response_started THEN n
  ELSE Emit([n EXCEPT !.response_started = TRUE],
            ResponseEvent("response.created", response_object(n, "in_progress", <<>>)) \o
            ResponseEvent("response.in_progress", response_object(n, "in_progress", <<>>)))

start_text_events(n) ==
  IF n.text_started THEN n
  ELSE Emit([n EXCEPT !.text_started = TRUE],
            ItemEvent("response.output_item.added", 0, message_item(MessageId, <<>>)) \o
            DeltaEvent("response.content_part.added", 0, MessageId, <<>>))

process_text(n, text) ==
  IF text = <<>> THEN n
  ELSE Emit([start_text_events(n) EXCEPT !.output_text = @ \o text],
            DeltaEvent("response.output_text.delta", 0, MessageId, text))

\* One delta of process_tool_call_deltas.  A call is announced once its name is
\* known, with the id it came with or one that is made up.
process_tool_call_delta(n, delta) ==
  LET index == UnwrapOr(Get(delta, "index"), Cardinality(DOMAIN n.tool_calls))
      old == IF index \in DOMAIN n.tool_calls THEN n.tool_calls[index] ELSE StreamToolCall
      name == Or(Get(delta, "name"), old.name)
      arguments == Text(delta, "arguments")
      id == Or(Or(old.call_id, Get(delta, "id")),
               IF name # {} \/ arguments # <<>> THEN {call_id(index)} ELSE {})
      announce == ~old.added /\ name # {}
      new == [call_id |-> id, name |-> name, arguments |-> old.arguments \o arguments,
              added |-> old.added \/ announce]
      shown == UnwrapOr(id, "")
  IN Emit(SetToolCall(n, index, new),
          (IF announce
           THEN ItemEvent("response.output_item.added", index,
                          function_call_item(shown, UnwrapOr(name, ""), <<>>))
           ELSE <<>>) \o
          (IF arguments # <<>>
           THEN DeltaEvent("response.function_call_arguments.delta", index, shown, arguments)
           ELSE <<>>))

\* What closes the message, then every call, then the response.
finished_call(n, index) ==
  LET call == n.tool_calls[index] IN
    function_call_item(UnwrapOr(call.call_id, call_id(index)),
                       UnwrapOr(call.name, "unknown"), call.arguments)

finish_response(n) ==
  LET item == message_item(MessageId, n.output_text)
      message == IF ~n.text_started THEN <<>>
                 ELSE DeltaEvent("response.output_text.done", 0, MessageId, n.output_text) \o
                      DeltaEvent("response.content_part.done", 0, MessageId, n.output_text) \o
                      ItemEvent("response.output_item.done", 0, item)
      call(index) ==
        LET done == finished_call(n, index) IN
          DeltaEvent("response.function_call_arguments.done", index, done.id, done.arguments) \o
          ItemEvent("response.output_item.done", index, done)
      order == Indices(n)
      items == (IF n.text_started THEN <<item>> ELSE <<>>) \o
               [k \in DOMAIN order |-> finished_call(n, order[k])]
  IN IF n.completed THEN n
     ELSE Emit([n EXCEPT !.completed = TRUE],
               message \o FlattenSeq([k \in DOMAIN order |-> call(order[k])]) \o
               ResponseEvent("response.completed", response_object(n, "completed", items)))

\* The body of the loop over the choices of a chunk.
process_choice(n, choice) ==
  LET delta == choice.delta
      said == process_text(n, Text(delta, "content"))
      called == FoldLeft(process_tool_call_delta, said, Text(delta, "tool_calls"))
  IN IF Get(choice, "finish_reason") = {} THEN called ELSE finish_response(called)

process_chat_chunk(n, chunk) ==
  LET known == [n EXCEPT !.model = Or(@, Get(chunk, "model"))] IN
    FoldLeft(process_choice, start_response_events(known), Text(chunk, "choices"))

\* ResponsesSseNormalizer::handle_frame and ::finish.
ResponsesHandleFrame(n, frame) ==
  CASE frame.line = "event" ->
         Emit([n EXCEPT !.pending_event_name = {frame.name}], <<frame>>)
    [] frame.line = "data" ->
         process_chat_chunk(apply_data_prologue(n, frame.value), rewritten(frame.value))
    [] frame.line = "unparseable" -> Emit([n EXCEPT !.pending_event_name = {}], <<frame>>)
    [] frame.line = "[DONE]" ->
         Emit(finish_response([n EXCEPT !.pending_event_name = {}]), <<frame>>)
    [] frame.line = "blank" -> Emit(n, <<frame>>)

ResponsesFinish(n) == finish_response(n)

-----------------------------------------------------------------------------
\* format!("call_{index}_{tool_index}").
buffered_call_id(index, k) ==
  <<<<"call_0_0", "call_0_1">>, <<"call_1_0", "call_1_1">>>>[index + 1][k]

\* One choice of a chat completion: a message if there is text, then the calls.
response_items(index, choice) ==
  LET text == Text(choice.message, "content")
      calls == Text(choice.message, "tool_calls")
  IN (IF text = <<>> THEN <<>> ELSE <<message_item(message_id(index), text)>>) \o
     [k \in DOMAIN calls |->
       function_call_item(UnwrapOr(Get(calls[k], "id"), buffered_call_id(index, k)),
                          UnwrapOr(Get(calls[k], "name"), "unknown"),
                          UnwrapOr(Get(calls[k], "arguments"), <<"{}">>))]

chat_completion_to_response(completion) ==
  [status |-> "completed",
   model |-> UnwrapOr(Get(completion, "model"), "unknown"),
   output |-> FlattenSeq([k \in DOMAIN completion.choices |->
                           response_items(k - 1, completion.choices[k])]),
   usage |-> usage_fields_from_object(UnwrapOr(Get(completion, "usage"), NoTotals))]
=============================================================================
