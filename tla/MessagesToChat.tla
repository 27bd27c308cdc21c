---------------------------- MODULE MessagesToChat ----------------------------
(***************************************************************************)
(* A Chat Completions client of a Messages backend: the translation of     *)
(* Messages events into chat chunks (AnthropicMessagesToChatSseNormalizer) *)
(* and of a message into a chat completion.  The chunks are built as those *)
(* of ResponsesToChat; the id of the answer is only there or not.          *)
(***************************************************************************)
EXTENDS ResponsesToChat

MessagesNormalizer(emit_usage) ==
  ChatNormalizer(emit_usage) @@ [message_id |-> FALSE, finish_reason |-> {}]

chat_finish_reason_from_anthropic_stop_reason(stop_reason) ==
  CASE stop_reason = "max_tokens" -> "length"
    [] stop_reason = "tool_use" -> "tool_calls"
    [] OTHER -> "stop"

\* The usage of an event replaces what was observed, field by field.
observe_usage(n, event) ==
  LET message == UnwrapOr(Get(event, "message"), <<>>)
      delta == UnwrapOr(Get(event, "delta"), <<>>)
      usage == Or(Or(Get(event, "usage"), Get(message, "usage")), Get(delta, "usage"))
      count(field) == UnwrapOr(Get(UnwrapOr(usage, <<>>), field), n.usage[field])
  IN IF usage = {} THEN n
     ELSE [n EXCEPT !.diagnostics.usage_object_count = @ + 1,
                    !.usage = [input |-> count("input"), output |-> count("output"),
                               total |-> count("input") + count("output")]]

MessagesFinishResponse(n) ==
  LET default == IF DOMAIN n.tool_calls = {} THEN "stop" ELSE "tool_calls"
      finished == Emit([n EXCEPT !.completed = TRUE],
                       chat_chunk(n, <<>>, {UnwrapOr(n.finish_reason, default)}))
  IN IF n.completed THEN n
     ELSE SendDone(IF n.emit_usage_to_client /\ n.diagnostics.usage_object_count > 0
                   THEN Emit(finished, chat_usage_chunk(n, n.usage))
                   ELSE finished)

\* Unlike fail_response, an error is reported also after the end of the message.
error_frame(n) == SendDone(Emit([n EXCEPT !.completed = TRUE], ErrorData))

BlockIndex(n, event) == UnwrapOr(Get(event, "index"), Cardinality(DOMAIN n.tool_calls))

process_content_block_start(n, event) ==
  LET index == BlockIndex(n, event)
      block == UnwrapOr(Get(event, "content_block"), [type |-> "none"])
      new == [ToolCallAt(n, index) EXCEPT !.call_id = Or(Get(block, "id"), {call_id(index)}),
                                          !.name = Get(block, "name")]
  IN IF block.type # "tool_use" THEN n
     ELSE announce_tool_call_if_ready(SetToolCall(n, index, new), index)

process_content_block_delta(n, event) ==
  LET index == BlockIndex(n, event)
      json == Text(event.delta, "partial_json")
      new == [ToolCallAt(n, index) EXCEPT !.arguments = @ \o json]
  IN CASE event.delta.type = "text_delta" -> SendText(n, Text(event.delta, "text"))
       [] event.delta.type = "input_json_delta" /\ json # <<>> ->
            SendArguments(announce_tool_call_if_ready(SetToolCall(n, index, new), index),
                          index, json)
       [] OTHER -> n

process_message_delta(n, event) ==
  LET reasons == Get(event.delta, "stop_reason") IN
    [n EXCEPT !.finish_reason =
       Or({chat_finish_reason_from_anthropic_stop_reason(s) : s \in reasons}, @)]

process_event(n, event) ==
  CASE event.type = "content_block_start" -> process_content_block_start(n, event)
    [] event.type = "content_block_delta" -> process_content_block_delta(n, event)
    [] event.type = "message_delta" -> process_message_delta(n, event)
    [] event.type = "message_stop" -> MessagesFinishResponse(n)
    [] event.type = "error" -> error_frame(n)
    [] OTHER -> n

\* handle_data: the id and the public name of the model, then the usage, then
\* the event.
MessagesHandleData(n, value) ==
  LET event == RewriteModel(value)
      message == UnwrapOr(Get(event, "message"), <<>>)
      model == Or(Or(n.model, Get(message, "model")), Get(event, "model"))
      known == [n EXCEPT !.message_id = @ \/ Get(message, "id") # {},
                         !.model = {IF m = BackendModel THEN PublicModel ELSE m : m \in model}]
  IN process_event(observe_usage(known, event), event)

\* AnthropicMessagesToChatSseNormalizer::finish and ::handle_frame.
MessagesFinish(n) ==
  SendDone(IF n.message_id THEN MessagesFinishResponse(n) ELSE n)

MessagesHandleFrame(n, frame) ==
  CASE frame.line = "event" -> [n EXCEPT !.pending_event_name = {frame.name}]
    [] frame.line = "data" -> MessagesHandleData(n, frame.value)
    [] frame.line = "unparseable" -> [n EXCEPT !.pending_event_name = {}]
    [] frame.line = "[DONE]" -> MessagesFinish([n EXCEPT !.pending_event_name = {}])
    [] frame.line = "blank" -> n

-----------------------------------------------------------------------------
\* The text blocks of a message, and its tool uses; an absent input is {}.
anthropic_content_to_chat_message(blocks) ==
  LET uses == Where(blocks, LAMBDA k : blocks[k].type = "tool_use")
      texts == SelectSeq(blocks, LAMBDA b : b.type = "text")
  IN [content |-> FlattenSeq([k \in DOMAIN texts |-> Text(texts[k], "text")]),
      tool_calls |-> [k \in DOMAIN uses |->
        LET block == blocks[uses[k]] IN
          [id |-> UnwrapOr(Get(block, "id"), call_id(uses[k] - 1)),
           name |-> UnwrapOr(Get(block, "name"), "unknown"),
           arguments |-> UnwrapOr(Get(block, "input"), <<"{}">>)]]]

anthropic_usage_to_chat_usage(usage) ==
  LET input == UnwrapOr(Get(usage, "input"), 0)
      output == UnwrapOr(Get(usage, "output"), 0)
  IN [input |-> input, output |-> output, total |-> input + output]

anthropic_message_to_chat_completion(message) ==
  LET said == anthropic_content_to_chat_message(Text(message, "content"))
      reasons == Get(message, "stop_reason")
  IN ChatCompletion(UnwrapOr(Get(message, "model"), "unknown"),
       ChatMessage(said.content, said.tool_calls),
       UnwrapOr({chat_finish_reason_from_anthropic_stop_reason(s) : s \in reasons}, "stop"),
       anthropic_usage_to_chat_usage(UnwrapOr(Get(message, "usage"), <<>>)))
=============================================================================
