----------------------------- MODULE SseStrategy -----------------------------
(***************************************************************************)
(* The normalizers that do not translate (SseNormalizer and                *)
(* AnthropicSseNormalizer), the dispatch over all five (SseStrategy), and  *)
(* the translation of an answer that is not streamed                       *)
(* (rewrite_response_body).                                                *)
(***************************************************************************)
EXTENDS MessagesToChat

RequestModes ==
  {"Native", "AnthropicMessagesNative", "ResponsesViaChatCompletions",
   "ChatCompletionsViaResponses", "ChatCompletionsViaMessages"}

\* SseNormalizer::handle_data hides the usage a chat client did not ask for.
chat_usage_only_chunk(value) == Get(value, "usage") # {} /\ Get(value, "choices") = {<<>>}
remove_usage_field(value) == Without(value, "usage")

\* Mutant: the usage of a chunk with choices is passed on.
NativeHandleDataLeaking(n, value) ==
  LET seen == apply_data_prologue(n, value)
      hide == ~n.emit_usage_to_client /\ usage_objects(value) # {}
  IN IF hide /\ chat_usage_only_chunk(value) THEN seen
     ELSE Emit(seen, <<DataLine(rewritten(value))>>)

NativeHandleData(n, value) ==
  LET seen == apply_data_prologue(n, value)
      hide == ~n.emit_usage_to_client /\ usage_objects(value) # {}
  IN IF hide /\ chat_usage_only_chunk(value) THEN seen
     ELSE Emit(seen, <<DataLine(IF hide THEN remove_usage_field(rewritten(value))
                                        ELSE rewritten(value))>>)

NativeHandleFrame(n, frame) ==
  CASE frame.line = "event" -> Emit([n EXCEPT !.pending_event_name = {frame.name}], <<frame>>)
    [] frame.line = "data" -> NativeHandleData(n, frame.value)
    [] frame.line \in {"unparseable", "[DONE]"} ->
         Emit([n EXCEPT !.pending_event_name = {}], <<frame>>)
    [] frame.line = "blank" -> Emit(n, <<frame>>)

\* AnthropicSseNormalizer: the model of an event, and that of its message.
rewrite_model(value) ==
  With(RewriteModel(value), "message", {RewriteModel(m) : m \in Get(value, "message")})

AnthropicHandleFrame(n, frame) ==
  CASE frame.line = "event" -> Emit([n EXCEPT !.pending_event_name = {frame.name}], <<frame>>)
    [] frame.line = "data" ->
         Emit([n EXCEPT !.pending_event_name = {}], <<DataLine(rewrite_model(frame.value))>>)
    [] frame.line \in {"unparseable", "[DONE]"} ->
         Emit([n EXCEPT !.pending_event_name = {}], <<frame>>)
    [] frame.line = "blank" -> Emit(n, <<frame>>)

-----------------------------------------------------------------------------
(***************************************************************************)
(* SseStrategy: the fields of the normalizer of the mode, and the bytes    *)
(* its parser holds back.                                                  *)
(***************************************************************************)
NewStrategy(mode, emit_usage) ==
  CASE mode = "ResponsesViaChatCompletions" -> ResponsesNormalizer
    [] mode = "ChatCompletionsViaResponses" -> ChatNormalizer(emit_usage)
    [] mode = "ChatCompletionsViaMessages" -> MessagesNormalizer(emit_usage)
    [] mode = "Native" -> Observer @@ [emit_usage_to_client |-> emit_usage]
    [] mode = "AnthropicMessagesNative" -> Observer

HandleFrame(mode, n, frame) ==
  CASE mode = "ResponsesViaChatCompletions" -> ResponsesHandleFrame(n, frame)
    [] mode = "ChatCompletionsViaResponses" -> ChatHandleFrame(n, frame)
    [] mode = "ChatCompletionsViaMessages" -> MessagesHandleFrame(n, frame)
    [] mode = "Native" -> NativeHandleFrame(n, frame)
    [] mode = "AnthropicMessagesNative" -> AnthropicHandleFrame(n, frame)

HandleFrames(mode, n, frames) ==
  FoldLeft(LAMBDA m, frame : HandleFrame(mode, m, frame), [n EXCEPT !.output = <<>>], frames)

\* SseStrategy::push and ::finish on the frames that the parser found.
StrategyPush(mode, n, frames) == HandleFrames(mode, n, frames)
StrategyFinish(mode, n, frames) ==
  LET last == HandleFrames(mode, n, frames) IN
    CASE mode = "ResponsesViaChatCompletions" -> ResponsesFinish(last)
      [] mode = "ChatCompletionsViaResponses" -> ChatFinish(last)
      [] mode = "ChatCompletionsViaMessages" -> MessagesFinish(last)
      [] mode \in {"Native", "AnthropicMessagesNative"} -> last

\* clear_usage and clear_diagnostics; the pass-through of Messages keeps none.
Cleared(n) == [n EXCEPT !.usage = NoTotals, !.diagnostics = NoDiagnostics]

-----------------------------------------------------------------------------
\* The models of an Anthropic body are rewritten at the top level only.
rewrite_anthropic_messages_response_body_value(value) == RewriteModel(value)

rewrite_response_body(mode, json) ==
  LET named == rewrite_response_models(json)
      top == rewrite_anthropic_messages_response_body_value(json)
  IN ensure_usage_total_tokens(
       CASE mode = "Native" -> named
         [] mode = "AnthropicMessagesNative" -> top
         [] mode = "ResponsesViaChatCompletions" -> chat_completion_to_response(named)
         [] mode = "ChatCompletionsViaResponses" -> response_to_chat_completion(named)
         [] mode = "ChatCompletionsViaMessages" -> anthropic_message_to_chat_completion(top))
=============================================================================
