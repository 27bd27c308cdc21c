----------------------------- MODULE RequestModes -----------------------------
(***************************************************************************)
(* The requests, continued: Chat Completions to Messages, the requests     *)
(* that keep their API, and the dispatch over the request modes.           *)
(***************************************************************************)
EXTENDS RequestRewrite

(***************************************************************************)
(* Chat Completions to Messages.  The set of pending tool uses that the    *)
(* code keeps along is never consulted.                                    *)
(***************************************************************************)
chat_instruction_text(content) == chat_content_to_instruction_text(content)

chat_message_content_to_anthropic_blocks(content, allow_empty_null) ==
  IF content = NullContent THEN IF allow_empty_null THEN <<>> ELSE <<TextPart(<<>>)>>
  ELSE [k \in DOMAIN content |-> IF IsText(content[k]) THEN content[k] ELSE Invalid("messages")]

\* A result that has no content is the empty text.
tool_message_content_to_anthropic(content) ==
  IF content = NullContent THEN TextPart(<<>>)
  ELSE IF \A k \in DOMAIN content : IsText(content[k]) THEN TextPart(TextOf(content))
  ELSE Invalid("messages")

\* Arguments that do not parse.
NotJson == <<"not json">>

ToolUse(call, k) ==
  LET arguments == UnwrapOr(Get(call, "arguments"), <<"{}">>) IN
    IF \/ UnwrapOr(Get(call, "type"), "function") # "function"
       \/ Get(call, "name") = {} \/ arguments = NotJson
    THEN Invalid("messages")
    ELSE [type |-> "tool_use", id |-> UnwrapOr(Get(call, "id"), call_id(k - 1)),
          name |-> call.name, input |-> arguments]

append_chat_message_to_anthropic(acc, message) ==
  LET role == message.role
      content == UnwrapOr(Get(message, "content"), NullContent)
      text == chat_instruction_text(content)
      calls == Text(message, "tool_calls")
      blocks == chat_message_content_to_anthropic_blocks(content, role = "assistant") \o
                [k \in DOMAIN calls |-> ToolUse(calls[k], k)]
      result == tool_message_content_to_anthropic(content)
      push(as, items) ==
        [acc EXCEPT !.messages = Append(@, IF Errors(items) # <<>> THEN Invalid("messages")
                                           ELSE [role |-> as, content |-> items])]
      refuse == push(role, <<Invalid("messages")>>)
  IN CASE role \in {"system", "developer"} ->
            IF Get(message, "content") = {} \/ text = Invalid("messages") THEN refuse
            ELSE IF text.text = <<>> THEN acc
            ELSE [acc EXCEPT !.system = Append(@, text.text)]
       [] role \in {"user", "assistant"} -> push(role, blocks)
       [] role = "tool" ->
            IF Get(message, "tool_call_id") = {} \/ result = Invalid("messages") THEN refuse
            ELSE push("user", <<[type |-> "tool_result", id |-> message.tool_call_id,
                                 content |-> result.text]>>)
       [] OTHER -> refuse

\* Parameters that are known, and, in the order in which they are looked for, the
\* ones among them that are refused whatever their value.
RefusedByMessages ==
  <<"presence_penalty", "frequency_penalty", "logit_bias", "seed", "response_format",
    "user", "audio", "modalities", "prediction">>
KnownToMessages ==
  {"model", "messages", "tools", "tool_choice", "max_tokens", "max_completion_tokens",
   "stop", "temperature", "top_p", "stream", "n", "logprobs", "top_logprobs",
   "parallel_tool_calls", "stream_options"} \cup ToSet(RefusedByMessages)
validate_stream_options(options) ==
  Unless(DOMAIN options \subseteq {"include_usage"}, "stream_options")
validate_chat_to_anthropic_options(object) ==
  LET unknown == SetToSeq(DOMAIN object \ KnownToMessages)
      refused == SelectSeq(RefusedByMessages, LAMBDA key : key \in DOMAIN object)
  IN unknown \o SingleAnswer(object) \o refused \o
     Unless(Get(object, "parallel_tool_calls") \subseteq {FALSE}, "parallel_tool_calls") \o
     FlattenSeq(SetToSeq({validate_stream_options(o) : o \in Get(object, "stream_options")}))

\* A limit that is no u32 counts as absent.
AsU32(limit) == {v \in limit : v <= U32Max}
resolve_max_tokens(object, anthropic_max_tokens) ==
  LET max_tokens == AsU32(Get(object, "max_tokens"))
      max_completion_tokens == AsU32(Get(object, "max_completion_tokens"))
  IN IF max_tokens # {} /\ max_completion_tokens # {} /\ max_tokens # max_completion_tokens
     THEN {}
     ELSE Or(Or(max_tokens, max_completion_tokens), anthropic_max_tokens)

chat_tools_to_anthropic_tools(tools) ==
  [k \in DOMAIN tools |-> IF IsFunction(tools[k]) /\ Get(tools[k], "name") # {}
                          THEN [name |-> tools[k].name] ELSE Invalid("tools")]

chat_tool_choice_to_anthropic(choice) ==
  CASE choice.type = "auto" -> choice
    [] choice.type = "required" -> [type |-> "any"]
    [] choice.type = "none" -> choice
    [] IsFunction(choice) /\ Get(choice, "name") # {} -> [type |-> "tool", name |-> choice.name]
    [] OTHER -> Invalid("tool_choice")

rewrite_chat_request_as_anthropic(object, policies) ==
  LET talk == FoldLeft(append_chat_message_to_anthropic,
                       [system |-> <<>>, messages |-> <<>>], Text(object, "messages"))
      limit == resolve_max_tokens(object, policies.anthropic_max_tokens)
      tools == chat_tools_to_anthropic_tools(Text(object, "tools"))
      choice == {chat_tool_choice_to_anthropic(c) : c \in Get(object, "tool_choice")}
      base == [model |-> BackendModel, messages |-> talk.messages,
               max_tokens |-> UnwrapOr(limit, 0)] @@
              PickFields(object, {"temperature", "top_p", "stream"})
      full == With(With(With(With(base, "system", NonEmpty(talk.system)),
                "stop_sequences", Get(object, "stop")), "tools", NonEmpty(tools)),
                "tool_choice", choice)
  IN Result(validate_chat_to_anthropic_options(object) \o
            Unless(Get(object, "messages") # {}, "messages") \o
            Unless(limit # {}, "max_tokens") \o Errors(talk.messages) \o Errors(tools) \o
            ToolChoiceErrors(choice),
            apply_extra_body(full, policies.extra_body))

-----------------------------------------------------------------------------
(***************************************************************************)
(* Requests that keep their API, and the dispatch.                         *)
(***************************************************************************)

\* Every call in the input of a Responses request has an id and an output.
validate_responses_tool_history(object) ==
  LET items == ToSet(Text(object, "input"))
      calls == {item \in items : item.type = "function_call"}
      outputs == UNION {Get(item, "id") : item \in {i \in items :
                                            i.type = "function_call_output"}}
  IN Unless(\A call \in calls : Get(call, "id") # {} /\ call.id \in outputs, "input")

rewrite_anthropic_messages_request_body(object, policies) ==
  LET limit == Or(Get(object, "max_tokens"), policies.anthropic_max_tokens) IN
    Result(Unless(limit # {}, "max_tokens"),
           With(With(object, "model", {BackendModel}), "max_tokens", limit))

\* A body without a model is sent as it came.
rewrite_json_request_body(object, endpoint, policies) ==
  LET named == With(object, "model", {BackendModel})
      ready == CASE endpoint = "responses" ->
                      rewrite_native_responses_max_output_tokens(
                        ForceStore(named, policies.responses_store),
                        policies.responses_max_output_tokens)
                 [] endpoint = "chat_completions" ->
                      apply_chat_stream_usage_policy(named, policies.chat_stream_usage)
                 [] OTHER -> named
  IN IF Get(object, "model") = {} THEN object ELSE apply_extra_body(ready, policies.extra_body)

rewrite_request_body_for_mode_with_policies(object, endpoint, mode, policies) ==
  LET history == IF endpoint = "responses" THEN validate_responses_tool_history(object)
                                           ELSE <<>>
  IN Result(history,
       CASE mode = "AnthropicMessagesNative" ->
              rewrite_anthropic_messages_request_body(object, policies)
         [] mode = "ResponsesViaChatCompletions" ->
              rewrite_responses_request_as_chat(object, policies)
         [] mode = "ChatCompletionsViaResponses" ->
              rewrite_chat_request_as_responses(object, policies)
         [] mode = "ChatCompletionsViaMessages" ->
              rewrite_chat_request_as_anthropic(object, policies)
         [] mode = "Native" -> rewrite_json_request_body(object, endpoint, policies))

\* The API that the backend is asked in.
upstream_path_for_mode(endpoint, mode) ==
  CASE mode = "ResponsesViaChatCompletions" -> "chat_completions"
    [] mode = "ChatCompletionsViaResponses" -> "responses"
    [] mode = "ChatCompletionsViaMessages" -> "messages"
    [] OTHER -> endpoint

\* inspect_json_body: what the proxy itself reads in the request.
inspect_request(object) ==
  [stream |-> Get(object, "stream") = {TRUE},
   stream_usage_requested |->
     UNION {Get(o, "include_usage") : o \in Get(object, "stream_options")} = {TRUE},
   has_tools |-> Text(object, "tools") # <<>>]
=============================================================================
