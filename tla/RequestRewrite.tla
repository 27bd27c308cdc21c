---------------------------- MODULE RequestRewrite ----------------------------
(***************************************************************************)
(* The requests: what rewrite_request_body_for_mode_with_policies makes of *)
(* a JSON request before it is sent to the backend.                        *)
(*                                                                         *)
(* The content of a message is a sequence of parts; a string is its one    *)
(* text part, and null is NullContent.  A tool call has the name and       *)
(* arguments of its function as fields of its own, and id stands for       *)
(* call_id.  A request that is refused is a record with the one field      *)
(* refused: the parameter that the error names.                            *)
(***************************************************************************)
EXTENDS SseStrategy

CONSTANT U32Max          \* the largest u32

NullContent == <<[type |-> "null"]>>
TextPart(text) == [type |-> "text", text |-> text]
IsText(part) == part.type = "text"
TextOf(parts) ==
  FlattenSeq([k \in DOMAIN parts |-> IF IsText(parts[k]) THEN parts[k].text ELSE <<>>])

\* Content of text parts only becomes one string.
Joined(parts) == IF \A k \in DOMAIN parts : IsText(parts[k]) THEN <<TextPart(TextOf(parts))>>
                                                              ELSE parts

\* An Err in the middle of a conversion, and the first of a sequence of results.
Invalid(param) == [invalid |-> param]
Errors(results) ==
  LET bad == SelectSeq(results, LAMBDA result : "invalid" \in DOMAIN result) IN
    [k \in DOMAIN bad |-> bad[k].invalid]
Unless(condition, param) == IF condition THEN <<>> ELSE <<param>>
Result(problems, body) == IF problems = <<>> THEN body ELSE [refused |-> Head(problems)]

PickFields(object, fields) == [f \in DOMAIN object \cap fields |-> object[f]]

-----------------------------------------------------------------------------
(***************************************************************************)
(* Policies of a route.                                                    *)
(***************************************************************************)
PROTECTED_UPSTREAM_KEYS ==
  {"model", "stream", "messages", "input", "tools", "tool_choice", "store",
   "max_output_tokens", "max_tokens", "max_completion_tokens", "stream_options"}

apply_extra_body(object, extra) ==
  PickFields(extra, DOMAIN extra \ PROTECTED_UPSTREAM_KEYS) @@ object

\* insert keeps what the client chose, force_true does not.
apply_chat_stream_usage_policy(object, policy) ==
  LET asked == [include_usage |-> TRUE]
      options == UnwrapOr(Get(object, "stream_options"), asked)
  IN IF policy = "preserve" \/ Get(object, "stream") # {TRUE} THEN object
     ELSE With(object, "stream_options",
               {IF policy = "insert" THEN options @@ asked ELSE asked @@ options})

\* The new name does not replace a limit that is already there.
rewrite_native_responses_max_output_tokens(object, policy) ==
  LET limit == Get(object, "max_output_tokens")
      rest == Without(object, "max_output_tokens")
      renamed(field) == With(rest, field, Or(Get(rest, field), limit))
  IN CASE policy = "preserve" -> object
       [] policy = "drop" -> rest
       [] policy = "rename_to_max_tokens" -> renamed("max_tokens")
       [] policy = "rename_to_max_completion_tokens" -> renamed("max_completion_tokens")

ForceStore(object, policy) ==
  IF policy = "force_false" THEN object @@ [store |-> FALSE] ELSE object

-----------------------------------------------------------------------------
(***************************************************************************)
(* Chat Completions to Responses.                                          *)
(***************************************************************************)
chat_content_to_instruction_text(content) ==
  IF content = NullContent THEN TextPart(<<>>)
  ELSE IF \A k \in DOMAIN content : IsText(content[k]) THEN TextPart(TextOf(content))
  ELSE Invalid("messages")

chat_content_to_responses_content(content, role) ==
  LET convert(part) ==
        CASE part.type = "text" -> part
          [] part.type = "image" /\ role = "user" -> part
          [] part.type = "refusal" /\ role = "assistant" -> TextPart(Text(part, "text"))
          [] OTHER -> Invalid("messages")
      parts == [k \in DOMAIN content |-> convert(content[k])]
  IN IF Errors(parts) = <<>> THEN Joined(parts) ELSE <<Invalid("messages")>>

\* The JSON of null is the text of an output that is null.
chat_tool_output_to_string(content) ==
  IF content = NullContent THEN <<"null">> ELSE TextOf(content)

\* A call of the conversation's past.
FunctionCall(call, k) ==
  IF UnwrapOr(Get(call, "type"), "function") # "function" \/ Get(call, "name") = {}
  THEN Invalid("messages")
  ELSE function_call_item(UnwrapOr(Get(call, "id"), call_id(k - 1)), call.name,
                          UnwrapOr(Get(call, "arguments"), <<"{}">>))

append_chat_tool_calls_to_responses(calls) ==
  [k \in DOMAIN calls |-> FunctionCall(calls[k], k)]

\* Mutant: the calls of an assistant message that has no text are forgotten.
append_chat_message_to_responses_textual(acc, message) ==
  LET content == UnwrapOr(Get(message, "content"), NullContent)
      parts == chat_content_to_responses_content(content, message.role)
      said == IF content = NullContent THEN <<>>
              ELSE IF Errors(parts) # <<>> THEN parts
              ELSE <<[type |-> "message", role |-> message.role, content |-> parts]>> \o
                   append_chat_tool_calls_to_responses(Text(message, "tool_calls"))
  IN IF message.role = "tool"
     THEN [acc EXCEPT !.input = Append(@,
             [type |-> "function_call_output", id |-> message.tool_call_id,
              output |-> chat_tool_output_to_string(content)])]
     ELSE [acc EXCEPT !.input = @ \o said]

append_chat_message_to_responses(acc, message) ==
  LET role == message.role
      content == UnwrapOr(Get(message, "content"), NullContent)
      text == chat_content_to_instruction_text(content)
      parts == chat_content_to_responses_content(content, role)
      said == IF content = NullContent THEN <<>>
              ELSE IF Errors(parts) # <<>> THEN parts
              ELSE <<[type |-> "message", role |-> role, content |-> parts]>>
      push(items) == [acc EXCEPT !.input = @ \o items]
  IN CASE role \in {"system", "developer"} ->
            IF Get(message, "content") = {} \/ text = Invalid("messages")
            THEN push(<<Invalid("messages")>>)
            ELSE IF text.text = <<>> THEN acc
            ELSE [acc EXCEPT !.instructions = Append(@, text.text)]
       [] role = "user" -> push(said)
       [] role = "assistant" ->
            push(said \o append_chat_tool_calls_to_responses(Text(message, "tool_calls")))
       [] role = "tool" ->
            push(IF Get(message, "tool_call_id") = {} THEN <<Invalid("messages")>>
                 ELSE <<[type |-> "function_call_output", id |-> message.tool_call_id,
                         output |-> chat_tool_output_to_string(content)]>>)
       [] OTHER -> push(<<Invalid("messages")>>)

\* Options that only one answer, and no log probabilities, can serve.
SingleAnswer(object) ==
  Unless(Get(object, "n") \subseteq {1}, "n") \o
  Unless(Get(object, "logprobs") \subseteq {FALSE}, "logprobs") \o
  Unless(Get(object, "top_logprobs") = {}, "top_logprobs")
validate_chat_to_responses_options(object) == SingleAnswer(object)

\* A tool and a choice of a tool: function tools carry a name.
IsFunction(tool) == tool.type = "function"
chat_tools_to_responses_tools(tools) ==
  [k \in DOMAIN tools |-> IF IsFunction(tools[k]) THEN tools[k] ELSE Invalid("tools")]

chat_tool_choice_to_responses(choice) ==
  IF IsFunction(choice) /\ Get(choice, "name") = {} THEN Invalid("tool_choice") ELSE choice

ToolChoiceErrors(choices) == Errors(SetToSeq(choices))
NonEmpty(sequence) == IF sequence = <<>> THEN {} ELSE {sequence}

rewrite_chat_request_as_responses(object, policies) ==
  LET talk == FoldLeft(append_chat_message_to_responses,
                       [instructions |-> <<>>, input |-> <<>>], Text(object, "messages"))
      tools == chat_tools_to_responses_tools(Text(object, "tools"))
      choice == {chat_tool_choice_to_responses(c) : c \in Get(object, "tool_choice")}
      limit == Or(Get(object, "max_completion_tokens"), Get(object, "max_tokens"))
      copied == PickFields(object, {"temperature", "top_p", "stream", "store", "metadata",
                                    "parallel_tool_calls", "prompt_cache_key",
                                    "prompt_cache_retention"})
      base == [model |-> BackendModel, input |-> talk.input] @@ copied
      full == With(With(With(With(With(base, "instructions", NonEmpty(talk.instructions)),
                "max_output_tokens", limit), "text", Get(object, "response_format")),
                "tools", NonEmpty(tools)), "tool_choice", choice)
  IN Result(validate_chat_to_responses_options(object) \o
            Unless(Get(object, "messages") # {}, "messages") \o
            Errors(talk.input) \o Errors(tools) \o ToolChoiceErrors(choice),
            apply_extra_body(rewrite_native_responses_max_output_tokens(
              ForceStore(full, policies.responses_store),
              policies.responses_max_output_tokens), policies.extra_body))

-----------------------------------------------------------------------------
(***************************************************************************)
(* Responses to Chat Completions.                                          *)
(***************************************************************************)
responses_content_to_chat(content) ==
  LET convert(part) ==
        CASE part.type \in {"text", "image"} -> part
          [] part.type = "refusal" -> TextPart(Text(part, "text"))
          [] OTHER -> Invalid("input")
      parts == [k \in DOMAIN content |-> convert(content[k])]
  IN IF Errors(parts) = <<>> THEN Joined(parts) ELSE <<Invalid("input")>>

responses_function_call_to_chat_tool_call(item) ==
  [id |-> item.id, name |-> item.name,
   arguments |-> UnwrapOr(Get(item, "arguments"), <<"{}">>)]

\* A call joins the assistant message before it if that one already has calls.
append_responses_function_call_to_chat_messages(messages, item) ==
  LET call == responses_function_call_to_chat_tool_call(item)
      last == Len(messages)
  IN IF Get(item, "id") = {} \/ Get(item, "name") = {} THEN Append(messages, Invalid("input"))
     ELSE IF last > 0 /\ Get(messages[last], "role") = {"assistant"}
                      /\ Get(messages[last], "tool_calls") # {}
     THEN [messages EXCEPT ![last].tool_calls = Append(@, call)]
     ELSE Append(messages, [role |-> "assistant", content |-> <<TextPart(<<>>)>>,
                            tool_calls |-> <<call>>])

responses_function_output_to_chat_message(item) ==
  IF Get(item, "id") = {} \/ Get(item, "output") = {} THEN Invalid("input")
  ELSE [role |-> "tool", tool_call_id |-> item.id, content |-> <<TextPart(item.output)>>]

responses_reasoning_to_chat_message(item) ==
  [role |-> "assistant", content |-> <<TextPart(Text(item, "summary"))>>]

responses_input_item_to_chat_message(item) ==
  LET role == UnwrapOr(Get(item, "role"), "user")
      content == responses_content_to_chat(Text(item, "content"))
      message == [role |-> IF role = "developer" THEN "system" ELSE role,
                  content |-> content]
  IN CASE item.type = "function_call_output" -> responses_function_output_to_chat_message(item)
       [] item.type = "reasoning" -> responses_reasoning_to_chat_message(item)
       [] OTHER ->
            IF \/ role \notin {"developer", "system", "user", "assistant", "tool"}
               \/ Get(item, "content") = {} \/ Errors(content) # <<>>
            THEN Invalid("input")
            ELSE With(message, "tool_call_id", Get(item, "tool_call_id"))

responses_input_to_chat_messages(input) ==
  FoldLeft(LAMBDA messages, item :
             IF item.type = "function_call"
             THEN append_responses_function_call_to_chat_messages(messages, item)
             ELSE Append(messages, responses_input_item_to_chat_message(item)),
           <<>>, input)

\* Tools that are not functions are left out.
responses_tools_to_chat_tools(tools) == SelectSeq(tools, IsFunction)
responses_tool_choice_to_chat(choice) == choice

\* Blank instructions, as an empty text, become no message.
rewrite_responses_request_as_chat(object, policies) ==
  LET system == {<<TextPart(text)>> : text \in Get(object, "instructions") \ {<<>>}}
      messages == [k \in 1..Cardinality(system) |->
                     [role |-> "system", content |-> UnwrapOr(system, <<>>)]] \o
                  responses_input_to_chat_messages(Text(object, "input"))
      copied == PickFields(object, {"temperature", "top_p", "stream", "stop",
                  "presence_penalty", "frequency_penalty", "logit_bias", "user", "seed", "n",
                  "logprobs", "top_logprobs", "parallel_tool_calls", "stream_options",
                  "response_format", "max_tokens", "prompt_cache_key",
                  "prompt_cache_retention"})
      base == [model |-> BackendModel, messages |-> messages] @@ copied
      tools == responses_tools_to_chat_tools(Text(object, "tools"))
      choice == {responses_tool_choice_to_chat(c) : c \in Get(object, "tool_choice")}
      full == With(With(With(With(base, "max_tokens", Get(object, "max_output_tokens")),
                "response_format", Get(object, "text")), "tools", NonEmpty(tools)),
                "tool_choice", choice)
  IN Result(Unless(Get(object, "previous_response_id") = {}, "previous_response_id") \o
            Unless(Get(object, "input") # {}, "input") \o Errors(messages),
            apply_extra_body(apply_chat_stream_usage_policy(full, policies.chat_stream_usage),
                             policies.extra_body))
=============================================================================
