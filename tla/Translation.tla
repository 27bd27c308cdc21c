----------------------------- MODULE Translation -----------------------------
(***************************************************************************)
(* One client in conversation with one backend that may speak another API: *)
(* the request is rewritten, the answer comes as one body or as a stream   *)
(* that is cut into chunks anywhere, and is translated back.  After the    *)
(* first answer the client sends its conversation again, with the answer   *)
(* and the results of the tools it was told to call.                       *)
(*                                                                         *)
(* Routing, retries, and what happens to an answer that is not a success,  *)
(* are in modules Routing and Proxy.                                       *)
(***************************************************************************)
EXTENDS RequestModes, FiniteSetsExt

CONSTANTS Paths,           \* the [endpoint, mode] pairs that a client may be on
          Policies,        \* the policies that a route may have
          Requests(_),     \* the first requests of a client of an endpoint
          Exchanges(_, _), \* what a backend may answer to a request in an API
          ChunkSizes       \* the sizes of chunks, in bytes of ApiValues

VARIABLES path, policies,  \* the route
          request,         \* what the client asks
          outbound,        \* what the backend is asked
          before,          \* what it was asked in the turn before, if any
          phase,           \* of the request in hand
          exchange,        \* what the backend answers
          sent, pending,   \* bytes that have arrived, and that the parser holds
          strategy,        \* the normalizer
          client,          \* the lines, or the one body, that the client has
          recorded,        \* the usage that was added to the metrics
          oracle           \* history: a normalizer that is given whole lines

vars == <<path, policies, request, outbound, before, phase, exchange, sent, pending,
          strategy, client, recorded, oracle>>

NoExchange == [api |-> "none"]
Refused == "refused" \in DOMAIN outbound
Turn == Cardinality(before) + 1

Init ==
  /\ path \in Paths
  /\ policies \in Policies
  /\ request \in Requests(path.endpoint)
  /\ outbound = <<>>
  /\ before = {}
  /\ phase = "asking"
  /\ exchange = NoExchange
  /\ sent = 0
  /\ pending = <<>>
  /\ strategy = Observer
  /\ client = <<>>
  /\ recorded = [usage |-> NoTotals, diagnostics |-> NoDiagnostics]
  /\ oracle = Observer

\* prepare_outbound: the body that goes out, or a 400.
Ask ==
  /\ phase = "asking"
  /\ outbound' = rewrite_request_body_for_mode_with_policies(
                   request, path.endpoint, path.mode, policies)
  /\ phase' = IF "refused" \in DOMAIN outbound' THEN "refused"
              ELSE IF before = {} THEN "waiting" ELSE "asked again"
  /\ UNCHANGED <<path, policies, request, before, exchange, sent, pending, strategy,
                 client, recorded, oracle>>

\* Usage that the client of a chat stream did not ask for is hidden from it.
emit_usage_to_client ==
  path.endpoint # "chat_completions" \/ inspect_request(request).stream_usage_requested

StartStream(x) ==
  /\ phase = "waiting"
  /\ inspect_request(request).stream
  /\ exchange' = x
  /\ phase' = "streaming"
  /\ strategy' = NewStrategy(path.mode, emit_usage_to_client)
  /\ oracle' = strategy'
  /\ UNCHANGED <<path, policies, request, outbound, before, sent, pending, client, recorded>>

AnswerBuffered(x) ==
  /\ phase = "waiting"
  /\ ~inspect_request(request).stream
  /\ exchange' = x
  /\ phase' = "answered"
  /\ client' = <<rewrite_response_body(path.mode, x.body)>>
  /\ recorded' = [recorded EXCEPT !.usage = collect_usage(x.body)]
  /\ UNCHANGED <<path, policies, request, outbound, before, sent, pending, strategy, oracle>>

-----------------------------------------------------------------------------
(***************************************************************************)
(* The body of the stream.                                                 *)
(***************************************************************************)
Record(n) == [usage |-> Plus(recorded.usage, n.usage),
              diagnostics |-> merge(recorded.diagnostics, n.diagnostics)]

\* Mutant: the counters are cleared also when nothing was put out.
YieldEagerly(n) ==
  /\ client' = client \o n.output
  /\ recorded' = IF n.output = <<>> THEN recorded ELSE Record(n)
  /\ strategy' = Cleared([n EXCEPT !.output = <<>>])

\* What a push put out is recorded and sent; otherwise nothing is cleared.
Yield(n) ==
  /\ client' = client \o n.output
  /\ recorded' = IF n.output = <<>> THEN recorded ELSE Record(n)
  /\ strategy' = IF n.output = <<>> THEN n ELSE Cleared([n EXCEPT !.output = <<>>])

\* The oracle is given lines as they are in the script, and clears nothing.
Consult(lines) ==
  [StrategyPush(path.mode, oracle, lines) EXCEPT !.output = oracle.output \o @]

Chunk(size) ==
  LET wire == exchange.wire
      to == Min({sent + size, Len(wire)})
      complete(n) == Len(SelectSeq(SubSeq(wire, 1, n), IsNewline))
      lines == PushLines(exchange.script, pending, SubSeq(wire, sent + 1, to))
  IN /\ phase = "streaming"
     /\ sent < Len(wire)
     /\ sent' = to
     /\ pending' = lines.pending
     /\ Yield(StrategyPush(path.mode, strategy, lines.frames))
     /\ oracle' = Consult(SubSeq(exchange.script, complete(sent) + 1, complete(to)))
     /\ UNCHANGED <<path, policies, request, outbound, before, phase, exchange>>

\* next_stream_chunk has no more chunks: the stream is over, or the server stops.
FinishStream(reason) ==
  /\ phase' = reason
  /\ pending' = <<>>
  /\ Yield(StrategyFinish(path.mode, strategy, FinishLines(exchange.script, pending)))
  /\ oracle' = [StrategyFinish(path.mode, oracle, FinishLines(exchange.script, pending))
                 EXCEPT !.output = oracle.output \o @]
  /\ UNCHANGED <<path, policies, request, outbound, before, exchange, sent>>

UpstreamEnds ==
  /\ phase = "streaming"
  /\ sent = Len(exchange.wire)
  /\ FinishStream("answered")

Shutdown ==
  /\ phase = "streaming"
  /\ FinishStream("cut")

\* A chunk that cannot be read aborts the response: nothing is added to it.
UpstreamFails ==
  /\ phase = "streaming"
  /\ phase' = "aborted"
  /\ UNCHANGED <<path, policies, request, outbound, before, exchange, sent, pending,
                 strategy, client, recorded, oracle>>

-----------------------------------------------------------------------------
(***************************************************************************)
(* The client.                                                             *)
(***************************************************************************)
Values(lines) ==
  LET data == SelectSeq(lines, LAMBDA l : l.line = "data") IN
    [k \in DOMAIN data |-> data[k].value]

\* A message: its text, its calls in order, and why it ended.
ChatSaid(completion) ==
  LET choice == completion.choices[1] IN
    [text |-> Text(choice.message, "content"), calls |-> Text(choice.message, "tool_calls"),
     reason |-> choice.finish_reason]

ResponseSaid(response) ==
  LET message == response_output_to_chat_message(response.output) IN
    [text |-> message.content, calls |-> message.tool_calls, reason |-> response.status]

\* The deltas of a chat stream, put together by index, or else by position.
StreamedChat(lines) ==
  LET values == SelectSeq(Values(lines), LAMBDA v : Text(v, "choices") # <<>>)
      choices == [k \in DOMAIN values |-> values[k].choices[1]]
      deltas == [k \in DOMAIN choices |-> choices[k].delta]
      parts == FlattenSeq([k \in DOMAIN deltas |->
                 LET calls == Text(deltas[k], "tool_calls") IN
                   [p \in DOMAIN calls |-> calls[p] @@ [index |-> p - 1]]])
      order == SetToSortSeq({parts[k].index : k \in DOMAIN parts}, <)
      of(i) == SelectSeq(parts, LAMBDA p : p.index = i)
      first(i, field) == UNION {Get(p, field) : p \in ToSet(of(i))}
  IN [text |-> FlattenSeq([k \in DOMAIN deltas |-> Text(deltas[k], "content")]),
      calls |-> [k \in DOMAIN order |->
        With([name |-> UnwrapOr(first(order[k], "name"), ""),
              arguments |-> FlattenSeq([p \in DOMAIN of(order[k]) |->
                                         Text(of(order[k])[p], "arguments")])],
             "id", first(order[k], "id"))],
      reason |-> UnwrapOr(UNION {Get(c, "finish_reason") : c \in ToSet(choices)}, "none")]

IsCompleted(value) == value.type \in {"response.completed", "response.incomplete"}
StreamedResponse(lines) == ResponseSaid(SelectSeq(Values(lines), IsCompleted)[1].response)

\* The answer as the client has it, and as it would have it in one body.
Streamed == inspect_request(request).stream
ClientSaid ==
  IF path.endpoint = "responses"
  THEN IF Streamed THEN StreamedResponse(client) ELSE ResponseSaid(client[1])
  ELSE IF Streamed THEN StreamedChat(client) ELSE ChatSaid(client[1])
BufferedSaid ==
  LET body == rewrite_response_body(path.mode, exchange.body) IN
    IF path.endpoint = "responses" THEN ResponseSaid(body) ELSE ChatSaid(body)

\* The result of a call is a text of its own.
ResultOf(call) == <<"result of", call.name>>

\* The conversation, the answer, and a result for every call.
ChatHistory(said) ==
  Append(request.messages,
         With([role |-> "assistant",
               content |-> IF said.text = <<>> THEN NullContent ELSE <<TextPart(said.text)>>],
              "tool_calls", NonEmpty(said.calls))) \o
  [k \in DOMAIN said.calls |->
    With([role |-> "tool", content |-> <<TextPart(ResultOf(said.calls[k]))>>],
         "tool_call_id", Get(said.calls[k], "id"))]

ResponsesHistory(said) ==
  request.input \o
  (IF said.text = <<>> THEN <<>>
   ELSE <<[type |-> "message", role |-> "assistant", content |-> <<TextPart(said.text)>>]>>) \o
  [k \in DOMAIN said.calls |->
    function_call_item(said.calls[k].id, said.calls[k].name, said.calls[k].arguments)] \o
  [k \in DOMAIN said.calls |->
    [type |-> "function_call_output", id |-> said.calls[k].id,
     output |-> ResultOf(said.calls[k])]]

AskAgain ==
  /\ phase = "answered"
  /\ path.endpoint # "messages"
  /\ exchange.whole
  /\ request' = IF path.endpoint = "responses"
                THEN [request EXCEPT !.input = ResponsesHistory(ClientSaid)]
                ELSE [request EXCEPT !.messages = ChatHistory(ClientSaid)]
  /\ before' = {outbound}
  /\ phase' = "asking"
  /\ client' = <<>>
  /\ strategy' = Observer
  /\ oracle' = Observer
  /\ UNCHANGED <<path, policies, outbound, exchange, sent, pending, recorded>>

Next ==
  \/ Ask
  \/ \E x \in Exchanges(upstream_path_for_mode(path.endpoint, path.mode), outbound) :
       StartStream(x) \/ AnswerBuffered(x)
  \/ \E size \in ChunkSizes : Chunk(size)
  \/ UpstreamEnds
  \/ Shutdown
  \/ UpstreamFails
  \/ AskAgain

Spec == Init /\ [][Next]_vars

-----------------------------------------------------------------------------
(***************************************************************************)
(* Properties.                                                             *)
(***************************************************************************)
Over == phase \in {"answered", "cut"}
InStream == Streamed /\ phase \in {"streaming", "answered", "cut", "aborted"}

\* Lines without the counts of tokens, and without the chunks that only count.
Countless(lines) ==
  LET counts(l) == l.line = "data" /\ chat_usage_only_chunk(l.value)
      bare(object) == Without(object, "usage")
      rest == SelectSeq(lines, LAMBDA l : l # BlankLine /\ ~counts(l))
  IN [k \in DOMAIN rest |->
       IF rest[k].line # "data" THEN rest[k]
       ELSE DataLine(With(bare(rest[k].value), "response",
                          {bare(r) : r \in Get(rest[k].value, "response")}))]

\* What the client of a stream gets does not depend on how the network cut the
\* backend's stream into chunks, token counts aside: a line that is split over
\* chunks is neither lost, doubled nor read as two (SseLineParser).
SplitsDoNotMatter == InStream => Countless(client) = Countless(oracle.output)

\* The usage that a body or stream reports, with its total.
Reported == {usage_fields_from_object(u) : u \in exchange.usage}
Shown ==
  UNION {usage_objects(v) : v \in ToSet(Values(client))}

\* A chat client that did not ask for usage is shown none, whatever the backend
\* was asked for and sends; one that asked gets what a Chat or Responses backend
\* reported, once the stream is over.
UsageAsAsked ==
  InStream /\ path.endpoint = "chat_completions" =>
    /\ ~emit_usage_to_client => Shown = {}
    /\ /\ emit_usage_to_client /\ path.mode # "ChatCompletionsViaMessages"
       /\ phase = "answered" /\ exchange.whole
       => Shown = Reported

\* When a stream has ended, the metrics hold the tokens the backend reported,
\* each counted once, though the counters are cleared after every chunk that
\* put something out; the same for an answer that was not streamed.
UsageCounted ==
  phase = "answered" /\ path.mode \notin {"AnthropicMessagesNative",
                                          "ChatCompletionsViaMessages"} =>
    recorded.usage = IF Streamed THEN UnwrapOr(Reported, NoTotals)
                     ELSE usage_fields_from_object(exchange.body.usage)

-----------------------------------------------------------------------------
(***************************************************************************)
(* What a client relies on in a translated stream.                         *)
(***************************************************************************)
Before(k) == 1..(k - 1)
Types(values) == [k \in DOMAIN values |-> UnwrapOr(Get(values[k], "type"), "none")]
Once(sequence, x) == Cardinality({k \in DOMAIN sequence : sequence[k] = x}) <= 1

\* The backend's first data line has arrived, if without its newline.
DataArrived ==
  \E i \in DOMAIN exchange.script :
    exchange.script[i].line = "data" /\ Byte(i, 2) \in ToSet(SubSeq(exchange.wire, 1, sent))

\* A Responses client: the response is created first, items are announced before
\* they grow, and finished before the response, which ends once and last.  One
\* exception: a stream that ends before any data gets an empty response.completed
\* alone, since finish_response does not call start_response_events.
ResponsesProtocol(values) ==
  LET types == Types(values)
      added(id) == {k \in DOMAIN values : types[k] = "response.output_item.added"
                                          /\ values[k].item.id = id}
      done(id) == {k \in DOMAIN values : types[k] = "response.output_item.done"
                                         /\ values[k].item.id = id}
  IN /\ Once(types, "response.created") /\ Once(types, "response.completed")
     /\ types # <<>> =>
          \/ types[1] = "response.created"
          \/ /\ types = <<"response.completed">> /\ values[1].response.output = <<>>
             /\ ~DataArrived
     /\ \A k \in DOMAIN values :
          /\ types[k] = "response.completed" =>
               /\ k = Len(values)
               /\ \A item \in ToSet(values[k].response.output) :
                    Cardinality(added(item.id)) = 1 /\ Cardinality(done(item.id)) = 1
          /\ "item_id" \in DOMAIN values[k] => added(values[k].item_id) \cap Before(k) # {}
     /\ Over => types # <<>> /\ Last(types) = "response.completed"

\* A chat client: of the chunks before the one that ends the message, the first
\* and no other has the role; a call is announced once and before its arguments,
\* and nothing but the usage follows the end.
ChatProtocol(values) ==
  LET chunk(k) == Text(values[k], "choices") # <<>>
      delta(k) == IF chunk(k) THEN values[k].choices[1].delta ELSE <<>>
      ended(k) == ~chunk(k) \/ "finish_reason" \in DOMAIN values[k].choices[1]
      parts == FlattenSeq([k \in DOMAIN values |-> Text(delta(k), "tool_calls")])
      announces(p, index) == parts[p].index = index /\ "name" \in DOMAIN parts[p]
  IN /\ \A k \in DOMAIN values : ~ended(k) => ("role" \in DOMAIN delta(k) <=> k = 1)
     /\ \A p \in DOMAIN parts :
          IF "name" \in DOMAIN parts[p]
          THEN \A q \in Before(p) : ~announces(q, parts[p].index)
          ELSE \E q \in Before(p) : announces(q, parts[p].index)
     /\ \A k \in DOMAIN values : ended(k) =>
          \A j \in DOMAIN values : j > k => chat_usage_only_chunk(values[j])

ModelsOf(object) ==
  Get(object, "model") \cup
  UNION {Get(o, "model") : o \in Get(object, "response") \cup Get(object, "message")}

\* A client of a translated stream never sees the rules of its own API broken, as
\* ResponsesProtocol and ChatProtocol state them, also when the stream is cut by a
\* shutdown or the backend reports a failure.  The one exception is a stream that
\* ends or is cut before any data came: a Responses client then gets an empty
\* response.completed that no response.created announced.  Every chat stream that
\* ends, ends with one [DONE]; and no answer, translated or not, tells the client
\* the name that the backend has for the model.
ClientProtocol ==
  LET dones == {k \in DOMAIN client : client[k] = DoneLine}
      values == Values(client)
  IN /\ \A value \in ToSet(IF Streamed THEN values ELSE client) :
          BackendModel \notin ModelsOf(value)
     /\ InStream /\ path.mode = "ResponsesViaChatCompletions" => ResponsesProtocol(values)
     /\ InStream /\ path.mode \in {"ChatCompletionsViaResponses", "ChatCompletionsViaMessages"} =>
          /\ ChatProtocol(values)
          /\ \A k \in dones : \A j \in DOMAIN client : j > k => client[j] = BlankLine
          /\ Over => Cardinality(dones) = 1

-----------------------------------------------------------------------------
(***************************************************************************)
(* The conversation.                                                       *)
(***************************************************************************)

\* The same call.  Ids that the backend did not give are made up, and differ; no
\* arguments and an empty object of them count as the same, since the translators
\* write one for the other.
SameCall(call, other, id) ==
  /\ call.name = other.name
  /\ call.arguments = other.arguments \/ {call.arguments, other.arguments} = {<<>>, <<"{}">>}
  /\ id # {} => Get(call, "id") = id /\ Get(other, "id") = id

\* A whole answer is the same for the client whether it is streamed or not: the
\* text, the calls with their names, arguments (none and {} being the same) and
\* ids, and the reason why it ended.  The two translations are separate code.
StreamAgreesWithBuffered ==
  (InStream /\ phase = "answered" /\ exchange.whole /\ path.endpoint # "messages") =>
    LET said == ClientSaid
        body == BufferedSaid
    IN /\ said.text = body.text
       /\ said.reason = body.reason
       /\ Len(said.calls) = Len(body.calls)
       /\ \A k \in DOMAIN said.calls :
            SameCall(said.calls[k], body.calls[k], exchange.answer.calls[k].id)

\* A request to a backend as the sequence of what was said, called and returned.
Says(role, text) == IF text = <<>> THEN <<>> ELSE <<[is |-> role, text |-> text]>>
Calls(call) == [is |-> "call", id |-> UnwrapOr(Get(call, "id"), "none"), name |-> call.name,
                arguments |-> UnwrapOr(Get(call, "input"), Text(call, "arguments"))]
Returns(id, text) == <<[is |-> "result", id |-> id, text |-> text]>>

ChatTalk(message) ==
  IF message.role = "tool" THEN Returns(UnwrapOr(Get(message, "tool_call_id"), "none"),
                                         TextOf(message.content))
  ELSE Says(message.role, TextOf(message.content)) \o
       [k \in DOMAIN Text(message, "tool_calls") |-> Calls(message.tool_calls[k])]
ResponsesTalk(item) ==
  CASE item.type = "function_call" -> <<Calls(item)>>
    [] item.type = "function_call_output" -> Returns(item.id, item.output)
    [] item.type = "reasoning" -> Says("assistant", Text(item, "summary"))
    [] OTHER -> Says(item.role, TextOf(item.content))
MessagesTalk(message) ==
  FlattenSeq([k \in DOMAIN message.content |->
    LET block == message.content[k] IN
      CASE block.type = "tool_use" -> <<Calls(block)>>
        [] block.type = "tool_result" -> Returns(block.id, block.content)
        [] OTHER -> Says(message.role, TextOf(<<block>>))])
Talk(body) ==
  LET api == upstream_path_for_mode(path.endpoint, path.mode) IN
    IF api = "responses"
    THEN FlattenSeq([k \in DOMAIN body.input |-> ResponsesTalk(body.input[k])])
    ELSE FlattenSeq([k \in DOMAIN body.messages |->
           IF api = "messages" THEN MessagesTalk(body.messages[k])
                               ELSE ChatTalk(body.messages[k])])

\* What no Messages backend accepts again: a call that was streamed without
\* arguments, which reached the client with "" for arguments.
StreamedWithoutArguments ==
  /\ path.mode = "ChatCompletionsViaMessages" /\ Streamed
  /\ \E call \in ToSet(exchange.answer.calls) : call.arguments = <<>>

\* When the client goes on, the backend is sent the conversation it had before,
\* its own answer with every call under the id it gave (no arguments and {} being
\* the same), and for every call, in order, the result that the client returned.
ConversationKept ==
  (phase = "asked again" \/ (Refused /\ Turn = 2)) =>
    \/ StreamedWithoutArguments
    \/ /\ ~Refused
       /\ LET was == UNION {{Talk(body)} : body \in before}
              old == UnwrapOr(was, <<>>)
              now == Talk(outbound)
              answer == exchange.answer
              said == Says("assistant", answer.text)
              call(k) == now[Len(old) + Len(said) + k]
              result(k) == now[Len(old) + Len(said) + Len(answer.calls) + k]
          IN /\ Len(now) = Len(old) + Len(said) + 2 * Len(answer.calls)
             /\ SubSeq(now, 1, Len(old) + Len(said)) = old \o said
             /\ \A k \in DOMAIN answer.calls :
                  /\ call(k).is = "call" /\ result(k).is = "result"
                  /\ SameCall(With([name |-> answer.calls[k].name,
                                    arguments |-> answer.calls[k].arguments],
                                   "id", answer.calls[k].id), call(k), answer.calls[k].id)
                  /\ result(k).id = call(k).id
                  /\ result(k).text = ResultOf(call(k))

\* "usage.total_tokens values are preserved": every usage a client is shown is
\* the one the backend reported.
UsageAsReported ==
  InStream /\ phase = "answered" /\ exchange.whole /\ exchange.usage # {} =>
    \A v \in ToSet(Values(client)) :
      IsCompleted(v) \/ chat_usage_only_chunk(v) =>
        {usage_fields_from_object(u) : u \in usage_objects(v)} = Reported
=============================================================================
