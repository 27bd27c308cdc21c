------------------------------ MODULE ApiValues ------------------------------
(***************************************************************************)
(* What the translations between the Chat Completions, Responses and       *)
(* Messages APIs have in common: JSON objects, usage objects, the lines of *)
(* an event stream and the parser that finds them in a stream of chunks.   *)
(*                                                                         *)
(* A JSON object is a record of the fields it has; type also stands for    *)
(* the "object" field that plays its part in the Chat API.  A string that  *)
(* is put together from deltas is the sequence of its pieces, so that a    *)
(* piece that is lost, doubled or moved can be seen.                       *)
(***************************************************************************)
EXTENDS Naturals, Sequences, FiniteSets, FiniteSetsExt, SequencesExt, TLC

\* An Option: {} is None, {x} is Some(x).
UnwrapOr(option, default) == IF option = {} THEN default ELSE CHOOSE x \in option : TRUE
Or(option, other) == IF option = {} THEN other ELSE option

\* object.get(field), and the object with a field set if there is a value.
Get(object, field) == IF field \in DOMAIN object THEN {object[field]} ELSE {}
With(object, field, option) ==
  IF option = {} THEN object ELSE (field :> UnwrapOr(option, "")) @@ object
Without(object, field) == [f \in DOMAIN object \ {field} |-> object[f]]

\* The positions of a sequence that pass a test, in order.
Where(sequence, Test(_)) == SelectSeq([i \in DOMAIN sequence |-> i], Test)

\* A string and an array that may be absent.
Text(object, field) == UnwrapOr(Get(object, field), <<>>)

-----------------------------------------------------------------------------
(***************************************************************************)
(* Models and usage.                                                       *)
(***************************************************************************)

\* The model names of a route: the one its clients know, the one its backend
\* knows.
PublicModel == "public"
BackendModel == "backend"

RewriteModel(object) ==
  IF BackendModel \in Get(object, "model") THEN [object EXCEPT !.model = PublicModel]
                                           ELSE object

\* Every model field of the value, also of the response it carries.
rewrite_response_models(value) ==
  LET inner == {RewriteModel(r) : r \in Get(value, "response")} IN
    With(RewriteModel(value), "response", inner)

NoTotals == [input |-> 0, output |-> 0, total |-> 0]
Plus(a, b) == [input |-> a.input + b.input, output |-> a.output + b.output,
               total |-> a.total + b.total]

\* A usage object has some of the fields input, output and total.
usage_fields_from_object(usage) ==
  LET input == UnwrapOr(Get(usage, "input"), 0)
      output == UnwrapOr(Get(usage, "output"), 0)
  IN [input |-> input, output |-> output,
      total |-> UnwrapOr(Get(usage, "total"), input + output)]

\* Every usage object of the value, also of the response or message it carries.
usage_objects(value) ==
  Get(value, "usage") \cup UNION {Get(inner, "usage") :
    inner \in Get(value, "response") \cup Get(value, "message")}

\* The sum over the usage objects; no event carries two that are alike.
collect_usage(value) ==
  FoldSet(LAMBDA usage, totals : Plus(totals, usage_fields_from_object(usage)),
          NoTotals, usage_objects(value))

\* A missing total is the sum of the two counts, if both are there.
ensure_usage_object_total_tokens(usage) ==
  IF Get(usage, "total") = {} /\ {"input", "output"} \subseteq DOMAIN usage
  THEN With(usage, "total", {usage.input + usage.output})
  ELSE usage

ensure_usage_total_tokens(value) ==
  LET fill(object) == With(object, "usage", {ensure_usage_object_total_tokens(u) :
                                               u \in Get(object, "usage")})
  IN With(fill(value), "response", {fill(r) : r \in Get(value, "response")})

\* UsageDiagnostics: how many usage objects, and the names they came under.
NoDiagnostics == [usage_object_count |-> 0, usage_event_names |-> {}]
merge(a, b) ==
  [usage_object_count |-> a.usage_object_count + b.usage_object_count,
   usage_event_names |-> a.usage_event_names \cup b.usage_event_names]

\* What every normalizer keeps, and the bytes it has put out in this push.
Observer == [pending_event_name |-> {}, usage |-> NoTotals,
             diagnostics |-> NoDiagnostics, output |-> <<>>]
Emit(n, events) == [n EXCEPT !.output = @ \o events]

\* The bookkeeping before an event is translated; the event itself is then
\* seen through rewritten.
apply_data_prologue(n, value) ==
  LET count == Cardinality(usage_objects(value))
      names == IF count > 0 THEN n.pending_event_name \cup Get(value, "type") ELSE {}
  IN [n EXCEPT !.pending_event_name = {},
               !.usage = Plus(@, collect_usage(value)),
               !.diagnostics = merge(@, [usage_object_count |-> count,
                                         usage_event_names |-> names])]
rewritten(value) == ensure_usage_total_tokens(rewrite_response_models(value))

-----------------------------------------------------------------------------
(***************************************************************************)
(* Lines and chunks.                                                       *)
(***************************************************************************)

\* The lines of an event stream, and what a client gets of them.
EventLine(name) == [line |-> "event", name |-> name]
DataLine(value) == [line |-> "data", value |-> value]
DoneLine == [line |-> "[DONE]"]
BlankLine == [line |-> "blank"]
Unparseable == [line |-> "unparseable"]

\* sse_data, done_event and sse_event: what the translators write themselves.
sse_data(value) == <<DataLine(value), BlankLine>>
done_event == <<DoneLine, BlankLine>>
sse_event(value) == <<EventLine(value.type)>> \o sse_data(value)

\* The bytes of a script of lines: a line is two halves and its newline, a
\* blank line its newline only.  A byte knows its line and its part of it.
Byte(line, part) == 4 * line + part
LineOf(byte) == byte \div 4
PartOf(byte) == byte % 4
IsNewline(byte) == PartOf(byte) = 3
BytesOf(script, i) ==
  IF script[i] = BlankLine THEN <<Byte(i, 3)>> ELSE <<Byte(i, 1), Byte(i, 2), Byte(i, 3)>>
Wire(script) == FlattenSeq([i \in DOMAIN script |-> BytesOf(script, i)])

\* The line that these bytes are; one that lacks one of its halves is no JSON.
parse_sse_line(script, bytes) ==
  LET body == SelectSeq(bytes, LAMBDA b : ~IsNewline(b)) IN
    CASE body = <<>> -> BlankLine
      [] Len(body) = 2 /\ body[2] = body[1] + 1 -> script[LineOf(body[1])]
      [] OTHER -> Unparseable

\* Mutant: what is left of a chunk after its last newline is dropped.
PushLinesForgetting(script, pending, chunk) ==
  LET ends == Where(chunk, LAMBDA i : IsNewline(chunk[i]))
      from(k) == IF k = 1 THEN 1 ELSE ends[k - 1] + 1
  IN [frames |-> [k \in DOMAIN ends |->
                   parse_sse_line(script, SubSeq(chunk, from(k), ends[k]))],
      pending |-> <<>>]

\* SseLineParser::push: the lines that are complete, and what stays pending.
PushLines(script, pending, chunk) ==
  LET bytes == pending \o chunk
      ends == Where(bytes, LAMBDA i : IsNewline(bytes[i]))
      from(k) == IF k = 1 THEN 1 ELSE ends[k - 1] + 1
  IN [frames |-> [k \in DOMAIN ends |->
                   parse_sse_line(script, SubSeq(bytes, from(k), ends[k]))],
      pending |-> SubSeq(bytes, from(Len(ends) + 1), Len(bytes))]

\* SseLineParser::finish: the line that was never ended.
FinishLines(script, pending) ==
  IF pending = <<>> THEN <<>> ELSE <<parse_sse_line(script, pending)>>
=============================================================================
