---------------------------- MODULE AgentProviders ----------------------------
(***************************************************************************)
(* How the agent speaks to a model: the requests and answers of the two    *)
(* providers and the call between them (llm/transformers and               *)
(* llm/service.rs under src/examples/src/bin/mcp_agent).  A JSON value has *)
(* a kind and what it holds; of a request body only what carries the       *)
(* conversation is kept.                                                   *)
(***************************************************************************)
EXTENDS AgentConfig, FiniteSets
LOCAL INSTANCE SequencesExt

CONSTANT MaxU32    \* u32::MAX, one less than a power of two

Object(fields) == [is |-> "object", at |-> fields]
Array(values) == [is |-> "array", at |-> values]
Text(text) == [is |-> "string", at |-> text]
Number(n) == [is |-> "number", at |-> n]
EmptyObject == Object(<<>>)

\* as_str, as_array, as_u64 and get: the Option of what the value holds.
As(kind, value) == IF value.is = kind THEN {value.at} ELSE {}
Get(value, key) ==
  UNION {IF key \in DOMAIN fields THEN {fields[key]} ELSE {} : fields \in As("object", value)}
GetAt(value, index) ==
  UNION {IF index \in DOMAIN values THEN {values[index]} ELSE {} : values \in As("array", value)}

\* The Option of a field that holds a value of the kind.
GetAs(kind, value, key) == UNION {As(kind, v) : v \in Get(value, key)}

\* extract_with_fallback: the first of two fields that is there, whatever it holds.
GetEither(value, key, other) ==
  IF Get(value, key) # {} THEN Get(value, key) ELSE Get(value, other)

EitherAs(kind, value, key, other) == UNION {As(kind, v) : v \in GetEither(value, key, other)}

\* The first element of a field, or of another: safe_extract_field with "field.0".
FirstOfEither(value, key, other) ==
  LET First(k) == UNION {GetAt(v, 1) : v \in Get(value, k)}
  IN  IF First(key) # {} THEN First(key) ELSE First(other)

The(option) == CHOOSE v \in option : TRUE

AsU32(n) == n % (MaxU32 + 1)

\* extract_usage: the sum wraps as well, where it is not checked.
Usage(input, output) ==
  [inputTokens |-> AsU32(input), outputTokens |-> AsU32(output),
   totalTokens |-> AsU32(AsU32(input) + AsU32(output))]

-----------------------------------------------------------------------------
SchemaFields ==
  {"properties", "required", "additionalProperties", "description", "enum", "default",
   "allOf", "anyOf", "oneOf", "items"}

\* clean_tool_schema: an object of some fields, an empty `required` not among them.
CleanToolSchema(schema) ==
  IF schema.is # "object"
  THEN Object([type |-> Text("object"), properties |-> EmptyObject])
  ELSE LET kept == {f \in SchemaFields \cap DOMAIN schema.at :
                      ~(f = "required" /\ As("array", schema.at[f]) = {<<>>})}
       IN  Object([f \in {"type"} \cup kept |->
                     IF f = "type" THEN Text("object") ELSE schema.at[f]])

Tools(invocation) ==
  UNION {{[k \in DOMAIN tools |->
             [tools[k] EXCEPT !.inputSchema = CleanToolSchema(@)]]} : tools \in invocation.tools}

Each(blocks, Of(_)) == [k \in DOMAIN blocks |-> Of(blocks[k])]

-----------------------------------------------------------------------------
(* Anthropic.                                                              *)

\* extract_system_prompt: only of the first message.
SystemPrompt(messages) ==
  CASE messages = <<>> \/ Head(messages).role # "system" -> {}
    [] Head(messages).content.is = "text" -> {Head(messages).content.text}
    [] OTHER -> IF OfType(BlocksOf(Head(messages)), "text") = <<>> THEN {}
                ELSE {JoinedText(BlocksOf(Head(messages)))}

\* transform_content_blocks: is_error is written only when true.
AnthropicBlocks(blocks) ==
  Each(blocks, LAMBDA b : IF b.type = "tool_result" /\ b.isError # {TRUE}
                          THEN [b EXCEPT !.isError = {}] ELSE b)

\* transform_messages: neither system messages nor those without a block.
AnthropicMessages(messages) ==
  LET Content(m) == IF m.content.is = "text" THEN <<TextBlock(m.content.text)>>
                    ELSE AnthropicBlocks(m.content.blocks)
  IN  SelectSeq(Each(SelectSeq(messages, LAMBDA m : m.role # "system"),
                     LAMBDA m : [role |-> m.role, content |-> Content(m)]),
                LAMBDA m : m.content # <<>>)

AnthropicRequest(invocation) ==
  [model |-> invocation.provider.modelId,
   system |-> SystemPrompt(invocation.messages),
   messages |-> AnthropicMessages(invocation.messages),
   maxTokens |-> {Given(invocation.maxTokens, 4096)},
   temperature |-> invocation.temperature, tools |-> Tools(invocation),
   headers |-> {<<"anthropic-version", "2023-06-01">>}]

\* The block of an answer: one without a text, or of another type, is skipped; a
\* tool_use without an id or a name has the empty one.
AnthropicBlock(block) ==
  CASE GetAs("string", block, "type") = {<<"text">>} ->
         {TextBlock(t) : t \in GetAs("string", block, "text")}
    [] GetAs("string", block, "type") = {<<"tool_use">>} ->
         {ToolUse(Given(GetAs("string", block, "id"), <<>>),
                  Given(GetAs("string", block, "name"), <<>>),
                  Given(Get(block, "input"), EmptyObject))}
    [] OTHER -> {}

AnthropicUsage(usage) ==
  Usage(Given(GetAs("number", usage, "input_tokens"), 0),
        Given(GetAs("number", usage, "output_tokens"), 0))

AnthropicAnswer(response) ==
  LET content == GetAs("array", response, "content")
      blocks == FlattenSeq(Each(The(content), LAMBDA b : SetToSeq(AnthropicBlock(b))))
      Call(b) == FunctionCall(b.id, b.name, b.input)
  IN  IF content = {} THEN Err(<<"TransformError">>)
      ELSE Ok(Answer(blocks, Each(OfType(blocks, "tool_use"), Call),
                     {AnthropicUsage(u) : u \in Get(response, "usage")},
                     GetAs("string", response, "stop_reason")))

-----------------------------------------------------------------------------
(* OpenAI.                                                                 *)

OpenAICall(id, name, input) == [id |-> id, name |-> name, arguments |-> input]
ToolMessage(result) ==
  [role |-> "tool", content |-> result.content, toolCalls |-> {}, toolCallId |-> {result.id}]

CallsOf(message) ==
  Each(OfType(BlocksOf(message), "tool_use"), LAMBDA b : OpenAICall(b.id, b.name, b.input))

\* transform_single_message: a message without a text has the empty one.
OpenAIMessage(message) ==
  [role |-> message.role,
   content |-> IF message.content.is = "text" THEN message.content.text
               ELSE JoinedText(message.content.blocks),
   toolCalls |-> IF CallsOf(message) = <<>> THEN {} ELSE {CallsOf(message)},
   toolCallId |-> {}]

\* reconstruct_tool_calls: without a tool_use to be found, calls of an unknown function.
ReconstructedCalls(results) ==
  Each(results, LAMBDA r : OpenAICall(r.id, <<"unknown">>, EmptyObject))

WithToolCalls(message, results) ==
  [OpenAIMessage(message) EXCEPT
     !.toolCalls = IF @ = {} THEN {ReconstructedCalls(results)} ELSE @]

LastWith(seq, role, bound) ==
  LET at == {k \in DOMAIN seq : k <= bound /\ seq[k].role = role}
  IN  IF at = {} THEN 0 ELSE CHOOSE k \in at : \A j \in at : j <= k

\* The tool results of message i: the assistant message before it that was not done
\* yet is taken out, wherever it is, and put with its calls before the results.
AddToolResults(messages, i, results, state) ==
  LET j == LastWith(messages, "assistant", i - 1)
      k == LastWith(state.sent, "assistant", i - 1)
      moved == Append(IF k = 0 THEN state.sent ELSE RemoveAt(state.sent, k),
                      WithToolCalls(messages[j], results))
      isNew == j # 0 /\ j \notin state.done
  IN  [sent |-> (IF isNew THEN moved ELSE state.sent) \o Each(results, ToolMessage),
       done |-> IF isNew THEN state.done \cup {j} ELSE state.done]

\* transform_messages
OpenAIMessages(messages) ==
  LET Results(i) == IF messages[i].role = "user"
                    THEN OfType(BlocksOf(messages[i]), "tool_result") ELSE <<>>
      Add(state, i) ==
        CASE Results(i) # <<>> -> AddToolResults(messages, i, Results(i), state)
          [] Results(i) = <<>> /\ messages[i].role = "assistant" /\ i \in state.done -> state
          [] OTHER -> [state EXCEPT !.sent = Append(@, OpenAIMessage(messages[i]))]
  IN  FoldLeftDomain(Add, [sent |-> <<>>, done |-> {}], messages).sent

\* What OpenAI wants of a conversation: the results of calls right after the message of
\* the assistant that has those calls.
ResultsAreCalled(sent) ==
  \A m \in DOMAIN sent : \A id \in sent[m].toolCallId :
    \E a \in 1..m - 1 :
      /\ \A b \in a + 1..m : sent[b].role = "tool"
      /\ \E k \in DOMAIN Given(sent[a].toolCalls, <<>>) : The(sent[a].toolCalls)[k].id = id

OpenAIRequest(invocation) ==
  [model |-> invocation.provider.modelId,
   messages |-> OpenAIMessages(invocation.messages),
   maxTokens |-> invocation.maxTokens,
   temperature |-> invocation.temperature, tools |-> Tools(invocation), headers |-> {}]

\* extract_tool_calls: a call that lacks a part is left out.  The arguments are a text
\* that holds JSON: what it parses to, or the empty object if it does not.
OpenAIFunctionCall(call) ==
  LET function == Get(call, "function")
      Part(key) == UNION {Get(f, key) : f \in function}
      names == UNION {As("string", v) : v \in Part("name")}
      arguments == UNION {As("json", v) : v \in Part("arguments")}
  IN  {FunctionCall(id, name, Given(parsed, EmptyObject))
         : id \in GetAs("string", call, "id"), name \in names, parsed \in arguments}

OpenAIUsage(usage) ==
  Usage(Given(EitherAs("number", usage, "prompt_tokens", "input_tokens"), 0),
        Given(EitherAs("number", usage, "completion_tokens", "output_tokens"), 0))

\* transform_response_content: the text of the message alone.
OpenAIContent(message) ==
  LET text == GetAs("string", message, "content") \ {<<>>}
  IN  [k \in 1..Cardinality(text) |-> TextBlock(The(text))]

\* transform_response
OpenAIAnswer(response) ==
  LET choice == FirstOfEither(response, "choices", "results")
      message == Get(The(choice), "message")
      calls == UNION {GetAs("array", m, "tool_calls") : m \in message}
      Parsed(call) == SetToSeq(OpenAIFunctionCall(call))
  IN  IF choice = {} \/ message = {} THEN Err(<<"TransformError">>)
      ELSE Ok(Answer(OpenAIContent(The(message)),
                     FlattenSeq(Each(Given(calls, <<>>), Parsed)),
                     {OpenAIUsage(u) : u \in Get(response, "usage")},
                     EitherAs("string", The(choice), "finish_reason", "stop_reason")))

-----------------------------------------------------------------------------
Transformers == {"anthropic_v1", "openai_v1"}

TransformerOf(id) == IF id \in Transformers THEN Ok(id) ELSE Err(<<"TransformerNotFound", id>>)

RequestOf(transformer, invocation) ==
  IF transformer = "anthropic_v1" THEN AnthropicRequest(invocation) ELSE OpenAIRequest(invocation)

AnswerOf(transformer, response) ==
  IF transformer = "anthropic_v1" THEN AnthropicAnswer(response) ELSE OpenAIAnswer(response)

\* is_retryable: what the code says of its errors and no caller asks.
RetryableStatus == {429, 500, 502, 503, 529}
IsRetryable(error) ==
  \/ error[1] = "ProviderApiError" /\ error[2] \in RetryableStatus
  \/ error[1] \in {"HttpError", "Timeout"}

\* build_auth_value, and the headers of the request that carries it.
AuthValue(provider, key) == Given(provider.authHeaderPrefix, "") \o key
Headers(provider, request, key) ==
  {<<provider.authHeaderName, AuthValue(provider, key)>>}
    \cup UNION provider.customHeaders \cup request.headers

\* call_provider: the reply of the endpoint is an error, or a status and the Option of
\* a JSON value.
CallProvider(reply) ==
  CASE ~reply.ok -> Err(<<"HttpError">>)
    [] reply.ok /\ reply.value.status \notin 200..299 ->
         Err(<<"ProviderApiError", reply.value.status>>)
    [] reply.ok /\ reply.value.status \in 200..299 /\ reply.value.body = {} -> Err(<<"HttpError">>)
    [] OTHER -> Ok(The(reply.value.body))

\* process: what comes first fails first, the key before the request is made.
Process(provider, key, reply) ==
  LET request == TransformerOf(provider.requestTransformer)
      called == CallProvider(reply)
      response == TransformerOf(provider.responseTransformer)
      answer == AnswerOf(response.value, called.value)
  IN  CASE ~key.ok -> key
        [] key.ok /\ ~request.ok -> request
        [] key.ok /\ request.ok /\ ~called.ok -> called
        [] key.ok /\ request.ok /\ called.ok /\ ~response.ok -> response
        [] OTHER -> IF answer.ok THEN Ok(LLMResponse(answer.value, provider)) ELSE answer
=============================================================================
