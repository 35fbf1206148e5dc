------------------------------- MODULE MCAgent -------------------------------
(* The agent on small conversations: what either provider may answer, and  *)
(* what the servers say to the tool calls in it.                           *)
EXTENDS AgentLoop
LOCAL INSTANCE SequencesExt

Url(host) == [parses |-> TRUE, host |-> {host}]
Calc == Url(<<<<"calc">>, <<"example">>>>)
Wiki == Url(<<<<"wiki">>, <<"example">>>>)
OtherCalc == Url(<<<<"calc">>, <<"other">>>>)
Parted == Url(<<<<"my", "calc">>, <<"example">>>>)

Tool(name) == [name |-> name, description |-> {}, inputSchema |-> EmptyObject]
ServerTools == <<Tool(<<"add">>), Tool(<<"add", "all">>)>>

\* A server of two pages, which answers both tools or has lost its connection for one.
Reply(isError) ==
  Ok([content |-> <<TextBlock(<<"sum">>), ImageBlock("png"), TextBlock(<<"total">>)>>,
      isError |-> isError])
ServerWith(add, all) ==
  [initializes |-> TRUE, pages |-> <<Ok(<<Head(ServerTools)>>), Ok(Tail(ServerTools))>>,
   call |-> [n \in {<<"add">>, <<"add", "all">>} |-> IF n = <<"add">> THEN add ELSE all]]
Healthy == ServerWith(Reply(FALSE), Reply(TRUE))
Broken == ServerWith(Reply(FALSE), Err(<<"connection">>))

AddCall(id) == FunctionCall(<<id>>, <<"calc", "add">>, Object([a |-> Number(1)]))
AllCall(id) == FunctionCall(<<id>>, <<"calc", "add", "all">>, Object([b |-> Number(2)]))
StrayCall(id) == FunctionCall(<<id>>, <<"calc", "sub">>, EmptyObject)

\* What a model says in its turn, the ids of its calls being its own.
Turn(text, calls) == [text |-> text, calls |-> calls]
TurnsWith(one, two) ==
  {Turn(text, calls) : text \in {<<>>, <<"so">>},
                       calls \in {<<>>, <<AddCall(one)>>, <<AllCall(one), AddCall(two)>>,
                                  <<AddCall(one), StrayCall(two)>>}}
Turns == {<<a, b>> : a \in TurnsWith(11, 12), b \in TurnsWith(21, 22)}

-----------------------------------------------------------------------------
\* The turn as either provider writes it.
AnthropicJson(turn) ==
  LET Word(w) == Text(<<w>>)
      Said == IF turn.text = <<>> THEN <<>>
              ELSE <<Object([type |-> Word("text"), text |-> Text(turn.text)])>>
      Use(c) == Object([type |-> Word("tool_use"), id |-> Text(c.id), name |-> Text(c.name),
                        input |-> c.input])
  IN  Object([content |-> Array(Said \o Each(turn.calls, Use)),
              stop_reason |-> Word(IF turn.calls = <<>> THEN "end_turn" ELSE "tool_use"),
              usage |-> Object([input_tokens |-> Number(3), output_tokens |-> Number(2)])])

OpenAIJson(turn) ==
  LET Call(c) == Object([id |-> Text(c.id),
                         function |-> Object([name |-> Text(c.name),
                                              arguments |-> [is |-> "json", at |-> {c.input}]])])
      message == IF turn.calls = <<>> THEN [content |-> Text(turn.text)]
                 ELSE [content |-> Text(turn.text), tool_calls |-> Array(Each(turn.calls, Call))]
      choice == [message |-> Object(message),
                 finish_reason |-> Text(<<IF turn.calls = <<>> THEN "stop" ELSE "tool_calls">>)]
  IN  Object([choices |-> Array(<<Object(choice)>>),
              usage |-> Object([prompt_tokens |-> Number(3), completion_tokens |-> Number(2)])])

JsonOf(name, turn) == IF name = "openai" THEN OpenAIJson(turn) ELSE AnthropicJson(turn)

Answered(provider, turn) ==
  Process(provider, Ok("key"),
          Ok([status |-> 200, body |-> {JsonOf(provider.providerId, turn)}])).value

\* Whatever provider says it, a turn has the calls and the text it has, and is final if
\* it calls nothing.
ASSUME TurnAssumption ==
  \A name \in {"claude", "openai"} : \A turn \in TurnsWith(11, 12) :
    LET response == Answered(ProviderConfig(name, "model").value, turn)
    IN  /\ ToolCalls(response) = turn.calls
        /\ FinalText(response) = turn.text
        /\ response.tokensUsed = {Usage(3, 2)}
        /\ IsFinal(response) <=> turn.calls = <<>>

-----------------------------------------------------------------------------
Config(name, urls, iterations) ==
  InlineConfig([provider |-> name, modelId |-> "model", instructions |-> <<"help">>,
                mcpServerUrls |-> urls, secretPath |-> {}, secretKeyName |-> {"KEY"},
                maxIterations |-> {iterations}, temperature |-> {}, maxTokens |-> {}],
               "agent", "latest")

Question == <<TextMessage("user", <<"question">>)>>

Only(server) == [url \in {Calc} |-> server]

\* A run of the agent: the turns of the model, and which of its results each batch gives.
Run(name, server, turns, batches) ==
  LET config == Config(name, <<Calc>>, Len(turns))
      Child(i) == Ok(Iteration(Answered(config.value.providerConfig, turns[i]), batches[i]))
  IN  AgentHandler(config, Question, DiscoverAllTools(<<Calc>>, Only(server)),
                   EstablishConnections(<<Calc>>, Only(server)), [i \in DOMAIN turns |-> Child(i)])

OutcomeOn(server, call) ==
  ExecuteToolCall(call, DiscoverAllTools(<<Calc>>, Only(server)).value.routing,
                  EstablishConnections(<<Calc>>, Only(server)).value)

BatchesOf(server, turn) == ToolBatches(Each(turn.calls, LAMBDA c : OutcomeOn(server, c)))

Runs(name, server, turns) ==
  {Run(name, server, turns, <<a, b>>) : a \in BatchesOf(server, turns[1]),
                                        b \in BatchesOf(server, turns[2])}

\* The messages of the next request.
Sent(name, run) ==
  LET config == Config(name, <<Calc>>, 1).value
  IN  RequestOf(config.providerConfig.requestTransformer,
                BuildInvocation(config, run.messages, ServerTools)).messages

AllAnswered(server, turn) == \A k \in DOMAIN turn.calls : OutcomeOn(server, turn.calls[k]).ok

\* With Anthropic each call in the history has its result in the message after it,
\* unless a call failed in transport: then a call of that turn has none.
ASSUME AnthropicAssumption ==
  \A server \in {Healthy, Broken} : \A turns \in Turns : turns[1].calls # <<>> =>
    \A run \in Runs("claude", server, turns) :
      LET sent == Sent("claude", run)
          ResultAfter(m, block) ==
            /\ m < Len(sent)
            /\ \E k \in DOMAIN sent[m + 1].content :
                 /\ sent[m + 1].content[k].type = "tool_result"
                 /\ sent[m + 1].content[k].id = block.id
          Unanswered == {b \in UNION {{<<m, k>> : k \in DOMAIN sent[m].content} : m \in DOMAIN sent} :
                           /\ sent[b[1]].content[b[2]].type = "tool_use"
                           /\ ~ResultAfter(b[1], sent[b[1]].content[b[2]])}
      IN  Unanswered = {} <=> \A k \in DOMAIN turns : AllAnswered(server, turns[k])

\* With OpenAI each tool message follows an assistant message that calls it, as long as
\* no batch has more than one result; but the answers of a model keep no tool_use, so
\* all it is shown of its calls is their ids.
ASSUME OpenAIAssumption ==
  \A server \in {Healthy, Broken} : \A turns \in Turns :
    \A run \in Runs("openai", server, turns) :
      LET sent == Sent("openai", run)
          CallsIn(m) == Given(sent[m].toolCalls, <<>>)
      IN  /\ (\A m \in DOMAIN run.messages : Len(BlocksOf(run.messages[m])) <= 1)
               => ResultsAreCalled(sent)
          /\ \A m \in DOMAIN sent : \A k \in DOMAIN CallsIn(m) :
               CallsIn(m)[k].name = <<"unknown">> /\ CallsIn(m)[k].arguments = EmptyObject

\* The metadata counts every turn that was taken, and the record of the execution says
\* of it what the response does.
ASSUME MetadataAssumption ==
  \A name \in {"claude", "openai"} : \A turns \in Turns : \A run \in Runs(name, Healthy, turns) :
    LET taken == IF turns[1].calls = <<>> THEN 1 ELSE 2
        returned == Returned(run)
        request == [executionId |-> {"id"}, executionsTable |-> {"table"}]
        update == The(ExecutionUpdate(request, run))
    IN  /\ Metadata(run) = [iterations |-> taken, inputTokens |-> 3 * taken,
                            outputTokens |-> 2 * taken,
                            toolsCalled |-> FlattenSeq([k \in 1..taken |->
                                              Each(turns[k].calls, LAMBDA c : c.name)])]
        /\ returned.ok <=> turns[taken].calls = <<>>
        /\ update.status = IF returned.ok THEN "completed" ELSE "failed"
        /\ returned.ok => /\ update.metadata = returned.value.metadata
                          /\ update.output = {turns[taken].text}

\* An error of a step ends the agent, and leaves the record of its execution as it was.
ASSUME FailureAssumption ==
  LET request == [executionId |-> {"id"}, executionsTable |-> {"table"}]
      fails == <<Err(<<"StepFailed">>)>>
      down == Err(<<"InitializationFailed">>)
      runs == {AgentHandler(Config("grok", <<>>, 1), Question, down, down, fails),
               AgentHandler(Config("openai", <<>>, 1), Question, down, down, fails),
               AgentHandler(Config("openai", <<Calc>>, 1), Question, Ok(NoTools), down, fails)}
  IN  \A run \in runs : ~Returned(run).ok /\ ExecutionUpdate(request, run) = {}

-----------------------------------------------------------------------------
\* A tool is called on its server under its own name if no other server has the same
\* first label, and that label has no "__" in it.
ASSUME RoutingAssumption ==
  LET All(urls) == DiscoverAllTools(urls, [url \in ToSet(urls) |-> Healthy]).value
      Resolves(urls, url, tool) ==
        ResolveToolCall(TranslatedTool(tool, HostPrefix(url).value).name, All(urls).routing)
          = Ok([url |-> url, name |-> tool.name])
  IN  \A urls \in {<<Calc, Wiki>>, <<Calc, OtherCalc>>, <<Parted, Wiki>>} :
        \A url \in ToSet(urls), tool \in ToSet(ServerTools) :
          Resolves(urls, url, tool)
            <=> \/ url = Wiki \/ url = OtherCalc
                \/ url = Calc /\ OtherCalc \notin ToSet(urls)

\* Tools are found on all servers or on none: pages, servers and URLs that fail end it.
ASSUME DiscoveryAssumption ==
  LET good == [url \in {Calc, Wiki} |-> Healthy]
      bad == [good EXCEPT ![Wiki].pages = Append(@, Err(<<"lost">>))]
      down == [good EXCEPT ![Wiki].initializes = FALSE]
      noUrl == [parses |-> FALSE, host |-> {}]
  IN  /\ Len(DiscoverAllTools(<<Calc, Wiki>>, good).value.tools) = 4
      /\ DiscoverAllTools(<<Calc, Wiki>>, bad) = Err(<<"DiscoveryFailed">>)
      /\ DiscoverAllTools(<<Calc, Wiki>>, down) = Err(<<"InitializationFailed">>)
      /\ EstablishConnections(<<Calc, Wiki>>, down) = Err(<<"InitializationFailed">>)
      /\ EstablishConnections(<<Calc, Wiki>>, good).ok
      /\ DiscoverAllTools(<<Calc, noUrl>>, good) = EstablishConnections(<<Calc, noUrl>>, good)
      /\ ~DiscoverAllTools(<<>>, good).ok

-----------------------------------------------------------------------------
String(value) == [type |-> "S", value |-> value]
TableItem == [f \in ToSet(RequiredFields) \cup {"mcp_servers", "parameters"} |->
           CASE f = "llm_provider" -> String("openai")
             [] f = "mcp_servers" -> String({<<Calc>>})
             [] f = "parameters" -> String({[DefaultParameters EXCEPT !.maxIterations = 3]})
             [] OTHER -> String(f)]
Without(item, fields) == [f \in DOMAIN item \ fields |-> item[f]]

\* A field that is required ends it if it is missing; of the others one that does not
\* parse counts as missing, so that an agent may run without the servers it was given.
ASSUME ConfigAssumption ==
  /\ ParseAgentConfig(TableItem).value.parameters.maxIterations = 3
  /\ \A k \in DOMAIN RequiredFields :
       ParseAgentConfig(Without(TableItem, {RequiredFields[j] : j \in k..5}))
         = Err(<<"MissingField", RequiredFields[k]>>)
  /\ ParseAgentConfig([TableItem EXCEPT !["mcp_servers"] = String({}), !["parameters"] = String({})])
       = ParseAgentConfig(Without(TableItem, {"mcp_servers", "parameters"}))
  /\ LoadAgentConfig(Ok({TableItem})) = ParseAgentConfig(TableItem)
  /\ ~LoadAgentConfig(Ok({})).ok /\ ~LoadAgentConfig(Err(<<"throttled">>)).ok
  /\ \A name \in {"claude", "anthropic", "openai"} :
       LET provider == ProviderConfig(name, "model").value
       IN  /\ TransformerOf(provider.requestTransformer).ok
           /\ provider.requestTransformer = provider.responseTransformer

Secret == [KEY |-> [type |-> "string", value |-> "key"], NUM |-> [type |-> "number", value |-> 7]]

\* Until it expires, a cached secret gives a key as the service would; one that is no
\* string is wrong when fetched, and unknown when cached.  Of two callers that look for
\* a secret that expired, neither finds what the other fetches.
ASSUME SecretAssumption ==
  LET Fetch(cache, key, now) == ApiKey(cache, "path", key, now, Ok({{Secret}}), now + 1)
      first == Fetch(<<>>, "KEY", 0)
      Dead(key, now) == ApiKey(first.cache, "path", key, now, Err(<<"down">>), now + 1)
  IN  /\ \A now \in {1, CacheTtl} : Dead("KEY", now) = [result |-> Ok("key"), cache |-> first.cache]
      /\ Dead("KEY", CacheTtl + 1) = [result |-> Err(<<"AwsSdkError">>), cache |-> <<>>]
      /\ Fetch(<<>>, "NUM", 0).result = Err(<<"InvalidConfiguration">>)
      /\ Fetch(first.cache, "NUM", 1).result = Err(<<"SecretKeyNotFound", "NUM">>)
      /\ Cached(Evicted(first.cache, "path", CacheTtl + 1), "path", CacheTtl + 1) = {}

\* The body of an answer may be anything: what is not understood is left out, and a null
\* in the first of two places hides what is in the other.
ASSUME AnswerAssumption ==
  LET null == [is |-> "null", at |-> <<>>]
      Choice(message, extra) == Object([choices |-> Array(<<Object([message |-> message] @@ extra)>>)])
      Stop(extra) == OpenAIAnswer(Choice(EmptyObject, extra)).value.stopReason
  IN  /\ ~OpenAIAnswer(Object([choices |-> Array(<<>>)])).ok
      /\ ~AnthropicAnswer(Object([content |-> Text(<<"text">>)])).ok
      /\ Stop([stop_reason |-> Text(<<"stop">>)]) = {<<"stop">>}
      /\ Stop([finish_reason |-> null, stop_reason |-> Text(<<"stop">>)]) = {}
      /\ OpenAIUsage(Object([prompt_tokens |-> Number(MaxU32 + 2)])) = Usage(1, 0)
      /\ CleanToolSchema(null) = CleanToolSchema(Object([properties |-> EmptyObject,
                                                        required |-> Array(<<>>)]))

\* The key is sent under the header of its provider, and no status but success is an
\* answer; the errors that would pass are told from the others, though nothing asks.
ASSUME CallAssumption ==
  LET openai == ProviderConfig("openai", "model").value
      At(status) == CallProvider(Ok([status |-> status, body |-> {EmptyObject}]))
  IN  /\ Headers(openai, [headers |-> {}], "key") = {<<"Authorization", "Bearer key">>}
      /\ \A status \in {200, 201, 299, 300, 400, 429, 500, 529} :
           /\ At(status).ok <=> status < 300
           /\ ~At(status).ok => (IsRetryable(At(status).error) <=> status \in {429, 500, 529})
      /\ IsRetryable(CallProvider(Err("timeout")).error)
=============================================================================
