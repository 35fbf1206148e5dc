---------------------------- MODULE MCConversation ----------------------------
(* A conversation with OpenAI of three turns, each of up to two calls.     *)
EXTENDS AgentConversation

Call(i, k) == FunctionCall(<<i, k>>, <<"calc", "add">>, EmptyObject)

MCConfiguration ==
  [providerConfig |-> ProviderConfig("openai", "model").value, systemPrompt |-> <<"help">>,
   parameters |-> [DefaultParameters EXCEPT !.maxIterations = 3]]
MCOpening == <<TextMessage("user", <<"question">>)>>

MCAnswers(i) ==
  {LLMResponse(Answer(content, calls, {Usage(3, 2)}, {}), MCConfiguration.providerConfig)
     : content \in {<<>>, <<TextBlock(<<"so">>)>>},
       calls \in {<<>>, <<Call(i, 1)>>, <<Call(i, 1), Call(i, 2)>>}}

\* The second call of a turn may fail.
MCBatches(response) ==
  LET Result(call) == Ok(ToolCallResult(call.id, <<"sum">>, FALSE))
      Failing(call) == IF call.id[2] = 2 THEN Err(<<"ToolExecutionFailed">>) ELSE Result(call)
  IN  ToolBatches(Each(ToolCalls(response), Result))
        \cup ToolBatches(Each(ToolCalls(response), Failing))
=============================================================================
