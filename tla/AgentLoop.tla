------------------------------ MODULE AgentLoop ------------------------------
(***************************************************************************)
(* The durable MCP agent (handler.rs under src/examples/src/bin/mcp_agent) *)
(* as a function of what its steps, child contexts and batches of tool     *)
(* calls return.  All of these are durable: a later invocation finds the   *)
(* same returns, and computes the same.                                    *)
(***************************************************************************)
EXTENDS AgentTools, BatchValues
LOCAL INSTANCE SequencesExt

\* Casting a u32 to an i32.
AsI32(n) == IF 2 * n > MaxU32 THEN n - MaxU32 - 1 ELSE n

\* build_llm_invocation: the system prompt first, no tools as no Option.
BuildInvocation(config, messages, tools) ==
  LLMInvocation(config.providerConfig,
                <<TextMessage("system", config.systemPrompt)>> \o messages,
                IF tools = <<>> THEN {} ELSE {tools},
                [config.parameters EXCEPT !.maxTokens = AsI32(@)])

\* llm_response_to_assistant_message
AssistantMessage(response) == BlocksMessage("assistant", response.content)

\* build_tool_results_message: is_error is there only if it is true.
ToolResultsMessage(results) ==
  BlocksMessage("user",
    Each(results, LAMBDA r : ToolResult(r.toolUseId, r.content,
                                        IF r.isError THEN {TRUE} ELSE {})))

ToolCalls(response) == Given(response.functionCalls, <<>>)

\* The stop reasons of either provider for an answer that is complete.
IsFinal(response) ==
  response.stopReason \in {{<<"end_turn">>}, {<<"stop">>}} \/ ToolCalls(response) = <<>>

\* What ctx.map may return for calls of these outcomes: all of their results, or those
\* that were there when the first error of a call came, which aborted the others.
ToolBatches(outcomes) ==
  LET Ended(k) ==
        IF outcomes[k].ok THEN BatchItem(k, "Succeeded", {outcomes[k].value}, {})
        ELSE BatchItem(k, "Failed", {}, {Internal(outcomes[k].error)})
      failing == {k \in DOMAIN outcomes : ~outcomes[k].ok}
      ends == IF failing = {} THEN {DOMAIN outcomes}
              ELSE {done \in SUBSET DOMAIN outcomes : Cardinality(done \cap failing) = 1}
  IN  {[k \in DOMAIN outcomes |->
          IF k \in done THEN Ended(k) ELSE BatchItem(k, "Started", {}, {})] : done \in ends}

\* execute_iteration, for an answer of the model and a batch of its tool calls:
\* the values of the batch are those of the calls that succeeded.
Iteration(response, batch) ==
  [response |-> response, assistantMessage |-> AssistantMessage(response),
   isFinal |-> IsFinal(response),
   toolResultsMessage |->
     IF IsFinal(response) THEN {} ELSE {ToolResultsMessage(Values(batch))}]

\* extract_final_text
FinalText(response) == JoinedText(response.content)

-----------------------------------------------------------------------------
\* What the loop has accumulated, and how it ended.
LoopStart(messages) ==
  [messages |-> messages, iterations |-> 0, inputTokens |-> 0, outputTokens |-> 0,
   toolsCalled |-> <<>>, ended |-> {}]

Tokens(response, field) == IF response.tokensUsed = {} THEN 0 ELSE The(response.tokensUsed)[field]

Accumulated(loop, iteration) ==
  LET response == iteration.response
  IN  [loop EXCEPT
         !.iterations = @ + 1,
         !.inputTokens = AsU32(@ + Tokens(response, "inputTokens")),
         !.outputTokens = AsU32(@ + Tokens(response, "outputTokens")),
         !.toolsCalled = @ \o Each(ToolCalls(response), LAMBDA c : c.name),
         !.messages = Append(@, iteration.assistantMessage)
                        \o SetToSeq(iteration.toolResultsMessage),
         !.ended = IF iteration.isFinal THEN {Ok(response)} ELSE {}]

\* The loop: each iteration is a child context, which returns its result or an error.
Loop(messages, children) ==
  LET Continue(loop, child) ==
        CASE loop.ended # {} -> loop
          [] loop.ended = {} /\ ~child.ok -> [loop EXCEPT !.ended = {child}]
          [] OTHER -> Accumulated(loop, child.value)
  IN  FoldLeft(Continue, LoopStart(messages), children)

\* agent_handler from the configuration on: the servers are connected to again in
\* every invocation, and only if there are any.
AgentHandler(config, messages, discovered, connected, children) ==
  LET none == config.value.mcpServerUrls = <<>>
      Fails(error) == [LoopStart(messages) EXCEPT !.ended = {error}]
  IN  CASE ~config.ok -> Fails(config)
        [] config.ok /\ ~none /\ ~discovered.ok -> Fails(discovered)
        [] config.ok /\ ~none /\ discovered.ok /\ ~connected.ok -> Fails(connected)
        [] OTHER -> Loop(messages, SubSeq(children, 1, config.value.parameters.maxIterations))

\* The metadata of a response.
Metadata(loop) ==
  [iterations |-> loop.iterations, inputTokens |-> loop.inputTokens,
   outputTokens |-> loop.outputTokens, toolsCalled |-> loop.toolsCalled]

\* What is returned: an error also when the iterations are used up.
Returned(loop) ==
  CASE loop.ended = {} -> Err(<<"max iterations exceeded">>)
    [] loop.ended # {} /\ The(loop.ended).ok ->
         Ok([response |-> The(loop.ended).value, metadata |-> Metadata(loop)])
    [] OTHER -> The(loop.ended)

\* update_execution_status: what is written of the execution, if it is tracked at all.
\* The errors that end the handler with `?` write nothing.
ExecutionUpdate(request, loop) ==
  LET Update(status, out, error) ==
        [id |-> The(request.executionId), status |-> status, output |-> out,
         errorMessage |-> error, metadata |-> Metadata(loop),
         totalTokens |-> AsU32(loop.inputTokens + loop.outputTokens)]
  IN  CASE request.executionId = {} \/ request.executionsTable = {} -> {}
        [] loop.ended = {} -> {Update("failed", {}, {<<"max iterations exceeded">>})}
        [] OTHER -> {Update("completed", {FinalText(end.value)}, {})
                       : end \in {e \in loop.ended : e.ok}}
=============================================================================
