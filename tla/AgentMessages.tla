---------------------------- MODULE AgentMessages ----------------------------
(***************************************************************************)
(* The messages of the durable MCP agent, in the form it keeps them for    *)
(* every provider (src/examples/src/bin/mcp_agent/llm/models.rs).  A text  *)
(* is a sequence of phrases, so that joining texts is concatenation; an    *)
(* Option is the set of its value, if any; an operation that may fail      *)
(* gives Ok(v) or Err(e).                                                  *)
(***************************************************************************)
EXTENDS Integers, Sequences
LOCAL INSTANCE SequencesExt

Ok(value) == [ok |-> TRUE, value |-> value]
Err(error) == [ok |-> FALSE, error |-> error]

-----------------------------------------------------------------------------
\* The blocks of a message.
TextBlock(text) == [type |-> "text", text |-> text]
ToolUse(id, name, input) == [type |-> "tool_use", id |-> id, name |-> name, input |-> input]
ToolResult(id, content, isError) ==
  [type |-> "tool_result", id |-> id, content |-> content, isError |-> isError]
ImageBlock(source) == [type |-> "image", source |-> source]

OfType(blocks, type) == SelectSeq(blocks, LAMBDA b : b.type = type)

\* The texts of the blocks, in one.
JoinedText(blocks) ==
  FlattenSeq([k \in DOMAIN OfType(blocks, "text") |-> OfType(blocks, "text")[k].text])

\* UnifiedMessage: its content is one text, or a sequence of blocks.
TextMessage(role, text) == [role |-> role, content |-> [is |-> "text", text |-> text]]
BlocksMessage(role, blocks) == [role |-> role, content |-> [is |-> "blocks", blocks |-> blocks]]

BlocksOf(message) ==
  IF message.content.is = "blocks" THEN message.content.blocks ELSE <<>>

-----------------------------------------------------------------------------
UnifiedTool(name, description, schema) ==
  [name |-> name, description |-> description, inputSchema |-> schema]

FunctionCall(id, name, input) == [id |-> id, name |-> name, input |-> input]

\* TransformedResponse: what a provider answered; no tool calls are no Option.
Answer(content, calls, usage, stopReason) ==
  [content |-> content, functionCalls |-> IF calls = <<>> THEN {} ELSE {calls},
   usage |-> usage, stopReason |-> stopReason]

\* LLMResponse, with its metadata but for the time the request took.
LLMResponse(answer, provider) ==
  [content |-> answer.content, functionCalls |-> answer.functionCalls,
   tokensUsed |-> answer.usage, stopReason |-> answer.stopReason,
   modelId |-> provider.modelId, providerId |-> provider.providerId]

\* LLMInvocation; neither top_p nor stream is ever set.
LLMInvocation(provider, messages, tools, parameters) ==
  [provider |-> provider, messages |-> messages, tools |-> tools,
   temperature |-> {parameters.temperature}, maxTokens |-> {parameters.maxTokens}]
=============================================================================
