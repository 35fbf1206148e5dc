-------------------------- MODULE AgentConversation --------------------------
(***************************************************************************)
(* The requests the agent sends in the course of a conversation            *)
(* (agent_handler and execute_iteration in                                 *)
(* src/examples/src/bin/mcp_agent/handler.rs), whatever the model answers  *)
(* and whichever of the tool calls come to a result.                       *)
(***************************************************************************)
EXTENDS AgentLoop

CONSTANTS
  Configuration,    \* what the agent was configured with
  Opening,          \* the messages it is invoked with
  Answers(_),       \* what the model may answer in an iteration
  Batches(_)        \* what the tool calls of an answer may come to

VARIABLES
  loop,       \* what the loop of agent_handler has accumulated
  request     \* the messages of the last request, in the provider's form

vars == <<loop, request>>

Init ==
  /\ loop = LoopStart(Opening)
  /\ request = <<>>

\* One iteration: the request, the answer, and the results of its calls.
Iterate ==
  /\ loop.ended = {}
  /\ loop.iterations < Configuration.parameters.maxIterations
  /\ request' = RequestOf(Configuration.providerConfig.requestTransformer,
                          BuildInvocation(Configuration, loop.messages, <<>>)).messages
  /\ \E response \in Answers(loop.iterations + 1) : \E batch \in Batches(response) :
       loop' = Accumulated(loop, Iteration(response, batch))

Next == Iterate

Spec == Init /\ [][Next]_vars

-----------------------------------------------------------------------------
\* Every result that is sent to OpenAI follows the message of the assistant that calls
\* for it, as transform_messages is there to see to (openai.rs).
ResultsFollowTheirCalls == ResultsAreCalled(request)
=============================================================================
