------------------------------ MODULE AgentTools ------------------------------
(***************************************************************************)
(* The tools of the agent (mcp/client.rs under                             *)
(* src/examples/src/bin/mcp_agent): how they are found, named, and called  *)
(* on the server they came from.  A URL parses or not and has the Option   *)
(* of a host of labels; a label and the name of a tool are the sequence of *)
(* their parts between "__".  A server is what it answers to each request; *)
(* the servers are a function of their URLs.                               *)
(***************************************************************************)
EXTENDS AgentProviders
LOCAL INSTANCE SequencesExt

\* extract_host_prefix_from: the first label of the host.
HostPrefix(url) ==
  IF ~url.parses \/ url.host = {} THEN Err(<<"InvalidUrl">>) ELSE Ok(Head(The(url.host)))

\* translate_mcp_tool: {prefix}__{name}.
TranslatedTool(tool, prefix) ==
  UnifiedTool(prefix \o tool.name, Given(tool.description, <<>>),
              CleanToolSchema(tool.inputSchema))

\* create_initialized_client
InitializedClient(server) ==
  IF server.initializes THEN Ok(server) ELSE Err(<<"InitializationFailed">>)

\* connect_and_discover_parsed: page after page until one has no cursor.
ListedTools(server) ==
  CASE ~server.initializes -> InitializedClient(server)
    [] server.initializes /\ (\E k \in DOMAIN server.pages : ~server.pages[k].ok) ->
         Err(<<"DiscoveryFailed">>)
    [] OTHER -> Ok(FlattenSeq(Each(server.pages, LAMBDA page : page.value)))

NoTools == [tools |-> <<>>, routing |-> <<>>]

\* The tools of one more server: a name that is there already is routed to this one.
AddServer(found, url, tools) ==
  LET translated == Each(tools, LAMBDA t : TranslatedTool(t, HostPrefix(url).value))
      names == {translated[k].name : k \in DOMAIN translated}
  IN  [tools |-> found.tools \o translated,
       routing |-> [n \in DOMAIN found.routing \cup names |->
                      IF n \in names THEN url ELSE found.routing[n]]]

\* discover_all_tools: one server after the other, up to the first that fails.
DiscoverAllTools(urls, servers) ==
  LET Add(found, url) ==
        CASE ~found.ok -> found
          [] found.ok /\ ~HostPrefix(url).ok -> HostPrefix(url)
          [] found.ok /\ HostPrefix(url).ok /\ ~ListedTools(servers[url]).ok ->
               ListedTools(servers[url])
          [] OTHER -> Ok(AddServer(found.value, url, ListedTools(servers[url]).value))
  IN  IF urls = <<>> THEN Err(<<"NoServersConfigured">>)
      ELSE FoldLeft(Add, Ok(NoTools), urls)

\* establish_mcp_connections: the servers by URL; one that fails ends it.
EstablishConnections(urls, servers) ==
  LET failed == SelectSeq(urls, LAMBDA url : ~url.parses \/ ~servers[url].initializes)
  IN  CASE failed = <<>> -> Ok([url \in ToSet(urls) |-> servers[url]])
        [] OTHER -> IF ~Head(failed).parses THEN Err(<<"InvalidUrl">>)
                    ELSE InitializedClient(servers[Head(failed)])

\* resolve_tool_call: split at the first "__".
ResolveToolCall(name, routing) ==
  CASE name \notin DOMAIN routing -> Err(<<"UnknownTool">>)
    [] name \in DOMAIN routing /\ Len(name) < 2 -> Err(<<"InvalidToolName">>)
    [] OTHER -> Ok([url |-> routing[name], name |-> Tail(name)])

ToolCallResult(id, content, isError) ==
  [toolUseId |-> id, content |-> content, isError |-> isError]

\* execute_tool_call: an error of the tool is a result, one of the transport is not;
\* of the contents only the texts are kept.
ExecuteToolCall(call, routing, clients) ==
  LET resolved == ResolveToolCall(call.name, routing)
      answer == clients[resolved.value.url].call[resolved.value.name]
  IN  CASE ~resolved.ok -> resolved
        [] resolved.ok /\ resolved.value.url \notin DOMAIN clients ->
             Err(<<"ToolExecutionFailed">>)
        [] OTHER -> IF ~answer.ok THEN Err(<<"ToolExecutionFailed">>)
                    ELSE Ok(ToolCallResult(call.id, JoinedText(answer.value.content),
                                           answer.value.isError))
=============================================================================
