----------------------------- MODULE AgentConfig -----------------------------
(***************************************************************************)
(* Where the agent gets its configuration and its keys from (config/       *)
(* loader.rs, types.rs and llm/secrets.rs under                            *)
(* src/examples/src/bin/mcp_agent).  A text that holds JSON is what it     *)
(* parses to, or the Option of nothing; an attribute of a DynamoDB item    *)
(* and a value of a secret have a type and a value.                        *)
(***************************************************************************)
EXTENDS AgentMessages, Naturals

DefaultParameters ==
  [maxIterations |-> 10, temperature |-> "0.7", maxTokens |-> 4096, timeoutSeconds |-> 120]

\* map_provider_config, with the paths of the endpoints left out.
Provider(id, model, endpoint, header, prefix, key, transformer) ==
  [providerId |-> id, modelId |-> model, endpoint |-> endpoint,
   authHeaderName |-> header, authHeaderPrefix |-> prefix,
   secretPath |-> "/ai-agent/llm-secrets/prod", secretKeyName |-> key,
   requestTransformer |-> transformer, responseTransformer |-> transformer,
   timeout |-> 120, customHeaders |-> {}]

ProviderConfig(name, model) ==
  CASE name \in {"claude", "anthropic"} ->
         Ok(Provider("anthropic", model, "api.anthropic.com", "x-api-key", {},
                     "ANTHROPIC_API_KEY", "anthropic_v1"))
    [] name = "openai" ->
         Ok(Provider("openai", model, "api.openai.com", "Authorization", {"Bearer "},
                     "OPENAI_API_KEY", "openai_v1"))
    [] OTHER -> Err(<<"UnsupportedProvider", name>>)

-----------------------------------------------------------------------------
\* get_string: an attribute that is no string counts as missing.
StringOf(item, key) ==
  IF key \in DOMAIN item /\ item[key].type = "S" THEN {item[key].value} ELSE {}

\* get_optional_json_string_as: text that does not parse gives the default too.
JsonOr(item, key, default) ==
  CASE StringOf(item, key) \in {{}, {{}}} -> default
    [] OTHER -> CHOOSE v \in UNION StringOf(item, key) : TRUE

RequiredFields == <<"agent_name", "version", "system_prompt", "llm_provider", "llm_model">>

AgentConfigOf(name, version, prompt, provider, urls, parameters) ==
  [agentName |-> name, version |-> version, systemPrompt |-> prompt,
   providerConfig |-> provider, mcpServerUrls |-> urls, parameters |-> parameters]

\* parse_agent_config: the first field that is missing is the error.
ParseAgentConfig(item) ==
  LET Field(k) == StringOf(item, RequiredFields[k])
      missing == {k \in DOMAIN RequiredFields : Field(k) = {}}
      The(k) == CHOOSE v \in Field(k) : TRUE
      provider == ProviderConfig(The(4), The(5))
  IN  CASE missing # {} ->
             Err(<<"MissingField",
                   RequiredFields[CHOOSE k \in missing : \A j \in missing : k <= j]>>)
        [] missing = {} /\ ~provider.ok -> provider
        [] OTHER ->
             Ok(AgentConfigOf(The(1), The(2), The(3), provider.value,
                              JsonOr(item, "mcp_servers", <<>>),
                              JsonOr(item, "parameters", DefaultParameters)))

\* load_agent_config, for the answer of the table: an error, or the Option of an item.
LoadAgentConfig(answer) ==
  CASE ~answer.ok -> Err(<<"DynamoDbError">>)
    [] answer.ok /\ answer.value = {} -> Err(<<"AgentNotFound">>)
    [] OTHER -> ParseAgentConfig(CHOOSE item \in answer.value : TRUE)

Given(option, default) == IF option = {} THEN default ELSE CHOOSE v \in option : TRUE

\* to_agent_config: the configuration that comes with the request; a missing
\* parameter has its default, and the timeout cannot be given.
InlineConfig(inline, name, version) ==
  LET provider == ProviderConfig(inline.provider, inline.modelId)
      overridden ==
        [provider.value EXCEPT !.secretPath = Given(inline.secretPath, @),
                               !.secretKeyName = Given(inline.secretKeyName, @)]
      parameters ==
        [DefaultParameters EXCEPT !.maxIterations = Given(inline.maxIterations, @),
                                  !.temperature = Given(inline.temperature, @),
                                  !.maxTokens = Given(inline.maxTokens, @)]
  IN  IF ~provider.ok THEN provider
      ELSE Ok(AgentConfigOf(name, version, inline.instructions, overridden,
                            inline.mcpServerUrls, parameters))

-----------------------------------------------------------------------------
CacheTtl == 300    \* CACHE_TTL

\* The secret at a path that the cache has and that has not expired.
Cached(cache, path, now) ==
  IF path \in DOMAIN cache /\ cache[path].expiresAt > now THEN {cache[path].value} ELSE {}

KeyOf(secret, key) ==
  IF key \in DOMAIN secret THEN Ok(secret[key]) ELSE Err(<<"SecretKeyNotFound", key>>)

\* parse_secret: the key must be a string; the values that are none are left out.
ParseSecret(text, key) ==
  CASE text = {} -> Err(<<"InvalidConfiguration">>)
    [] OTHER ->
         LET secret == CHOOSE s \in text : TRUE
             strings == {k \in DOMAIN secret : secret[k].type = "string"}
         IN  CASE key \in strings ->
                    Ok([key |-> secret[key].value,
                        all |-> [k \in strings |-> secret[k].value]])
               [] key \in DOMAIN secret \ strings -> Err(<<"InvalidConfiguration">>)
               [] OTHER -> Err(<<"SecretKeyNotFound", key>>)

\* The write lock is released before the fetch: a secret that expired is removed.
Evicted(cache, path, now) ==
  [p \in {q \in DOMAIN cache : q # path \/ Cached(cache, q, now) # {}} |-> cache[p]]

\* The answer of the service is cached from when it arrived, if it has the key.
Stored(cache, path, secret, now) ==
  [p \in DOMAIN cache \cup {path} |->
     IF p = path THEN [value |-> secret, expiresAt |-> now + CacheTtl] ELSE cache[p]]

\* get_api_key: the key, and the cache it leaves.  The service answers at `later` with
\* an error or the Option of a text.
ApiKey(cache, path, key, now, answer, later) ==
  LET found == Cached(cache, path, now)
      left == Evicted(cache, path, now)
      Fails(error) == [result |-> Err(error), cache |-> left]
      parsed == ParseSecret(CHOOSE text \in answer.value : TRUE, key)
  IN  CASE found # {} -> [result |-> KeyOf(CHOOSE s \in found : TRUE, key), cache |-> cache]
        [] found = {} /\ ~answer.ok -> Fails(<<"AwsSdkError">>)
        [] found = {} /\ answer.ok /\ answer.value = {} -> Fails(<<"SecretNotFound", path>>)
        [] OTHER -> IF ~parsed.ok THEN Fails(parsed.error)
                    ELSE [result |-> Ok(parsed.value.key),
                          cache |-> Stored(left, path, parsed.value.all, later)]
=============================================================================
