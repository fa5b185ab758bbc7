-------------------------- MODULE AnthropicAdapter --------------------------
(* agent-adapters/src/anthropic.rs *)
EXTENDS ModelAdapter

Default == [key |-> None, url |-> [scheme |-> "https", slash |-> TRUE, parses |-> TRUE],
            temperature |-> None, maxTokens |-> 4096]

WithBaseUrl(config, url) ==
  IF Sanitize(url) = None THEN None ELSE [config EXCEPT !.url = Sanitize(url)]

Usable(config) == config # None /\ config.key # None

\* The key must be a header's value, which shows when a request is built.
BuildHeaders(config) == config.key # "unprintable"

MapPromptMessage(m) ==
  WireMessage(IF m.role = "assistant" THEN "assistant" ELSE "user", m, m.role = "tool")

\* The system prompt has a parameter of its own and system messages are left out.
BuildRequest(config, request) ==
  [system |-> request.system,
   messages |-> LET rest == NoSystem(request.messages)
                IN  [i \in DOMAIN rest |-> MapPromptMessage(rest[i])],
   temperature |-> OrElse(request.temperature, config.temperature),
   maxTokens |-> OrElse(request.maxTokens, config.maxTokens)]

\* A content block that is not text does not decode.
Reply(response) ==
  IF ~response.success \/ ~response.decodes \/ \E i \in DOMAIN response.pieces : response.pieces[i] = None
  THEN Failure("response")
  ELSE Answer(Join(response.pieces))
=============================================================================
