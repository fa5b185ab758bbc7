--------------------------- MODULE OpenAiAdapter ---------------------------
(* agent-adapters/src/openai.rs *)
EXTENDS ModelAdapter

Default == [key |-> None, url |-> [scheme |-> "https", slash |-> TRUE, parses |-> TRUE],
            temperature |-> None]

WithBaseUrl(config, url) ==
  IF Sanitize(url) = None THEN None ELSE [config EXCEPT !.url = Sanitize(url)]

\* new wants a key and an endpoint that parses.
Usable(config) == config # None /\ config.key # None

\* The key must be a header's value, which shows when a request is built.
BuildHeaders(config) == config.key # "unprintable"

MapPromptMessage(m) == WireMessage(m.role, m, FALSE)

\* The system prompt goes first, as a message.
BuildRequest(config, request) ==
  [system |-> None,
   messages |-> (IF request.system = None THEN <<>>
                 ELSE <<WireMessage("system", [content |-> request.system], FALSE)>>)
                \o [i \in DOMAIN request.messages |-> MapPromptMessage(request.messages[i])],
   temperature |-> OrElse(request.temperature, config.temperature),
   maxTokens |-> request.maxTokens]

\* The first choice with content, or no text.
Reply(response) ==
  IF ~response.success \/ ~response.decodes THEN Failure("response")
  ELSE Answer(FirstText(response.pieces))
=============================================================================
