--------------------------- MODULE OllamaAdapter ---------------------------
(* agent-adapters/src/ollama.rs *)
EXTENDS ModelAdapter

Default == [key |-> None, url |-> [scheme |-> "http", slash |-> TRUE, parses |-> TRUE],
            temperature |-> None]

WithBaseUrl(config, url) ==
  IF Sanitize(url) = None THEN None ELSE [config EXCEPT !.url = Sanitize(url)]

\* The daemon is local: no key.
Usable(config) == config # None

\* Variant: the output of a tool looks like what the user wrote.
MapPromptMessagePlain(m) ==
  WireMessage(IF m.role = "tool" THEN "user" ELSE m.role, m, FALSE)

MapPromptMessage(m) ==
  IF m.role = "tool" THEN WireMessage("user", m, TRUE) ELSE WireMessage(m.role, m, FALSE)

\* The system prompt goes first, as a message; options are left out when empty.
BuildRequest(config, request) ==
  [system |-> None,
   messages |-> (IF request.system = None THEN <<>>
                 ELSE <<WireMessage("system", [content |-> request.system], FALSE)>>)
                \o [i \in DOMAIN request.messages |-> MapPromptMessage(request.messages[i])],
   temperature |-> OrElse(request.temperature, config.temperature),
   maxTokens |-> request.maxTokens]

\* The pieces are message.content and response; the daemon may report an error.
Reply(response) ==
  IF ~response.success \/ ~response.decodes \/ response.error THEN Failure("response")
  ELSE Answer(FirstText(response.pieces))
=============================================================================
