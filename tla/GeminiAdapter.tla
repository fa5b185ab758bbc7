--------------------------- MODULE GeminiAdapter ---------------------------
(* agent-adapters/src/gemini.rs *)
EXTENDS ModelAdapter

Default == [key |-> None, url |-> [scheme |-> "https", slash |-> TRUE, parses |-> TRUE],
            temperature |-> None]

WithBaseUrl(config, url) ==
  IF Sanitize(url) = None THEN None ELSE [config EXCEPT !.url = Sanitize(url)]

Usable(config) == config # None /\ config.key # None

\* The key is part of the address, which is only parsed for each request.
BuildUri(config) == config.key # "unparsable"

MapPromptMessage(m) ==
  WireMessage(IF m.role = "assistant" THEN "model" ELSE "user", m, m.role = "tool")

\* The system prompt is an instruction of its own and system messages are left out.
BuildRequest(config, request) ==
  [system |-> request.system,
   messages |-> LET rest == NoSystem(request.messages)
                IN  [i \in DOMAIN rest |-> MapPromptMessage(rest[i])],
   temperature |-> OrElse(request.temperature, config.temperature),
   maxTokens |-> request.maxTokens]

\* The parts of all candidates, one of which may come without content.
Reply(response) ==
  IF ~response.success \/ ~response.decodes \/ \E i \in DOMAIN response.pieces : response.pieces[i] = None
  THEN Failure("response")
  ELSE Answer(Join(response.pieces))
=============================================================================
