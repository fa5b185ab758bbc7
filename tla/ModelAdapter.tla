---------------------------- MODULE ModelAdapter ----------------------------
(***************************************************************************)
(* agent-adapters/src/traits.rs: what the adapters of all providers share. *)
(* Text is its length in bytes, the content of a message its number.       *)
(***************************************************************************)
EXTENDS Naturals, Sequences, SequencesExt

CONSTANT None

AdapterError == {"configuration", "invalid_request", "transport", "response"}
MessageRole == {"system", "user", "assistant", "tool"}

ModelMessage == [role : MessageRole, content : Nat]
PromptMessage(role, content) == [role |-> role, content |-> content]

\* InferenceRequest::new fails on an empty list; the rest is set afterwards.  No
\* adapter reads the tools, which are names.
Request == [system : Nat \cup {None}, messages : Seq(ModelMessage),
            temperature : Nat \cup {None}, maxTokens : Nat \cup {None}, tools : Seq(STRING)]
InferenceRequest(messages) ==
  IF messages = <<>> THEN None
  ELSE [system |-> None, messages |-> messages, temperature |-> None, maxTokens |-> None,
        tools |-> <<>>]

OrElse(option, default) == IF option = None THEN default ELSE option

\* sanitize_base_url trims, wants a scheme, ends the URL with a slash, parses it.
BaseUrl == [scheme : {"http", "https", "other"}, slash : BOOLEAN, parses : BOOLEAN]
Sanitize(url) ==
  IF url.scheme = "other" \/ ~url.parses THEN None ELSE [url EXCEPT !.slash = TRUE]

\* What goes on the wire: a message of the provider's format, marked if a text
\* of the adapter says that it is the output of a tool.
WireMessage(role, m, marked) == [role |-> role, content |-> m.content, marked |-> marked]
NoSystem(messages) ==
  FoldLeft(LAMBDA kept, m : IF m.role = "system" THEN kept ELSE Append(kept, m), <<>>, messages)

\* A response of a provider: its status, whether the body decodes, the error it
\* may report and its pieces of text, None for one that has none.  An adapter
\* returns a stream of one chunk with the whole answer, or an error.
HttpResponse(success, decodes, error, pieces) ==
  [success |-> success, decodes |-> decodes, error |-> error, pieces |-> pieces]
Answer(text) == [error |-> None, text |-> text]
Failure(error) == [error |-> error, text |-> 0]

\* The first piece with text, or no text.
FirstText(pieces) ==
  LET given == {i \in DOMAIN pieces : pieces[i] # None}
  IN  IF given = {} THEN 0 ELSE pieces[Min(given)]

\* join("\n")
Join(pieces) == IF pieces = <<>> THEN 0
                ELSE FoldLeft(LAMBDA sum, p : sum + p, 0, pieces) + Len(pieces) - 1
=============================================================================
