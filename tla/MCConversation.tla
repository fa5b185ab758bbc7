--------------------------- MODULE MCConversation ---------------------------
(* Programs on every provider, with and without summaries, four of which    *)
(* cannot start; short and long questions, one important and one not.       *)
EXTENDS Conversation, TLC

Texts == [plain |-> <<Prompt!Plain(24)>>,
          role  |-> <<Prompt!Plain(8), Prompt!Ref("role"), Prompt!Plain(8)>>,
          twice |-> <<Prompt!Ref("role"), Prompt!Ref("task"), Prompt!Ref("role")>>,
          loose |-> <<Prompt!SpacedRef("role"), Prompt!Ref("extra")>>]
Values == [role |-> <<Prompt!Plain(8)>>, task |-> <<Prompt!Ref("role")>>]
NoValues == [x \in {} |-> <<>>]
Url(scheme) == [scheme |-> scheme, slash |-> FALSE, parses |-> TRUE]

Program(provider, key, url, template, runtime, summarize) ==
  [provider |-> provider, key |-> key, url |-> url,
   temperature |-> IF provider \in {"anthropic", "ollama"} THEN 7 ELSE None,
   template |-> template, runtime |-> runtime,
   window |-> [max |-> IF summarize THEN 40 ELSE 30, recent |-> 2, threshold |-> 40, summarize |-> summarize]]

Programs ==
  LET role == Prompt!Template(Texts.role, Values, {"role"})
      needs == Prompt!Template(Texts.role, NoValues, {"role"})
  IN  { Program("openai", "key", None, role, NoValues, TRUE),
        Program("ollama", None, Url("http"), Prompt!Template(Texts.twice, Values, {}), NoValues, TRUE),
        Program("anthropic", "key", None, needs, Values, FALSE),
        Program("gemini", "key", None, Prompt!Template(Texts.plain, Values, {}), Values, FALSE),
        Program("ollama", None, None, Prompt!Template(Texts.loose, Values, {}), Values, TRUE),
        Program("gemini", "unparsable", Url("https"), role, NoValues, TRUE),
        Program("openai", "unprintable", None, role, NoValues, TRUE),
        Program("ollama", None, None, needs, NoValues, TRUE),
        Program("openai", None, None, role, NoValues, TRUE),
        Program("anthropic", "key", Url("other"), role, NoValues, TRUE) }

ShortAndLong == {[bytes |-> 8, importance |-> 170], [bytes |-> 60, importance |-> 20]}

\* A call with a tool's output and settings of its own, one of system messages
\* alone, and a program's prompt.
Requests ==
  { [system |-> None, tools |-> <<"lookup">>, temperature |-> 9, maxTokens |-> 100,
     messages |-> <<PromptMessage("user", 1), PromptMessage("system", 2),
                    PromptMessage("tool", 3), PromptMessage("assistant", 4)>>],
    InferenceRequest(<<PromptMessage("system", 1)>>),
    [InferenceRequest(<<PromptMessage("user", 1)>>) EXCEPT !.system = SystemPrompt] }

ResponseKinds ==
  { HttpResponse(TRUE, TRUE, FALSE, <<12>>),
    HttpResponse(TRUE, TRUE, FALSE, <<None, 48>>),
    HttpResponse(TRUE, TRUE, FALSE, <<40, 27>>),
    HttpResponse(TRUE, TRUE, TRUE, <<>>),
    HttpResponse(TRUE, FALSE, FALSE, <<>>),
    HttpResponse(FALSE, TRUE, FALSE, <<>>) }
=============================================================================
