---------------------------- MODULE Conversation ----------------------------
(***************************************************************************)
(* A program that talks to a model: it renders a system prompt, keeps the  *)
(* conversation in a context window and asks an adapter, as the debugger   *)
(* (examples/agent-debugger) does for every error it is sent; or it asks   *)
(* with messages of its own, as examples/basic-agent does.  One exchange   *)
(* at a time, each of which may fail at every await.                       *)
(***************************************************************************)
EXTENDS ModelAdapter

CONSTANTS
  Setups,      \* what a program may be configured with
  Questions,   \* the users' messages: bytes and importance
  Direct,      \* requests that are posted without a window, by CallExecutor for one
  Responses,   \* what a provider may respond
  MaxSaid      \* bound: messages between two clears

VARIABLES
  setup,       \* provider, key, url, temperature, template, runtime, window
  stage,
  prompt,      \* the rendered system prompt
  window,      \* ContextWindowManager
  posted,      \* the last request that was posted
  said,        \* history: every message added since the last clear
  summed       \* history: the tokens of every summary made since then

vars == <<setup, stage, prompt, window, posted, said, summed>>

Window == INSTANCE ContextWindow
Prompt == INSTANCE PromptTemplate
OpenAi == INSTANCE OpenAiAdapter
Ollama == INSTANCE OllamaAdapter
Anthropic == INSTANCE AnthropicAdapter
Gemini == INSTANCE GeminiAdapter

ASSUME ConversationAssumption ==
  /\ MaxSaid \in Nat
  /\ \A s \in Setups :
       /\ s.provider \in {"openai", "ollama", "anthropic", "gemini"}
       /\ s.temperature \in Nat \cup {None}
       /\ s.window \in Window!WindowConfig /\ s.window.recent > 0
       /\ s.template.text \in Seq(Prompt!Segment)
       /\ Prompt!TextsIn(s.template.variables) /\ Prompt!TextsIn(s.runtime)
  /\ Questions \subseteq [bytes : Nat, importance : Nat]
  /\ \A r \in Direct : r \in Request /\ r.messages # <<>>
  /\ \A r \in Responses : r.pieces \in Seq(Nat \cup {None})

\* None is told from every value there may be in its place.
ASSUME NoneAssumption ==
  /\ None \notin Nat
  /\ None \notin [of : SUBSET Nat, tokens : Nat]
  /\ None \notin Request

-----------------------------------------------------------------------------
(* The adapter that is configured: ModelAdapter is a trait object. *)

Configured(s) ==
  LET Keyed(default) == [default EXCEPT !.key = s.key, !.temperature = s.temperature]
      At(With(_, _), default) == IF s.url = None THEN Keyed(default)
                                 ELSE With(Keyed(default), s.url)
  IN  CASE s.provider = "openai"    -> At(OpenAi!WithBaseUrl, OpenAi!Default)
        [] s.provider = "ollama"    -> At(Ollama!WithBaseUrl, Ollama!Default)
        [] s.provider = "anthropic" -> At(Anthropic!WithBaseUrl, Anthropic!Default)
        [] s.provider = "gemini"    -> At(Gemini!WithBaseUrl, Gemini!Default)

Usable(s) ==
  LET config == Configured(s)
  IN  CASE s.provider = "openai"    -> OpenAi!Usable(config)
        [] s.provider = "ollama"    -> Ollama!Usable(config)
        [] s.provider = "anthropic" -> Anthropic!Usable(config)
        [] s.provider = "gemini"    -> Gemini!Usable(config)

Payload(s, request) ==
  LET config == Configured(s)
  IN  CASE s.provider = "openai"    -> OpenAi!BuildRequest(config, request)
        [] s.provider = "ollama"    -> Ollama!BuildRequest(config, request)
        [] s.provider = "anthropic" -> Anthropic!BuildRequest(config, request)
        [] s.provider = "gemini"    -> Gemini!BuildRequest(config, request)

Reply(s, response) ==
  CASE s.provider = "openai"    -> OpenAi!Reply(response)
    [] s.provider = "ollama"    -> Ollama!Reply(response)
    [] s.provider = "anthropic" -> Anthropic!Reply(response)
    [] s.provider = "gemini"    -> Gemini!Reply(response)

\* Gemini puts the key into the address, OpenAI and Anthropic into a header.
Buildable(s) ==
  LET config == Configured(s)
  IN  /\ s.provider = "gemini"    => Gemini!BuildUri(config)
      /\ s.provider = "openai"    => OpenAi!BuildHeaders(config)
      /\ s.provider = "anthropic" => Anthropic!BuildHeaders(config)

-----------------------------------------------------------------------------
(* The window *)

Init ==
  /\ setup \in Setups
  /\ stage = "setup"
  /\ prompt = None
  /\ window = Window!EmptyWindow(setup.window)
  /\ posted = None
  /\ said = <<>>
  /\ summed = 0

\* The window decides what is kept; said only remembers.
Say(m) ==
  /\ window' = Window!AddMessage(window, m)
  /\ said' = Append(said, m)
  /\ summed' = IF window'.summary = window.summary THEN summed
               ELSE summed + window'.summary.tokens

Number == Len(said) + 1

Rendered(s) == Prompt!RenderWith(s.template, s.runtime)

\* Adapter and template are built, the prompt goes into the window as well.
Start ==
  /\ stage = "setup"
  /\ IF Usable(setup) /\ Rendered(setup) # None
     THEN /\ stage' = "idle"
          /\ prompt' = Rendered(setup)
          /\ Say(Window!Pinned(Window!ContextMessage("system", Number, Prompt!BytesIn(prompt'))))
     ELSE /\ stage' = "failed"
          /\ UNCHANGED <<prompt, window, said, summed>>
  /\ UNCHANGED <<setup, posted>>

Clear ==
  /\ stage = "idle"
  /\ window' = Window!Clear(window)
  /\ said' = <<>>
  /\ summed' = 0
  /\ UNCHANGED <<setup, stage, prompt, posted>>

\* Variant: the system message is sent along.
ConversationWithSystem(messages) ==
  [i \in DOMAIN messages |->
     PromptMessage(IF messages[i].role = "user" THEN "user" ELSE "assistant", messages[i].content)]

\* What the debugger makes of its window: no system message, and every role
\* but the user's is the assistant's.
ConversationOf(messages) ==
  LET kept == NoSystem(messages)
  IN  [i \in DOMAIN kept |->
         PromptMessage(IF kept[i].role = "user" THEN "user" ELSE "assistant", kept[i].content)]

-----------------------------------------------------------------------------
(* An exchange *)

SystemPrompt == 0    \* the number of its text

\* infer fails at once when the HTTP request cannot be built.
Post(direct, request) ==
  IF ~Buildable(setup) THEN UNCHANGED <<stage, posted>>
  ELSE /\ stage' = "sent"
       /\ posted' = [direct |-> direct, request |-> request, payload |-> Payload(setup, request)]

\* An empty list makes unwrap panic.
PostPrompted(messages) ==
  IF InferenceRequest(messages) = None THEN stage' = "panicked" /\ UNCHANGED posted
  ELSE Post(FALSE, [InferenceRequest(messages) EXCEPT !.system = SystemPrompt])

Ask(q) ==
  /\ stage = "idle"
  /\ Len(said) < MaxSaid
  /\ Say(Window!WithImportance(Window!ContextMessage("user", Number, q.bytes), q.importance))
  /\ PostPrompted(ConversationOf(window'.messages))
  /\ UNCHANGED <<setup, prompt>>

AskDirectly(request) ==
  /\ stage = "idle"
  /\ Post(TRUE, request)
  /\ UNCHANGED <<setup, prompt, window, said, summed>>

\* The headers arrive within the timeout, or they do not, or the connection
\* breaks.
Headers ==
  /\ stage = "sent"
  /\ stage' = "body"
  /\ UNCHANGED <<setup, prompt, window, posted, said, summed>>

NoHeaders ==
  /\ stage = "sent"
  /\ stage' = "idle"
  /\ UNCHANGED <<setup, prompt, window, posted, said, summed>>

\* The body is complete.  An answer to the window's conversation is added to it,
\* an error leaves the question there without an answer.
Body(response) ==
  /\ stage = "body"
  /\ stage' = "idle"
  /\ LET answer == Reply(setup, response)
     IN  IF posted.direct \/ answer.error # None
         THEN UNCHANGED <<window, said, summed>>
         ELSE Say(Window!WithImportance(
                    Window!ContextMessage("assistant", Number, answer.text), 70))
  /\ UNCHANGED <<setup, prompt, posted>>

\* The connection breaks; nothing limits the time the body may take.
BodyBreaks ==
  /\ stage = "body"
  /\ stage' = "idle"
  /\ UNCHANGED <<setup, prompt, window, posted, said, summed>>

BodyEnds == BodyBreaks \/ \E response \in Responses : Body(response)

Stopped == stage \in {"failed", "panicked"} /\ UNCHANGED vars

Next ==
  \/ Start \/ Clear \/ Headers \/ NoHeaders \/ BodyEnds \/ Stopped
  \/ \E q \in Questions : Ask(q)
  \/ \E request \in Direct : AskDirectly(request)

Spec == Init /\ [][Next]_vars

-----------------------------------------------------------------------------
TypeOK ==
  /\ setup \in Setups
  /\ stage \in {"setup", "idle", "sent", "body", "failed"}
  /\ prompt = None \/ stage # "setup"
  /\ Window!WindowTypeOK(window)
  /\ said \in Seq(Window!Message)
  /\ summed \in Nat

Contents(messages) == [i \in DOMAIN messages |-> messages[i].content]

\* However often the window is compressed, it holds what was said in the order
\* it was said, the last messages and every pinned one among it.
RecentAndPinnedKept ==
  /\ \A i, j \in DOMAIN window.messages :
       i < j => window.messages[i].content < window.messages[j].content
  /\ \A m \in ToSet(window.messages) : m = said[m.content]
  /\ \A i \in DOMAIN said :
       said[i].pinned \/ i > Len(said) - setup.window.recent
         => said[i] \in ToSet(window.messages)

\* A window over its budget holds nothing it may still drop: all is protected
\* if it summarises, and else nothing unimportant is left and the oldest
\* message is pinned or recent.
BudgetOrProtected ==
  Window!OverBudget(window) =>
    IF window.config.summarize THEN Window!Unprotected(window) = {}
    ELSE /\ \A i \in Window!Unprotected(window) :
              window.messages[i].importance >= window.config.threshold
         /\ Window!Protected(window, 1)

\* The count is exact up to the summaries: it keeps the tokens of every summary
\* that a later one has replaced, and no subtraction ever saturates.
TokensAccounted == window.tokens = Window!TokensOf(window.messages) + summed

InExchange == stage \in {"sent", "body"}

\* A value refers to this variable.
BroughtIn(s) ==
  \E values \in {setup.template.variables, setup.runtime} :
    \E name \in DOMAIN values : s \in ToSet(values[name])

\* While a question is answered, the model has been sent the question last,
\* before it an ordered part of what was said that includes the recent
\* messages, nothing in the name of the wrong side; and no reference is left in
\* the system prompt but one that is spelled with spaces or part of a value.
ModelSeesConversation ==
  /\ stage # "panicked"
  /\ InExchange /\ ~posted.direct =>
       LET sent == posted.request.messages
       IN  /\ Last(sent).content = Len(said)
           /\ \A i, j \in DOMAIN sent : i < j => sent[i].content < sent[j].content
           /\ \A m \in ToSet(sent) : said[m.content].role = m.role
           /\ \A i \in DOMAIN said :
                said[i].role # "system" /\ i > Len(said) - setup.window.recent
                  => i \in ToSet(Contents(sent))
  /\ prompt # None => \A s \in ToSet(prompt) : s.ref /\ s.exact => BroughtIn(s)

\* Whatever the provider's format, the payload has the system prompt once, in its
\* place, and every message once, in order and in the right name, so that the
\* output of a tool can be told from what the user wrote; the request's own
\* settings win over the program's.  Left out are the system messages among those
\* for Anthropic and Gemini, as their comments say (anthropic.rs:172), and the
\* names of the request's tools, which no payload has.
PayloadCarriesRequest ==
  InExchange =>
    LET apart == setup.provider \in {"anthropic", "gemini"}
        request == posted.request
        payload == posted.payload
        front == IF apart \/ request.system = None THEN 0 ELSE 1
        carried == {i \in DOMAIN request.messages : apart => request.messages[i].role # "system"}
        Place(i) == front + Cardinality({j \in carried : j <= i})
    IN  /\ payload.system = IF apart THEN request.system ELSE None
        /\ front = 1 => /\ payload.messages[1].role = "system"
                        /\ payload.messages[1].content = request.system
        /\ Len(payload.messages) = front + Cardinality(carried)
        /\ \A i \in carried :
             LET asked == request.messages[i]
                 wired == payload.messages[Place(i)]
             IN  /\ wired.content = asked.content
                 /\ asked.role = "tool" <=> wired.marked \/ wired.role = "tool"
                 /\ asked.role = "assistant" <=> wired.role \in {"assistant", "model"}
                 /\ asked.role = "system" <=> wired.role = "system"
        /\ payload.temperature = OrElse(request.temperature, setup.temperature)
        /\ request.maxTokens # None => payload.maxTokens = request.maxTokens
=============================================================================
