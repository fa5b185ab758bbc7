--------------------------- MODULE ContextWindow ---------------------------
(***************************************************************************)
(* agent-prompts/src/context.rs: ContextWindowManager keeps a conversation *)
(* within a token budget.  A window is a value; the operators are its      *)
(* methods.  Text is its length in bytes.                                  *)
(***************************************************************************)
EXTENDS Integers, Sequences, SequencesExt

CONSTANT None      \* an Option without a value

Larger(a, b) == IF a > b THEN a ELSE b
Smaller(a, b) == IF a < b THEN a ELSE b

\* estimate_tokens: four bytes a token, and never none.
Estimate(bytes) == Larger(bytes \div 4, 1)

ContextMessage(role, content, bytes) ==
  [role |-> role, content |-> content, tokens |-> Estimate(bytes),
   importance |-> 50, pinned |-> FALSE]
\* Variant: the importance is not capped.
WithImportanceUncapped(m, importance) == [m EXCEPT !.importance = importance]

WithImportance(m, importance) == [m EXCEPT !.importance = Smaller(importance, 100)]
Pinned(m) == [m EXCEPT !.pinned = TRUE]

Message == [role : {"system", "user", "assistant", "tool"}, content : Nat,
            tokens : Nat, importance : 0..100, pinned : BOOLEAN]
WindowConfig == [max : Nat, recent : Nat, threshold : Nat, summarize : BOOLEAN]

EmptyWindow(config) ==
  [config |-> config, messages |-> <<>>, summary |-> None, tokens |-> 0]

WindowTypeOK(w) ==
  /\ w.config \in WindowConfig
  /\ w.messages \in Seq(Message)
  /\ w.summary \in [of : SUBSET Nat, tokens : Nat] \cup {None}
  /\ w.tokens \in Nat

TokensOf(messages) == FoldLeft(LAMBDA sum, m : sum + m.tokens, 0, messages)

OverBudget(w) == w.tokens > w.config.max

\* Variant: the recent window is one message short.
ProtectedButOne(w, i) ==
  i > Len(w.messages) - w.config.recent + 1 \/ w.messages[i].pinned

\* The recent window and what is pinned are never compressed.
Protected(w, i) ==
  i > Len(w.messages) - w.config.recent \/ w.messages[i].pinned

Unprotected(w) == {i \in 1..Len(w.messages) : ~Protected(w, i)}

\* The elements at some positions, in their order.
Select(s, indices) ==
  FoldLeftDomain(LAMBDA kept, i : IF i \in indices THEN Append(kept, s[i]) ELSE kept, <<>>, s)

\* saturating_sub
Minus(a, b) == Larger(a - b, 0)

Without(w, gone) ==
  [w EXCEPT !.messages = Select(@, (1..Len(@)) \ gone),
            !.tokens = Minus(@, TokensOf(Select(w.messages, gone)))]

DropUnimportant(w) ==
  Without(w, {i \in Unprotected(w) : w.messages[i].importance < w.config.threshold})

\* create_simple_summary counts the messages by role: 80 bytes with one digit
\* a count, 14 more if it mentions tool calls.
Summary(messages) ==
  [of |-> {messages[i].content : i \in DOMAIN messages},
   tokens |-> Estimate(IF \E i \in DOMAIN messages : messages[i].role = "tool" THEN 94 ELSE 80)]

\* Variant: the tokens of the summary are not added.
SummarizeUncounted(w) ==
  LET old == Select(w.messages, Unprotected(w))
  IN  IF old = <<>> THEN w
      ELSE [Without(w, Unprotected(w)) EXCEPT !.summary = Summary(old)]

\* The new summary takes the place of the last one, whose tokens stay counted.
SummarizeOlder(w) ==
  LET old == Select(w.messages, Unprotected(w))
  IN  IF old = <<>> THEN w
      ELSE [Without(w, Unprotected(w)) EXCEPT !.summary = Summary(old),
                                              !.tokens = @ + Summary(old).tokens]

\* Variant: the third strategy is left out.
EvictNone(w, floor) == w

\* pop_front until the budget is met, the recent window is reached or a pinned
\* message comes first.
EvictOldest(w, floor) ==
  LET Stop(n) == \/ ~OverBudget(Without(w, 1..n))
                 \/ Len(w.messages) - n <= floor
                 \/ w.messages[n + 1].pinned
  IN  Without(w, 1..Min({n \in 0..Len(w.messages) : Stop(n)}))

Compress(w) ==
  LET floor == Smaller(w.config.recent, Len(w.messages))
      important == DropUnimportant(w)
      shorter == IF OverBudget(important) /\ w.config.summarize
                 THEN SummarizeOlder(important) ELSE important
  IN  EvictOldest(shorter, floor)

AddMessage(w, m) ==
  LET longer == [w EXCEPT !.messages = Append(@, m), !.tokens = @ + m.tokens]
  IN  IF OverBudget(longer) THEN Compress(longer) ELSE longer

Clear(w) == EmptyWindow(w.config)
=============================================================================
