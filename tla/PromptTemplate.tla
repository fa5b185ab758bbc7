--------------------------- MODULE PromptTemplate ---------------------------
(***************************************************************************)
(* agent-prompts/src/template.rs: text with {{name}} references that are   *)
(* replaced by the values of variables.  A text is a sequence of segments, *)
(* plain ones and references.                                              *)
(***************************************************************************)
EXTENDS Naturals, Sequences, SequencesExt

CONSTANT None

\* A plain segment of some bytes; a reference, which is exact if nothing but
\* the name stands between its braces.
Plain(bytes) == [ref |-> FALSE, name |-> "", exact |-> TRUE, bytes |-> bytes]
Ref(name) == [ref |-> TRUE, name |-> name, exact |-> TRUE, bytes |-> 4]
SpacedRef(name) == [Ref(name) EXCEPT !.exact = FALSE]

Segment ==
  [ref : {FALSE}, name : {""}, exact : {TRUE}, bytes : Nat]
    \cup [ref : {TRUE}, name : STRING, exact : BOOLEAN, bytes : {4}]
TextsIn(values) == \A name \in DOMAIN values : values[name] \in Seq(Segment)

BytesIn(text) == FoldLeft(LAMBDA sum, s : sum + s.bytes, 0, text)

\* builder, with_variable, with_required_variable, build
Template(text, variables, required) ==
  [text |-> text, variables |-> variables, required |-> required]

\* extract_variable_refs: the trimmed names, in order, with repetitions.
References(text) == FoldLeft(LAMBDA refs, s : IF s.ref THEN Append(refs, s) ELSE refs, <<>>, text)

ValueOf(template, runtime, name) ==
  IF name \in DOMAIN runtime THEN runtime[name]
  ELSE IF name \in DOMAIN template.variables THEN template.variables[name]
  ELSE <<>>

\* str::replace of the placeholder, which is built from the trimmed name.
Replace(text, name, value) ==
  FlattenSeq([i \in DOMAIN text |-> IF text[i] = Ref(name) THEN value ELSE <<text[i]>>])

Missing(template, runtime) ==
  (template.required \cap {s.name : s \in ToSet(References(template.text))})
    \ (DOMAIN runtime \cup DOMAIN template.variables)

\* One replacement after the other, each in the whole result so far: what a
\* value refers to is replaced if its turn is still to come.  None is an error.
RenderWith(template, runtime) ==
  IF Missing(template, runtime) # {} THEN None
  ELSE FoldLeft(LAMBDA text, s : Replace(text, s.name, ValueOf(template, runtime, s.name)),
                template.text, References(template.text))
=============================================================================
