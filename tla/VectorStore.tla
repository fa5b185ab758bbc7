----------------------------- MODULE VectorStore -----------------------------
(***************************************************************************)
(* agent-memory/src/vector_store_api.rs and embeddings.rs: LocalVectorStore*)
(* maps ids to points and answers a query with the top_k points of the     *)
(* query's dimension and tags, by descending cosine similarity.  upsert(), *)
(* remove() and query() each run under the lock and are one step.          *)
(*                                                                         *)
(* Embeddings are sequences of integers no larger than MaxFloat, which     *)
(* stands for f32::MAX: a product or a partial sum above it is infinite,   *)
(* and what comes of infinities is not a number.  Rounding and underflow   *)
(* are left out; cosines are compared exactly, by their squares.           *)
(***************************************************************************)
EXTENDS Integers, FiniteSets, SequencesExt

CONSTANTS Records,
          Id,          \* the id of each record; an application may reuse one
          Embedding,   \* EmbeddingVector of a record, <<>> if it has none
          PointTags,   \* the tags of each record
          MaxFloat     \* bound

VARIABLE index         \* the points, each named by the record it was made of

VectorInit == index = {}

Upsert(r) == index' = {p \in index : Id[p] # Id[r]} \cup {r}

RemovePoint(id) == index' = {p \in index : Id[p] # id}

-----------------------------------------------------------------------------
(* f32 *)

Inf == MaxFloat + 1
NaN == MaxFloat + 2
Special == {Inf, -Inf, NaN}

Float(n) == CASE n > MaxFloat -> Inf [] n < -MaxFloat -> -Inf [] OTHER -> n

\* Inf - Inf and all that has NaN in it is NaN.
Plus(x, y) ==
  LET special == {x, y} \cap Special
  IN  CASE special = {} -> Float(x + y)
        [] Cardinality(special) = 1 -> CHOOSE s \in special : TRUE
        [] OTHER -> NaN

Dot(u, v) == FoldLeftDomain(LAMBDA sum, i : Plus(sum, Float(u[i] * v[i])), 0, u)

-----------------------------------------------------------------------------
\* dot / (|u| * |v|), as sign and square.  0 * Inf, Inf / Inf and NaN / Inf are
\* not a number; a finite product over Inf is 0, and so is what a zero vector has
\* with a finite one.  Finite norms have a finite product.
Cosine(u, v) ==
  LET dot   == Dot(u, v)
      norms == {Dot(u, u), Dot(v, v)}
      plain == dot \notin Special /\ norms \cap {0, Inf} = {}
  IN  [nan    |-> norms = {0, Inf} \/ (Inf \in norms /\ dot \in Special),
       square |-> IF plain THEN (IF dot < 0 THEN -1 ELSE 1) * dot * dot ELSE 0,
       below  |-> IF plain THEN Dot(u, u) * Dot(v, v) ELSE 1]

Exceeds(a, b) == a.square * b.below > b.square * a.below

\* A query is an embedding, the tags a point must all have, and top_k.
Score(q, p) == Cosine(Embedding[p], q.embedding)

Candidates(q) ==
  {p \in index : /\ q.tags \subseteq PointTags[p]
                 /\ Len(Embedding[p]) = Len(q.embedding)}

\* The comparison calls a pair Equal when one score is not a number; it is then
\* no order and the sort may leave the matches anywhere.
Sorted(q, s) ==
  \/ \E p \in Candidates(q) : Score(q, p).nan
  \/ \A i, j \in 1..Len(s) : i < j => ~Exceeds(Score(q, s[j]), Score(q, s[i]))

Truncate(s, k) == SubSeq(s, 1, IF k < Len(s) THEN k ELSE Len(s))

\* Variant: truncated before it is sorted.
QueryUnsorted(q) == {Truncate(s, q.top_k) : s \in SetToSeqs(Candidates(q))}

\* The answers query() may give: the map is iterated in any order.
Query(q) ==
  {Truncate(s, q.top_k) : s \in {t \in SetToSeqs(Candidates(q)) : Sorted(q, t)}}
=============================================================================
