--------------------------- MODULE MCMemoryService ---------------------------
(* Three writers of one record each; sizes 1, 2 and 3 against ceilings of  *)
(* two records and four bytes, so that number and bytes both evict.        *)
EXTENDS MemoryService, TLC

CONSTANTS w1, w2, w3, r1, r2, r3

ThreeWriters == {w1, w2, w3}
ThreeRecords == {r1, r2, r3}
Sizes == r1 :> 1 @@ r2 :> 2 @@ r3 :> 3

\* r1 and r3 share an id; r3 points away from the first query, and r2 is so long
\* that its square is infinite.  Of the queries the third has Inf / Inf with r2,
\* the fourth Inf - Inf, though the two are orthogonal, and the fifth 0 * Inf.
Ids == r1 :> 1 @@ r2 :> 2 @@ r3 :> 1
Embeddings == r1 :> <<1, 1>> @@ r2 :> <<9, 9>> @@ r3 :> <<0, -2>>
Tags == r1 :> {"a"} @@ r2 :> {"a", "b"} @@ r3 :> {}
Asked(embedding, tags, top_k) == [embedding |-> embedding, tags |-> tags, top_k |-> top_k]
AllQueries ==
  { Asked(e, {}, 1) : e \in {<<1, 0>>, <<0, 1>>, <<0, 20>>, <<9, -9>>, <<0, 0>>, <<1>>} }
    \cup { Asked(<<1, 0>>, {}, 2), Asked(<<1, 0>>, {"a"}, 1), Asked(<<9, -9>>, {"a"}, 2) }
=============================================================================
