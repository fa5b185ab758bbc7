------------------------ MODULE Conversation_proofs ------------------------
(***************************************************************************)
(* Proofs about Conversation for any programs, questions and responses.    *)
(***************************************************************************)
EXTENDS Conversation, FiniteSetTheorems, SequenceTheorems, WellFoundedInduction, TLAPS

(* Induction over the numbers, as a property of sets. *)
LEMMA LeastNat ==
  ASSUME NEW T, T \subseteq Nat, T # {}
  PROVE  \E x \in T : \A y \in T : ~ (y < x)
<1>1. \E x \in T : \A y \in T : ~ (<<y, x>> \in OpToRel(<, Nat))
  BY NatLessThanWellFounded, WFMin
<1>2. QED
  BY <1>1 DEF OpToRel

LEMMA NatSet ==
  ASSUME NEW S, 0 \in S, \A n \in Nat : n \in S => n + 1 \in S
  PROVE  Nat \subseteq S
<1> SUFFICES ASSUME Nat \ S # {} PROVE FALSE
  OBVIOUS
<1>1. PICK n \in Nat \ S : \A m \in Nat \ S : ~ (m < n)
  BY LeastNat
<1>2. n - 1 \in Nat /\ n - 1 \in S
  BY <1>1
<1>3. QED
  BY <1>1, <1>2

-----------------------------------------------------------------------------
(* Folds over a sequence, whose steps are the pairs of what was folded so   *)
(* far and a position.                                                      *)
Fold(g, V, n, base, step) ==
  /\ g \in [SUBSET (1..n) -> V]
  /\ \A t \in SUBSET (1..n) :
       g[t] = IF t = {} THEN base ELSE step[<<g[t \ {Max(t)}], Max(t)>>]

LEMMA MaxUpTo ==
  ASSUME NEW n \in Nat, NEW t \in SUBSET (1..n), t # {}
  PROVE  Max(t) \in t /\ \A x \in t : x <= Max(t)
<1> DEFINE U == {m \in Nat : \A x \in t : x <= m}
<1>1. n \in U /\ U \subseteq Nat
  OBVIOUS
<1>2. PICK m \in U : \A k \in U : ~ (k < m)
  BY <1>1, LeastNat
<1>3. m \in t
  <2> SUFFICES ASSUME m \notin t PROVE FALSE
    OBVIOUS
  <2>1. \A x \in t : x \in Nat /\ x # 0 /\ x <= m /\ x # m
    BY <1>2
  <2>2. m - 1 \in Nat /\ \A x \in t : x <= m - 1
    <3>1. PICK x \in t : x \in 1..n
      OBVIOUS
    <3>2. m \in Nat /\ 1 <= x /\ x <= m
      BY <2>1, <3>1
    <3>3. \A y \in t : y <= m - 1
      BY <2>1, <3>2
    <3>4. QED
      BY <3>1, <3>2, <3>3
  <2>3. m - 1 \in U /\ m - 1 < m
    BY <2>2
  <2>4. QED
    BY <1>2, <2>3
<1>4. \E x \in t : \A y \in t : x >= y
  BY <1>2, <1>3
<1>5. QED
  BY <1>4 DEF Max

LEMMA MaxOfInterval ==
  ASSUME NEW k \in Nat
  PROVE  /\ Max(1..(k + 1)) = k + 1
         /\ (1..(k + 1)) \ {k + 1} = 1..k
<1>1. /\ 1..(k + 1) \in SUBSET (1..(k + 1)) /\ k + 1 \in Nat /\ k + 1 \in 1..(k + 1)
      /\ 1..(k + 1) # {}
  OBVIOUS
<1>2. Max(1..(k + 1)) \in 1..(k + 1) /\ k + 1 <= Max(1..(k + 1))
  BY <1>1, MaxUpTo
<1>3. Max(1..(k + 1)) = k + 1
  BY <1>2
<1>4. QED
  BY <1>3

LEMMA FoldExists ==
  ASSUME NEW V, NEW base \in V, NEW n \in Nat, NEW step \in [V \X (1..n) -> V]
  PROVE  \E g : Fold(g, V, n, base, step)
<1> DEFINE S == {m \in Nat : m <= n => \E g : Fold(g, V, m, base, step)}
<1>1. 0 \in S
  <2> DEFINE f == [t \in SUBSET (1..0) |-> base]
  <2>1. \A t \in SUBSET (1..0) : t = {}
    OBVIOUS
  <2>2. Fold(f, V, 0, base, step)
    BY <2>1 DEF Fold
  <2>3. QED
    BY <2>2
<1>2. ASSUME NEW m \in Nat, m \in S PROVE m + 1 \in S
  <2> SUFFICES ASSUME m + 1 <= n PROVE \E g : Fold(g, V, m + 1, base, step)
    OBVIOUS
  <2>1. PICK f : Fold(f, V, m, base, step)
    BY <1>2
  <2> DEFINE g == [t \in SUBSET (1..(m + 1)) |->
                     IF m + 1 \in t THEN step[<<f[t \ {m + 1}], m + 1>>] ELSE f[t]]
  <2>2. ASSUME NEW t \in SUBSET (1..(m + 1)) PROVE g[t] \in V
    <3>1. CASE m + 1 \in t
      <4>1. t \ {m + 1} \in SUBSET (1..m) /\ m + 1 \in 1..n
        OBVIOUS
      <4>2. f[t \ {m + 1}] \in V
        BY <2>1, <4>1 DEF Fold
      <4>3. QED
        BY <3>1, <4>1, <4>2
    <3>2. CASE m + 1 \notin t
      <4>1. t \in SUBSET (1..m)
        BY <3>2
      <4>2. QED
        BY <2>1, <3>2, <4>1 DEF Fold
    <3>3. QED
      BY <3>1, <3>2
  <2>3. ASSUME NEW t \in SUBSET (1..(m + 1))
        PROVE  g[t] = IF t = {} THEN base ELSE step[<<g[t \ {Max(t)}], Max(t)>>]
    <3>1. CASE t = {}
      BY <2>1, <3>1 DEF Fold
    <3>2. CASE m + 1 \in t
      <4>1. Max(t) = m + 1
        <5>1. m + 1 \in Nat /\ t # {}
          BY <3>2
        <5>2. Max(t) \in t /\ m + 1 <= Max(t)
          BY <3>2, <5>1, MaxUpTo
        <5>3. Max(t) \in 1..(m + 1)
          BY <5>2
        <5>4. QED
          BY <5>2, <5>3
      <4>2. t \ {m + 1} \in SUBSET (1..(m + 1)) /\ m + 1 \notin t \ {m + 1}
        OBVIOUS
      <4>3. g[t \ {m + 1}] = f[t \ {m + 1}]
        BY <4>2
      <4>4. g[t] = step[<<f[t \ {m + 1}], m + 1>>]
        BY <3>2
      <4>5. QED
        BY <3>2, <4>1, <4>3, <4>4
    <3>3. CASE t # {} /\ m + 1 \notin t
      <4>1. t \in SUBSET (1..m)
        BY <3>3
      <4>2. t \ {Max(t)} \in SUBSET (1..m)
        BY <4>1
      <4>3. g[t] = f[t] /\ g[t \ {Max(t)}] = f[t \ {Max(t)}]
        BY <3>3, <4>2
      <4>4. QED
        BY <2>1, <3>3, <4>1, <4>3 DEF Fold
    <3>4. QED
      BY <3>1, <3>2, <3>3
  <2> HIDE DEF g
  <2>4. g \in [SUBSET (1..(m + 1)) -> V]
    BY <2>2 DEF g
  <2>5. Fold(g, V, m + 1, base, step)
    BY <2>3, <2>4 DEF Fold
  <2>6. QED
    BY <2>5
<1>3. Nat \subseteq S
  <2> HIDE DEF S
  <2>1. QED
    BY <1>1, <1>2, NatSet
<1>4. QED
  BY <1>3

\* What is so of the start and kept by every step is so all along.
LEMMA Along ==
  ASSUME NEW n \in Nat, NEW S,
         0 \in S, \A k \in Nat : k < n /\ k \in S => k + 1 \in S
  PROVE  \A k \in 0..n : k \in S
<1> DEFINE T == {k \in Nat : k <= n => k \in S}
<1>1. 0 \in T
  OBVIOUS
<1>2. \A k \in Nat : k \in T => k + 1 \in T
  OBVIOUS
<1>3. Nat \subseteq T
  <2> HIDE DEF T
  <2>1. QED
    BY <1>1, <1>2, NatSet
<1>4. QED
  BY <1>3

-----------------------------------------------------------------------------
(* The tokens of a sequence of messages, from its partial sums. *)
Message == Window!Message

Sums(p, m) ==
  /\ p \in [0..Len(m) -> Nat]
  /\ p[0] = 0
  /\ \A k \in Nat : k < Len(m) => p[k + 1] = p[k] + m[k + 1].tokens

LEMMA SameMax == \A t : Window!Max(t) = Max(t)
BY DEF Window!Max, Max

\* What a fold that adds up sizes comes to.
Adds(g, n, size) ==
  g = [t \in SUBSET (1..n) |-> IF t = {} THEN 0 ELSE g[t \ {Max(t)}] + size[Max(t)]]

Adding(p, n, size) ==
  /\ p \in [0..n -> Nat]
  /\ p[0] = 0
  /\ \A k \in Nat : k < n => p[k + 1] = p[k] + size[k + 1]

LEMMA AddsUp ==
  ASSUME NEW n \in Nat, NEW size \in [1..n -> Nat]
  PROVE  /\ \E g : Adds(g, n, size)
         /\ \A iter : Adds(iter, n, size) => \E p : Adding(p, n, size) /\ iter[1..n] = p[n]
<1> DEFINE step == [x \in Nat \X (1..n) |-> x[1] + size[x[2]]]
<1>1. \E g : Adds(g, n, size)
  <2>1. step \in [Nat \X (1..n) -> Nat]
    <3>1. \A x \in Nat \X (1..n) : x[1] \in Nat /\ size[x[2]] \in Nat
      OBVIOUS
    <3>2. QED
      BY <3>1
  <2> HIDE DEF step
  <2>2. PICK g : Fold(g, Nat, n, 0, step)
    BY <2>1, FoldExists
  <2>3. ASSUME NEW t \in SUBSET (1..n)
        PROVE  g[t] = IF t = {} THEN 0 ELSE g[t \ {Max(t)}] + size[Max(t)]
    <3>1. CASE t = {}
      BY <2>2, <3>1 DEF Fold
    <3>2. CASE t # {}
      <4>1. Max(t) \in 1..n /\ t \ {Max(t)} \in SUBSET (1..n)
        BY <3>2, MaxUpTo
      <4>2. g[t \ {Max(t)}] \in Nat
        BY <2>2, <4>1 DEF Fold
      <4>3. g[t] = step[<<g[t \ {Max(t)}], Max(t)>>]
        BY <2>2, <3>2 DEF Fold
      <4>4. QED
        BY <3>2, <4>1, <4>2, <4>3 DEF step
    <3>3. QED
      BY <3>1, <3>2
  <2>4. g = [t \in SUBSET (1..n) |-> g[t]]
    BY <2>2 DEF Fold
  <2>5. Adds(g, n, size)
    BY <2>3, <2>4 DEF Adds
  <2>6. QED
    BY <2>5
<1>2. ASSUME NEW iter, Adds(iter, n, size)
      PROVE  \E p : Adding(p, n, size) /\ iter[1..n] = p[n]
  <2> DEFINE p == [k \in 0..n |-> iter[1..k]]
  <2>1. iter[1..0] = 0
    <3>1. 1..0 = {} /\ 1..0 \in SUBSET (1..n)
      OBVIOUS
    <3>2. QED
      BY <1>2, <3>1 DEF Adds
  <2>2. ASSUME NEW k \in Nat, k < n
        PROVE  iter[1..(k + 1)] = iter[1..k] + size[k + 1]
    <3>1. 1..(k + 1) \in SUBSET (1..n) /\ 1..(k + 1) # {}
      BY <2>2
    <3>2. Max(1..(k + 1)) = k + 1 /\ (1..(k + 1)) \ {k + 1} = 1..k
      BY MaxOfInterval
    <3>3. iter[1..(k + 1)] = iter[(1..(k + 1)) \ {Max(1..(k + 1))}] + size[Max(1..(k + 1))]
      BY <1>2, <3>1 DEF Adds
    <3>4. QED
      BY <3>2, <3>3
  <2>3. \A k \in 0..n : iter[1..k] \in Nat
    <3> DEFINE S == {k \in Nat : iter[1..k] \in Nat}
    <3>1. 0 \in S
      BY <2>1
    <3>2. \A k \in Nat : k < n /\ k \in S => k + 1 \in S
      BY <2>2
    <3> HIDE DEF S
    <3>3. \A k \in 0..n : k \in S
      BY <3>1, <3>2, Along
    <3>4. QED
      BY <3>3 DEF S
  <2>4. p \in [0..n -> Nat]
    BY <2>3
  <2>5. p[0] = 0 /\ (\A k \in Nat : k < n => p[k + 1] = p[k] + size[k + 1]) /\ iter[1..n] = p[n]
    BY <2>1, <2>2
  <2> HIDE DEF p
  <2>6. QED
    BY <2>4, <2>5 DEF Adding
<1>3. QED
  BY <1>1, <1>2

\* TokensOf adds the tokens up from the first message to the last.
LEMMA PartialSums ==
  ASSUME NEW m \in Seq(Message)
  PROVE  \E p : Sums(p, m) /\ Window!TokensOf(m) = p[Len(m)]
<1> DEFINE n == Len(m)
           size == [i \in 1..n |-> m[i].tokens]
           Raw(g) == g = [t \in SUBSET DOMAIN m |->
                            IF t = {} THEN 0
                            ELSE g[t \ {Window!Max(t)}] + m[Window!Max(t)].tokens]
           iter == CHOOSE g : Raw(g)
<1>1. n \in Nat /\ DOMAIN m = 1..n /\ \A i \in 1..n : m[i].tokens \in Nat
  <2>1. \A x \in Message : x.tokens \in Nat
    BY DEF Message, Window!Message
  <2>2. n \in Nat /\ DOMAIN m = 1..n /\ \A i \in 1..n : m[i] \in Message
    OBVIOUS
  <2>3. QED
    BY <2>1, <2>2
<1>2. \A g : Raw(g) <=> Adds(g, n, size)
  <2>1. \A t \in SUBSET (1..n) : t # {} => size[Max(t)] = m[Max(t)].tokens
    BY <1>1, MaxUpTo
  <2> HIDE DEF size, n
  <2>2. QED
    BY <1>1, <2>1, SameMax DEF Adds
<1>3. Window!TokensOf(m) = iter[DOMAIN m]
  BY DEF Window!TokensOf, Window!FoldLeft, Window!MapThenFoldSet
<1>4. size \in [1..n -> Nat]
  BY <1>1
<1> HIDE DEF n, size, Raw
<1>5. Adds(iter, n, size)
  BY <1>1, <1>2, <1>4, AddsUp
<1> HIDE DEF iter
<1>6. PICK p : Adding(p, n, size) /\ iter[1..n] = p[n]
  BY <1>1, <1>4, <1>5, AddsUp
<1>7. Sums(p, m)
  <2>1. \A k \in Nat : k < n => size[k + 1] = m[k + 1].tokens
    BY <1>1 DEF size
  <2>2. p \in [0..n -> Nat] /\ p[0] = 0 /\ \A k \in Nat : k < n => p[k + 1] = p[k] + m[k + 1].tokens
    BY <1>6, <2>1 DEF Adding
  <2>3. QED
    BY <2>2 DEF Sums, n
<1>8. Window!TokensOf(m) = p[Len(m)]
  BY <1>1, <1>3, <1>6 DEF n
<1>9. QED
  BY <1>7, <1>8

LEMMA SumsAgree ==
  ASSUME NEW m \in Seq(Message), NEW p, Sums(p, m)
  PROVE  Window!TokensOf(m) = p[Len(m)] /\ Window!TokensOf(m) \in Nat
<1>1. PICK q : Sums(q, m) /\ Window!TokensOf(m) = q[Len(m)]
  BY PartialSums
<1> DEFINE S == {k \in Nat : p[k] = q[k]}
<1>2. Len(m) \in Nat
  OBVIOUS
<1>3. 0 \in S /\ \A k \in Nat : k < Len(m) /\ k \in S => k + 1 \in S
  BY <1>1 DEF Sums
<1>4. \A k \in 0..Len(m) : k \in S
  <2> HIDE DEF S
  <2>1. QED
    BY <1>2, <1>3, Along
<1>5. p[Len(m)] = q[Len(m)] /\ p[Len(m)] \in Nat
  BY <1>2, <1>4 DEF Sums
<1>6. QED
  BY <1>1, <1>5

LEMMA NoTokens == Window!TokensOf(<<>>) = 0
<1> DEFINE p == [k \in 0..0 |-> 0]
<1>1. <<>> \in Seq(Message) /\ Len(<<>>) = 0
  OBVIOUS
<1>2. Sums(p, <<>>)
  BY DEF Sums
<1>3. QED
  BY <1>1, <1>2, SumsAgree

\* One message more.
LEMMA TokensAppend ==
  ASSUME NEW m \in Seq(Message), NEW x \in Message
  PROVE  /\ Window!TokensOf(m) \in Nat
         /\ Window!TokensOf(Append(m, x)) = Window!TokensOf(m) + x.tokens
<1>1. PICK p : Sums(p, m) /\ Window!TokensOf(m) = p[Len(m)]
  BY PartialSums
<1> DEFINE n == Len(m)
           q == [k \in 0..(n + 1) |-> IF k <= n THEN p[k] ELSE p[n] + x.tokens]
<1>2. n \in Nat /\ Append(m, x) \in Seq(Message) /\ Len(Append(m, x)) = n + 1
  OBVIOUS
<1>3. /\ \A i \in 1..n : Append(m, x)[i] = m[i]
      /\ Append(m, x)[n + 1] = x
  OBVIOUS
<1>4. x.tokens \in Nat /\ \A k \in 0..n : p[k] \in Nat
  BY <1>1 DEF Message, Window!Message, Sums
<1>5. Sums(q, Append(m, x))
  <2>1. q \in [0..(n + 1) -> Nat]
    BY <1>2, <1>4
  <2>2. q[0] = 0
    BY <1>1, <1>2 DEF Sums
  <2>3. ASSUME NEW k \in Nat, k < n + 1
        PROVE  q[k + 1] = q[k] + Append(m, x)[k + 1].tokens
    <3>1. CASE k < n
      BY <1>1, <1>2, <1>3, <3>1 DEF Sums
    <3>2. CASE k = n
      BY <1>2, <1>3, <3>2
    <3>3. QED
      BY <1>2, <2>3, <3>1, <3>2
  <2> HIDE DEF q, n
  <2>4. QED
    BY <1>2, <2>1, <2>2, <2>3 DEF Sums
<1>6. q[n + 1] = p[n] + x.tokens
  BY <1>2
<1> HIDE DEF q, n
<1>7. Window!TokensOf(Append(m, x)) = q[n + 1]
  BY <1>2, <1>5, SumsAgree
<1>8. QED
  BY <1>1, <1>2, <1>4, <1>6, <1>7 DEF n

-----------------------------------------------------------------------------
(* The elements of a sequence at some positions.  Taken(h, s, I) builds them *)
(* one position after the other; Places(q, k, s, I, r) says that r has the   *)
(* elements of s at those of its first k positions that are in I, in order:  *)
(* its j-th element from position q[j].                                      *)
Taken(h, T, s, I) ==
  /\ h \in [0..Len(s) -> Seq(T)]
  /\ h[0] = <<>>
  /\ \A k \in Nat : k < Len(s) =>
       h[k + 1] = IF k + 1 \in I THEN Append(h[k], s[k + 1]) ELSE h[k]

Places(q, k, s, I, r) ==
  /\ q \in [1..Len(r) -> I \cap (1..k)]
  /\ \A i, j \in 1..Len(r) : i < j => q[i] < q[j]
  /\ \A i \in I \cap (1..k) : \E j \in 1..Len(r) : q[j] = i
  /\ \A j \in 1..Len(r) : r[j] = s[q[j]]

\* What a fold over positions that appends those in I builds.
Takes(g, s, I) ==
  g = [t \in SUBSET (1..Len(s)) |->
         IF t = {} THEN <<>>
         ELSE IF Max(t) \in I THEN Append(g[t \ {Max(t)}], s[Max(t)])
              ELSE g[t \ {Max(t)}]]

LEMMA FoldTakes ==
  ASSUME NEW T, NEW s \in Seq(T), NEW I
  PROVE  /\ \E g : Takes(g, s, I)
         /\ \A iter : Takes(iter, s, I) =>
              \E h : Taken(h, T, s, I) /\ iter[1..Len(s)] = h[Len(s)]
<1> DEFINE n == Len(s)
           step == [x \in Seq(T) \X (1..n) |->
                      IF x[2] \in I THEN Append(x[1], s[x[2]]) ELSE x[1]]
<1>1. n \in Nat /\ (\A i \in 1..n : s[i] \in T) /\ <<>> \in Seq(T)
  OBVIOUS
<1>2. \E g : Takes(g, s, I)
  <2>1. step \in [Seq(T) \X (1..n) -> Seq(T)]
    <3>1. \A x \in Seq(T) \X (1..n) : x[1] \in Seq(T) /\ x[2] \in 1..n
      OBVIOUS
    <3>2. \A y \in Seq(T), i \in 1..n : Append(y, s[i]) \in Seq(T)
      BY <1>1
    <3> HIDE DEF n
    <3>3. QED
      BY <3>1, <3>2
  <2> HIDE DEF n, step
  <2>2. PICK g : Fold(g, Seq(T), n, <<>>, step)
    BY <1>1, <2>1, FoldExists
  <2>3. ASSUME NEW t \in SUBSET (1..n)
        PROVE  g[t] = IF t = {} THEN <<>>
                      ELSE IF Max(t) \in I THEN Append(g[t \ {Max(t)}], s[Max(t)])
                           ELSE g[t \ {Max(t)}]
    <3>1. CASE t = {}
      BY <2>2, <3>1 DEF Fold
    <3>2. CASE t # {}
      <4>1. Max(t) \in 1..n /\ t \ {Max(t)} \in SUBSET (1..n)
        BY <1>1, <3>2, MaxUpTo
      <4>2. g[t \ {Max(t)}] \in Seq(T)
        BY <2>2, <4>1 DEF Fold
      <4>3. g[t] = step[<<g[t \ {Max(t)}], Max(t)>>]
        BY <2>2, <3>2 DEF Fold
      <4>4. step[<<g[t \ {Max(t)}], Max(t)>>] =
              IF Max(t) \in I THEN Append(g[t \ {Max(t)}], s[Max(t)]) ELSE g[t \ {Max(t)}]
        BY <4>1, <4>2 DEF step
      <4>5. QED
        BY <3>2, <4>3, <4>4
    <3>3. QED
      BY <3>1, <3>2
  <2>4. g = [t \in SUBSET (1..n) |-> g[t]]
    BY <2>2 DEF Fold
  <2>5. Takes(g, s, I)
    BY <2>3, <2>4 DEF Takes, n
  <2>6. QED
    BY <2>5
<1> SUFFICES ASSUME NEW iter, Takes(iter, s, I)
             PROVE  \E h : Taken(h, T, s, I) /\ iter[1..Len(s)] = h[Len(s)]
  BY <1>2
<1> DEFINE h == [k \in 0..n |-> iter[1..k]]
<1>3. iter = [t \in SUBSET (1..n) |->
                IF t = {} THEN <<>>
                ELSE IF Max(t) \in I THEN Append(iter[t \ {Max(t)}], s[Max(t)])
                     ELSE iter[t \ {Max(t)}]]
  BY DEF Takes
<1> HIDE DEF n
<1>4. iter[1..0] = <<>>
  <2>1. 1..0 = {} /\ 1..0 \in SUBSET (1..n)
    OBVIOUS
  <2>2. QED
    BY <1>3, <2>1
<1>5. ASSUME NEW k \in Nat, k < n
      PROVE  iter[1..(k + 1)] = IF k + 1 \in I THEN Append(iter[1..k], s[k + 1]) ELSE iter[1..k]
  <2>1. 1..(k + 1) \in SUBSET (1..n) /\ 1..(k + 1) # {}
    BY <1>1, <1>5
  <2>2. Max(1..(k + 1)) = k + 1 /\ (1..(k + 1)) \ {k + 1} = 1..k
    BY MaxOfInterval
  <2>3. iter[1..(k + 1)] =
          IF Max(1..(k + 1)) \in I
          THEN Append(iter[(1..(k + 1)) \ {Max(1..(k + 1))}], s[Max(1..(k + 1))])
          ELSE iter[(1..(k + 1)) \ {Max(1..(k + 1))}]
    BY <1>3, <2>1
  <2>4. QED
    BY <2>2, <2>3
<1>6. \A k \in 0..n : iter[1..k] \in Seq(T)
  <2> DEFINE S == {k \in Nat : iter[1..k] \in Seq(T)}
  <2>1. 0 \in S
    BY <1>1, <1>4
  <2>2. ASSUME NEW k \in Nat, k < n, k \in S PROVE k + 1 \in S
    <3>1. k + 1 \in 1..n
      BY <1>1, <2>2
    <3>2. Append(iter[1..k], s[k + 1]) \in Seq(T)
      BY <1>1, <2>2, <3>1
    <3>3. iter[1..(k + 1)] \in Seq(T)
      BY <1>5, <2>2, <3>2
    <3>4. QED
      BY <3>3
  <2> HIDE DEF S
  <2>3. \A k \in 0..n : k \in S
    BY <1>1, <2>1, <2>2, Along
  <2>4. QED
    BY <2>3 DEF S
<1>7. Taken(h, T, s, I)
  <2>1. h \in [0..n -> Seq(T)]
    BY <1>6
  <2>2. h[0] = <<>>
    BY <1>1, <1>4
  <2>3. \A k \in Nat : k < n => h[k + 1] = IF k + 1 \in I THEN Append(h[k], s[k + 1]) ELSE h[k]
    BY <1>1, <1>5
  <2> HIDE DEF h
  <2>4. QED
    BY <2>1, <2>2, <2>3 DEF Taken, n
<1>8. h[n] = iter[1..n]
  BY <1>1
<1> HIDE DEF h
<1>9. QED
  BY <1>7, <1>8 DEF n

LEMMA SelectTakes ==
  ASSUME NEW T, NEW s \in Seq(T), NEW I
  PROVE  \E h : Taken(h, T, s, I) /\ Window!Select(s, I) = h[Len(s)]
<1> DEFINE d == [i \in DOMAIN s |-> i]
           Raw(g) == g = [t \in SUBSET DOMAIN d |->
                            IF t = {} THEN <<>>
                            ELSE IF d[Window!Max(t)] \in I
                                 THEN Append(g[t \ {Window!Max(t)}], s[d[Window!Max(t)]])
                                 ELSE g[t \ {Window!Max(t)}]]
           iter == CHOOSE g : Raw(g)
<1>1. DOMAIN s = 1..Len(s) /\ Len(s) \in Nat /\ DOMAIN d = 1..Len(s)
  OBVIOUS
<1>2. \A g : Raw(g) <=> Takes(g, s, I)
  <2>1. \A t \in SUBSET (1..Len(s)) : t # {} => d[Max(t)] = Max(t)
    BY <1>1, MaxUpTo
  <2> HIDE DEF d
  <2>2. QED
    BY <1>1, <2>1, SameMax DEF Takes
<1>3. Window!Select(s, I) = iter[DOMAIN d]
  BY DEF Window!Select, Window!FoldLeftDomain, Window!FoldLeft, Window!MapThenFoldSet
<1> HIDE DEF Raw
<1>4. Takes(iter, s, I)
  BY <1>2, FoldTakes
<1> HIDE DEF iter
<1>5. \E h : Taken(h, T, s, I) /\ iter[1..Len(s)] = h[Len(s)]
  BY <1>4, FoldTakes
<1>6. QED
  BY <1>1, <1>3, <1>5

LEMMA TakenPlaces ==
  ASSUME NEW T, NEW s \in Seq(T), NEW I, NEW h, Taken(h, T, s, I)
  PROVE  \E q : Places(q, Len(s), s, I, h[Len(s)])
<1> DEFINE S == {k \in Nat : \E q : Places(q, k, s, I, h[k])}
<1>1. 0 \in S
  <2>1. h[0] = <<>> /\ Len(<<>>) = 0 /\ 1..0 = {}
    BY DEF Taken
  <2> DEFINE q == [j \in 1..0 |-> 0]
  <2>2. Places(q, 0, s, I, <<>>)
    BY <2>1 DEF Places
  <2>3. QED
    BY <2>1, <2>2
<1>2. ASSUME NEW k \in Nat, k < Len(s), k \in S PROVE k + 1 \in S
  <2>1. PICK q : Places(q, k, s, I, h[k])
    BY <1>2
  <2> DEFINE r == h[k]
             n == Len(r)
  <2>2. r \in Seq(T) /\ n \in Nat /\ k + 1 \in 1..Len(s) /\ s[k + 1] \in T
    BY <1>2 DEF Taken
  <2>3. CASE k + 1 \in I
    <3> DEFINE e == Append(r, s[k + 1])
               p == [j \in 1..(n + 1) |-> IF j <= n THEN q[j] ELSE k + 1]
    <3>0. h[k + 1] = e
      BY <1>2, <2>3 DEF Taken
    <3>1. h[k + 1] = e /\ Len(e) = n + 1
      BY <2>2, <3>0
    <3>2. (\A j \in 1..n : e[j] = r[j]) /\ e[n + 1] = s[k + 1]
      BY <2>2
    <3>3. \A j \in 1..n : q[j] \in I /\ q[j] \in 1..k
      BY <2>1 DEF Places
    <3>4. p \in [1..(n + 1) -> I \cap (1..(k + 1))]
      BY <2>2, <2>3, <3>3
    <3>5. \A i, j \in 1..(n + 1) : i < j => p[i] < p[j]
      <4> TAKE i, j \in 1..(n + 1)
      <4> HAVE i < j
      <4>1. i \in 1..n /\ p[i] = q[i]
        BY <2>2
      <4>2. CASE j \in 1..n
        BY <2>1, <4>1, <4>2 DEF Places
      <4>3. CASE j = n + 1
        BY <2>2, <3>3, <4>1, <4>3
      <4>4. QED
        BY <2>2, <4>2, <4>3
    <3>6. ASSUME NEW i \in I \cap (1..(k + 1)) PROVE \E j \in 1..(n + 1) : p[j] = i
      <4>1. CASE i = k + 1
        <5>1. n + 1 \in 1..(n + 1) /\ ~ (n + 1 <= n)
          BY <2>2
        <5>2. p[n + 1] = k + 1
          BY <5>1
        <5>3. QED
          BY <4>1, <5>1, <5>2
      <4>2. CASE i # k + 1
        <5>0. i \in I \cap (1..k)
          BY <4>2
        <5>1. PICK j \in 1..n : q[j] = i
          BY <2>1, <5>0 DEF Places
        <5>2. j \in 1..(n + 1) /\ p[j] = i
          BY <2>2, <5>1
        <5>3. QED
          BY <5>2
      <4>3. QED
        BY <4>1, <4>2
    <3>7. \A j \in 1..(n + 1) : e[j] = s[p[j]]
      <4> TAKE j \in 1..(n + 1)
      <4>1. CASE j \in 1..n
        <5>1. p[j] = q[j] /\ r[j] = s[q[j]]
          BY <2>1, <2>2, <4>1 DEF Places
        <5>2. QED
          BY <3>2, <4>1, <5>1
      <4>2. CASE j = n + 1
        BY <2>2, <3>2, <4>2
      <4>3. QED
        BY <2>2, <4>1, <4>2
    <3> HIDE DEF e, p, n, r
    <3>8. Places(p, k + 1, s, I, e)
      BY <3>1, <3>4, <3>5, <3>6, <3>7 DEF Places
    <3>9. QED
      BY <3>1, <3>8
  <2>4. CASE k + 1 \notin I
    <3>1. h[k + 1] = r
      BY <1>2, <2>4 DEF Taken
    <3>2. I \cap (1..(k + 1)) = I \cap (1..k)
      BY <2>4
    <3>3. Places(q, k + 1, s, I, r)
      BY <2>1, <3>2 DEF Places
    <3>4. QED
      BY <3>1, <3>3
  <2>5. QED
    BY <2>3, <2>4
<1>3. \A k \in 0..Len(s) : k \in S
  <2> HIDE DEF S
  <2>1. QED
    BY <1>1, <1>2, Along
<1>4. QED
  BY <1>3

\* What is selected: the messages at some positions, in order.
LEMMA Selected ==
  ASSUME NEW T, NEW s \in Seq(T), NEW I
  PROVE  /\ Window!Select(s, I) \in Seq(T)
         /\ \E q : Places(q, Len(s), s, I, Window!Select(s, I))
<1>1. PICK h : Taken(h, T, s, I) /\ Window!Select(s, I) = h[Len(s)]
  BY SelectTakes
<1>2. h[Len(s)] \in Seq(T)
  BY <1>1 DEF Taken
<1>3. QED
  BY <1>1, <1>2, TakenPlaces

\* What is selected and what is not share the tokens between them.
LEMMA TokensSplit ==
  ASSUME NEW m \in Seq(Message), NEW I
  PROVE  /\ Window!TokensOf(m) \in Nat
         /\ Window!TokensOf(Window!Select(m, (1..Len(m)) \ I)) \in Nat
         /\ Window!TokensOf(Window!Select(m, I)) \in Nat
         /\ Window!TokensOf(Window!Select(m, (1..Len(m)) \ I)) + Window!TokensOf(Window!Select(m, I))
              = Window!TokensOf(m)
<1> DEFINE K == (1..Len(m)) \ I
<1>1. PICK a : Taken(a, Message, m, K) /\ Window!Select(m, K) = a[Len(m)]
  BY SelectTakes
<1>2. PICK b : Taken(b, Message, m, I) /\ Window!Select(m, I) = b[Len(m)]
  BY SelectTakes
<1>3. PICK p : Sums(p, m) /\ Window!TokensOf(m) = p[Len(m)]
  BY PartialSums
<1> DEFINE S == {k \in Nat : /\ Window!TokensOf(a[k]) \in Nat
                             /\ Window!TokensOf(b[k]) \in Nat
                             /\ Window!TokensOf(a[k]) + Window!TokensOf(b[k]) = p[k]}
<1>4. 0 \in S
  BY <1>1, <1>2, <1>3, NoTokens DEF Taken, Sums
<1>5. ASSUME NEW k \in Nat, k < Len(m), k \in S PROVE k + 1 \in S
  <2>1. k + 1 \in 1..Len(m) /\ m[k + 1] \in Message
    BY <1>5
  <2>2. m[k + 1].tokens \in Nat
    BY <2>1 DEF Message, Window!Message
  <2>3. p[k + 1] = p[k] + m[k + 1].tokens /\ p[k] \in Nat
    BY <1>3, <1>5 DEF Sums
  <2>4. a[k] \in Seq(Message) /\ b[k] \in Seq(Message)
    BY <1>1, <1>2, <1>5 DEF Taken
  <2>5. /\ Window!TokensOf(Append(a[k], m[k + 1])) = Window!TokensOf(a[k]) + m[k + 1].tokens
        /\ Window!TokensOf(Append(b[k], m[k + 1])) = Window!TokensOf(b[k]) + m[k + 1].tokens
    BY <2>1, <2>4, TokensAppend
  <2> DEFINE x == Window!TokensOf(a[k])
             y == Window!TokensOf(b[k])
             z == m[k + 1].tokens
  <2>9. x \in Nat /\ y \in Nat /\ z \in Nat /\ x + y = p[k] /\ p[k + 1] = p[k] + z
    BY <1>5, <2>2, <2>3
  <2>6. CASE k + 1 \in I
    <3>1. a[k + 1] = a[k] /\ b[k + 1] = Append(b[k], m[k + 1])
      BY <1>1, <1>2, <1>5, <2>1, <2>6 DEF Taken
    <3>2. Window!TokensOf(a[k + 1]) = x /\ Window!TokensOf(b[k + 1]) = y + z
      BY <2>5, <3>1
    <3> HIDE DEF x, y, z
    <3>3. QED
      BY <2>9, <3>2
  <2>7. CASE k + 1 \notin I
    <3>1. b[k + 1] = b[k] /\ a[k + 1] = Append(a[k], m[k + 1])
      BY <1>1, <1>2, <1>5, <2>1, <2>7 DEF Taken
    <3>2. Window!TokensOf(a[k + 1]) = x + z /\ Window!TokensOf(b[k + 1]) = y
      BY <2>5, <3>1
    <3> HIDE DEF x, y, z
    <3>3. QED
      BY <2>9, <3>2
  <2>8. QED
    BY <2>6, <2>7
<1>6. \A k \in 0..Len(m) : k \in S
  <2> HIDE DEF S
  <2>1. Len(m) \in Nat
    OBVIOUS
  <2>2. QED
    BY <1>4, <1>5, <2>1, Along
<1>7. Len(m) \in S
  BY <1>6
<1>8. QED
  BY <1>1, <1>2, <1>3, <1>7

\* Positions that grow leave no fewer to the end than there were.
LEMMA Gaps ==
  ASSUME NEW n \in Nat, NEW r \in Nat, NEW q \in [1..r -> 1..n],
         \A i, j \in 1..r : i < j => q[i] < q[j]
  PROVE  \A j \in 1..r : j <= q[j] /\ r - j <= n - q[j]
<1> DEFINE S == {k \in Nat : k < r => q[r - k] <= n - k}
           D == {k \in Nat : k < r => k + 1 <= q[k + 1]}
<1>1. \A k \in 0..r : k \in S
  <2>1. 0 \in S
    OBVIOUS
  <2>2. ASSUME NEW k \in Nat, k < r, k \in S PROVE k + 1 \in S
    <3> SUFFICES ASSUME k + 1 < r PROVE q[r - (k + 1)] <= n - (k + 1)
      OBVIOUS
    <3>1. r - k \in 1..r /\ r - (k + 1) \in 1..r /\ r - (k + 1) < r - k
      BY <2>2
    <3>2. q[r - (k + 1)] < q[r - k]
      BY <3>1
    <3>3. QED
      BY <2>2, <3>1, <3>2
  <2> HIDE DEF S
  <2>3. QED
    BY <2>1, <2>2, Along
<1>2. \A k \in 0..r : k \in D
  <2>1. 0 \in D
    OBVIOUS
  <2>2. ASSUME NEW k \in Nat, k < r, k \in D PROVE k + 1 \in D
    <3> SUFFICES ASSUME k + 1 < r PROVE (k + 1) + 1 <= q[(k + 1) + 1]
      OBVIOUS
    <3>1. k + 1 \in 1..r /\ (k + 1) + 1 \in 1..r /\ k + 1 < (k + 1) + 1
      BY <2>2
    <3>2. q[k + 1] < q[(k + 1) + 1]
      BY <3>1
    <3>3. QED
      BY <2>2, <3>1, <3>2
  <2> HIDE DEF D
  <2>3. QED
    BY <2>1, <2>2, Along
<1>3. QED
  <2> TAKE j \in 1..r
  <2>1. r - j \in 0..r /\ r - j < r /\ r - (r - j) = j
    OBVIOUS
  <2>2. j - 1 \in 0..r /\ j - 1 < r /\ (j - 1) + 1 = j
    OBVIOUS
  <2>3. q[j] <= n - (r - j)
    BY <1>1, <2>1
  <2>4. j <= q[j]
    BY <1>2, <2>2
  <2>5. QED
    BY <2>3, <2>4

\* A conversation without its system messages, as a selection.
Spoken(m) == {i \in 1..Len(m) : m[i].role # "system"}

LEMMA NoSystemSelects ==
  ASSUME NEW T, NEW m \in Seq(T)
  PROVE  /\ NoSystem(m) \in Seq(T)
         /\ \E q : Places(q, Len(m), m, Spoken(m), NoSystem(m))
<1> DEFINE Raw(g) == g = [t \in SUBSET DOMAIN m |->
                            IF t = {} THEN <<>>
                            ELSE IF m[Max(t)].role = "system" THEN g[t \ {Max(t)}]
                                 ELSE Append(g[t \ {Max(t)}], m[Max(t)])]
           iter == CHOOSE g : Raw(g)
<1>1. DOMAIN m = 1..Len(m) /\ Len(m) \in Nat
  OBVIOUS
<1>2. \A g : Raw(g) <=> Takes(g, m, Spoken(m))
  <2>1. \A t \in SUBSET (1..Len(m)) : t # {} => (m[Max(t)].role = "system" <=> Max(t) \notin Spoken(m))
    BY <1>1, MaxUpTo DEF Spoken
  <2>2. QED
    BY <1>1, <2>1 DEF Takes
<1>3. NoSystem(m) = iter[DOMAIN m]
  BY DEF NoSystem, FoldLeft, MapThenFoldSet
<1> HIDE DEF Raw
<1>4. Takes(iter, m, Spoken(m))
  BY <1>2, FoldTakes
<1> HIDE DEF iter
<1>5. PICK h : Taken(h, T, m, Spoken(m)) /\ iter[1..Len(m)] = h[Len(m)]
  BY <1>4, FoldTakes
<1>6. h[Len(m)] \in Seq(T)
  BY <1>1, <1>5 DEF Taken
<1>7. QED
  BY <1>1, <1>3, <1>5, <1>6, TakenPlaces

-----------------------------------------------------------------------------
(* A window: its messages are some of what was said, in order, among it what *)
(* is recent or pinned; its summary is of messages it no longer holds.       *)
WindowRecord ==
  [config : Window!WindowConfig, messages : Seq(Message),
   summary : [of : SUBSET Nat, tokens : Nat] \cup {None}, tokens : Nat]

InOrder(messages) ==
  \A i, j \in 1..Len(messages) : i < j => messages[i].content < messages[j].content

Held(messages, told) ==
  \A j \in 1..Len(messages) :
    /\ messages[j].content \in 1..Len(told)
    /\ messages[j] = told[messages[j].content]

Spared(messages, told, recent) ==
  \A i \in 1..Len(told) :
    told[i].pinned \/ i > Len(told) - recent
      => \E j \in 1..Len(messages) : messages[j] = told[i]

SummaryApart(w, told) ==
  w.summary # None =>
    /\ w.summary.of # {} /\ w.summary.of \subseteq 1..Len(told)
    /\ \A j \in 1..Len(w.messages) : w.messages[j].content \notin w.summary.of

Told(told) ==
  /\ told \in Seq(Message)
  /\ \A i \in 1..Len(told) : told[i].content = i

Kept(w, told) ==
  /\ w \in WindowRecord
  /\ Told(told)
  /\ InOrder(w.messages)
  /\ Held(w.messages, told)
  /\ Spared(w.messages, told, w.config.recent)
  /\ SummaryApart(w, told)

LEMMA WithoutFields ==
  ASSUME NEW w \in WindowRecord, NEW gone
  PROVE  LET v == Window!Without(w, gone)
             rest == (1..Len(w.messages)) \ gone
         IN  /\ v \in WindowRecord
             /\ v.config = w.config /\ v.summary = w.summary
             /\ v.messages = Window!Select(w.messages, rest)
             /\ v.tokens = Window!Minus(w.tokens, Window!TokensOf(Window!Select(w.messages, gone)))
             /\ v.tokens <= w.tokens
             /\ \E q : Places(q, Len(w.messages), w.messages, rest, v.messages)
<1> DEFINE v == Window!Without(w, gone)
           rest == (1..Len(w.messages)) \ gone
           lost == Window!TokensOf(Window!Select(w.messages, gone))
<1>1. /\ w.messages \in Seq(Message) /\ w.config \in Window!WindowConfig /\ w.tokens \in Nat
      /\ w.summary \in [of : SUBSET Nat, tokens : Nat] \cup {None}
      /\ DOMAIN w = {"config", "messages", "summary", "tokens"}
      /\ w = [config |-> w.config, messages |-> w.messages, summary |-> w.summary, tokens |-> w.tokens]
  BY DEF WindowRecord
<1>2. v = [w EXCEPT !.messages = Window!Select(@, (1..Len(@)) \ gone), !.tokens = Window!Minus(@, lost)]
  BY DEF Window!Without
<1>3. v = [config |-> w.config, messages |-> Window!Select(w.messages, rest), summary |-> w.summary,
           tokens |-> Window!Minus(w.tokens, lost)]
  <2> HIDE DEF lost, v
  <2>1. QED
    BY <1>1, <1>2
<1>4. Window!Select(w.messages, rest) \in Seq(Message)
  BY <1>1, Selected
<1>5. lost \in Nat
  BY <1>1, TokensSplit
<1>6. Window!Minus(w.tokens, lost) \in Nat /\ Window!Minus(w.tokens, lost) <= w.tokens
  <2> HIDE DEF lost
  <2>1. QED
    BY <1>1, <1>5 DEF Window!Minus, Window!Larger
<1> HIDE DEF v, lost, rest
<1>7. v \in WindowRecord
  BY <1>1, <1>3, <1>4, <1>6 DEF WindowRecord
<1>8. /\ v.config = w.config /\ v.summary = w.summary
      /\ v.messages = Window!Select(w.messages, rest)
      /\ v.tokens = Window!Minus(w.tokens, lost)
      /\ v.tokens <= w.tokens
  BY <1>3, <1>6
<1>9. \E q : Places(q, Len(w.messages), w.messages, rest, v.messages)
  BY <1>1, <1>8, Selected
<1>10. QED
  BY <1>7, <1>8, <1>9 DEF v, rest, lost

\* The count stays exact: no subtraction saturates.
LEMMA WithoutTokens ==
  ASSUME NEW w \in WindowRecord, NEW gone, NEW x \in Nat,
         w.tokens = Window!TokensOf(w.messages) + x
  PROVE  Window!Without(w, gone).tokens = Window!TokensOf(Window!Without(w, gone).messages) + x
<1> DEFINE v == Window!Without(w, gone)
           a == Window!TokensOf(Window!Select(w.messages, (1..Len(w.messages)) \ gone))
           b == Window!TokensOf(Window!Select(w.messages, gone))
           c == Window!TokensOf(w.messages)
<1>1. w.messages \in Seq(Message)
  BY DEF WindowRecord
<1>2. a \in Nat /\ b \in Nat /\ c \in Nat /\ a + b = c
  BY <1>1, TokensSplit
<1>3. v.tokens = Window!Minus(w.tokens, b) /\ Window!TokensOf(v.messages) = a
  BY WithoutFields
<1> HIDE DEF v, a, b, c
<1>4. w.tokens = c + x
  BY DEF c
<1>5. Window!Minus(w.tokens, b) = a + x
  BY <1>2, <1>4 DEF Window!Minus, Window!Larger
<1>6. QED
  BY <1>3, <1>5 DEF v

\* The places of what is left.
LEMMA PlacesGrow ==
  ASSUME NEW m \in Seq(Message), NEW I, NEW r \in Seq(Message), NEW q, Places(q, Len(m), m, I, r)
  PROVE  /\ q \in [1..Len(r) -> 1..Len(m)]
         /\ \A j \in 1..Len(r) : /\ q[j] \in I /\ r[j] = m[q[j]]
                                 /\ j <= q[j] /\ Len(r) - j <= Len(m) - q[j]
         /\ \A i, j \in 1..Len(r) : i < j => q[i] < q[j]
<1>1. Len(m) \in Nat /\ Len(r) \in Nat
  OBVIOUS
<1>2. q \in [1..Len(r) -> 1..Len(m)]
  BY DEF Places
<1>3. \A i, j \in 1..Len(r) : i < j => q[i] < q[j]
  BY DEF Places
<1>4. \A j \in 1..Len(r) : j <= q[j] /\ Len(r) - j <= Len(m) - q[j]
  BY <1>1, <1>2, <1>3, Gaps
<1>5. \A j \in 1..Len(r) : q[j] \in I /\ r[j] = m[q[j]]
  BY DEF Places
<1>6. QED
  BY <1>2, <1>3, <1>4, <1>5

LEMMA PlacesShorter ==
  ASSUME NEW m \in Seq(Message), NEW I, NEW r \in Seq(Message), NEW q, Places(q, Len(m), m, I, r)
  PROVE  Len(r) <= Len(m)
<1>1. Len(m) \in Nat /\ Len(r) \in Nat
  OBVIOUS
<1>2. /\ q \in [1..Len(r) -> 1..Len(m)]
      /\ \A j \in 1..Len(r) : /\ q[j] \in I /\ r[j] = m[q[j]]
                              /\ j <= q[j] /\ Len(r) - j <= Len(m) - q[j]
  BY PlacesGrow
<1>3. CASE Len(r) = 0
  BY <1>1, <1>3
<1>4. CASE Len(r) # 0
  <2>1. Len(r) \in 1..Len(r)
    BY <1>1, <1>4
  <2>2. QED
    BY <1>1, <1>2, <2>1
<1>5. QED
  BY <1>3, <1>4

\* What is unprotected in what is left was unprotected before.
LEMMA WithoutProtects ==
  ASSUME NEW w \in WindowRecord, NEW gone, NEW q,
         Places(q, Len(w.messages), w.messages, (1..Len(w.messages)) \ gone,
                Window!Without(w, gone).messages)
  PROVE  \A i \in Window!Unprotected(Window!Without(w, gone)) :
           /\ i \in 1..Len(Window!Without(w, gone).messages)
           /\ q[i] \in Window!Unprotected(w) \ gone
           /\ Window!Without(w, gone).messages[i] = w.messages[q[i]]
<1> DEFINE v == Window!Without(w, gone)
           m == w.messages
           r == v.messages
<1>1. v \in WindowRecord /\ v.config = w.config
  BY WithoutFields
<1>2. m \in Seq(Message) /\ r \in Seq(Message) /\ w.config.recent \in Nat
  BY <1>1 DEF WindowRecord, Window!WindowConfig
<1> HIDE DEF v
<1> SUFFICES ASSUME NEW i \in Window!Unprotected(v)
             PROVE  i \in 1..Len(r) /\ q[i] \in Window!Unprotected(w) \ gone /\ r[i] = m[q[i]]
  BY DEF v
<1>3. /\ i \in 1..Len(r) /\ ~ (i > Len(r) - w.config.recent) /\ ~ r[i].pinned
  BY <1>1 DEF Window!Unprotected, Window!Protected
<1> DEFINE rest == (1..Len(m)) \ gone
<1>4. Places(q, Len(m), m, rest, r)
  BY DEF v
<1> HIDE DEF m, r, rest
<1>4a. /\ q \in [1..Len(r) -> 1..Len(m)]
       /\ \A j \in 1..Len(r) : /\ q[j] \in rest /\ r[j] = m[q[j]]
                               /\ j <= q[j] /\ Len(r) - j <= Len(m) - q[j]
       /\ \A a, b \in 1..Len(r) : a < b => q[a] < q[b]
  BY <1>2, <1>4, PlacesGrow
<1>5. /\ q[i] \in 1..Len(m) /\ q[i] \in (1..Len(m)) \ gone /\ r[i] = m[q[i]]
      /\ Len(r) - i <= Len(m) - q[i]
  BY <1>3, <1>4a DEF rest
<1>6. ~ (q[i] > Len(m) - w.config.recent)
  <2>1. Len(m) \in Nat /\ Len(r) \in Nat
    BY <1>2
  <2>2. QED
    BY <1>2, <1>3, <1>5, <2>1
<1>7. q[i] \in Window!Unprotected(w)
  BY <1>3, <1>5, <1>6 DEF Window!Unprotected, Window!Protected, m
<1>8. QED
  BY <1>3, <1>5, <1>7

\* Dropping what is not protected keeps what has to be kept.
LEMMA WithoutKept ==
  ASSUME NEW w, NEW told, Kept(w, told), NEW gone, gone \subseteq Window!Unprotected(w)
  PROVE  Kept(Window!Without(w, gone), told)
<1> DEFINE v == Window!Without(w, gone)
           m == w.messages
           r == v.messages
           rest == (1..Len(m)) \ gone
<1>1. w \in WindowRecord /\ Told(told)
  BY DEF Kept
<1>2. v \in WindowRecord /\ v.config = w.config /\ v.summary = w.summary
  BY <1>1, WithoutFields
<1>3. PICK q : Places(q, Len(m), m, rest, r)
  BY <1>1, WithoutFields
<1>4. m \in Seq(Message) /\ r \in Seq(Message) /\ w.config.recent \in Nat /\ told \in Seq(Message)
  BY <1>1, <1>2 DEF WindowRecord, Window!WindowConfig, Told
<1>5. Len(m) \in Nat /\ Len(r) \in Nat /\ Len(told) \in Nat
  BY <1>4
<1>6. InOrder(m) /\ Held(m, told) /\ Spared(m, told, w.config.recent) /\ SummaryApart(w, told)
  BY DEF Kept
<1>7. gone \subseteq {i \in 1..Len(m) : ~ (i > Len(m) - w.config.recent) /\ ~ m[i].pinned}
  BY DEF Window!Unprotected, Window!Protected
<1> HIDE DEF v, m, r, rest
<1>7a. /\ q \in [1..Len(r) -> 1..Len(m)]
       /\ \A j \in 1..Len(r) : /\ q[j] \in rest /\ r[j] = m[q[j]]
                               /\ j <= q[j] /\ Len(r) - j <= Len(m) - q[j]
       /\ \A i, j \in 1..Len(r) : i < j => q[i] < q[j]
  BY <1>3, <1>4, PlacesGrow
<1>8. /\ \A j \in 1..Len(r) : q[j] \in 1..Len(m) /\ r[j] = m[q[j]]
      /\ \A i, j \in 1..Len(r) : i < j => q[i] < q[j]
  BY <1>7a
<1>9. \A i \in rest : \E j \in 1..Len(r) : r[j] = m[i]
  BY <1>3 DEF Places, rest
<1>10. InOrder(r)
  BY <1>6, <1>8 DEF InOrder
<1>11. Held(r, told)
  BY <1>6, <1>8 DEF Held
<1>12. Spared(r, told, w.config.recent)
  <2> SUFFICES ASSUME NEW i \in 1..Len(told), told[i].pinned \/ i > Len(told) - w.config.recent
               PROVE  \E j \in 1..Len(r) : r[j] = told[i]
    BY DEF Spared
  <2>1. PICK k \in 1..Len(m) : m[k] = told[i]
    BY <1>6 DEF Spared
  <2>2. k \notin gone
    <3>1. CASE told[i].pinned
      BY <1>7, <2>1, <3>1
    <3>2. CASE i > Len(told) - w.config.recent
      <4> DEFINE p == [j \in 1..Len(m) |-> m[j].content]
      <4>1. p \in [1..Len(m) -> 1..Len(told)]
        BY <1>6 DEF Held
      <4>2. \A a, b \in 1..Len(m) : a < b => p[a] < p[b]
        BY <1>6 DEF InOrder
      <4>3. p[k] = i
        BY <1>1, <2>1 DEF Told
      <4> HIDE DEF p
      <4>4. Len(m) - k <= Len(told) - i
        BY <1>5, <4>1, <4>2, <4>3, Gaps
      <4>5. k > Len(m) - w.config.recent
        BY <1>4, <1>5, <3>2, <4>4
      <4>6. QED
        BY <1>7, <4>5
    <3>3. QED
      BY <3>1, <3>2
  <2>3. k \in rest
    BY <2>2 DEF rest
  <2>4. QED
    BY <1>9, <2>1, <2>3
<1>13. SummaryApart(v, told)
  BY <1>2, <1>6, <1>8 DEF SummaryApart, r, m
<1>14. Kept(v, told)
  BY <1>1, <1>2, <1>10, <1>11, <1>12, <1>13 DEF Kept, r
<1>15. QED
  BY <1>14 DEF v

-----------------------------------------------------------------------------
(* The strategies of compression.  Counted: the tokens are those of the      *)
(* messages and x more, of summaries made so far.                            *)
Counted(w, x) == w.tokens = Window!TokensOf(w.messages) + x

\* What a compression started from w may have left of its summaries' tokens.
Resummed(w, v, x) == IF v.summary = w.summary THEN x ELSE x + v.summary.tokens

LEMMA KeptTypes ==
  ASSUME NEW w, NEW told, Kept(w, told)
  PROVE  /\ w \in WindowRecord /\ w.messages \in Seq(Message) /\ Len(w.messages) \in Nat
         /\ w.config \in Window!WindowConfig /\ w.config.recent \in Nat
         /\ w.tokens \in Nat /\ w.config.max \in Nat
         /\ told \in Seq(Message) /\ Len(told) \in Nat
BY DEF Kept, WindowRecord, Told, Window!WindowConfig

LEMMA DropKept ==
  ASSUME NEW w, NEW told, Kept(w, told), NEW x \in Nat, Counted(w, x)
  PROVE  LET v == Window!DropUnimportant(w)
         IN  /\ Kept(v, told) /\ Counted(v, x)
             /\ v.config = w.config /\ v.summary = w.summary
             /\ Len(v.messages) <= Len(w.messages)
             /\ \A i \in Window!Unprotected(v) : v.messages[i].importance >= v.config.threshold
<1> DEFINE gone == {i \in Window!Unprotected(w) : w.messages[i].importance < w.config.threshold}
           v == Window!Without(w, gone)
<1>1. Window!DropUnimportant(w) = v
  BY DEF Window!DropUnimportant
<1>2. w \in WindowRecord
  BY KeptTypes
<1>3. gone \subseteq Window!Unprotected(w)
  OBVIOUS
<1> HIDE DEF gone
<1>4. Kept(v, told)
  BY <1>3, WithoutKept
<1>5. Counted(v, x)
  BY <1>2, WithoutTokens DEF Counted
<1>6. v.config = w.config /\ v.summary = w.summary
  BY <1>2, WithoutFields
<1>7. PICK q : Places(q, Len(w.messages), w.messages, (1..Len(w.messages)) \ gone, v.messages)
  BY <1>2, WithoutFields
<1>8. Len(v.messages) <= Len(w.messages)
  <2>1. w.messages \in Seq(Message) /\ v.messages \in Seq(Message)
    BY <1>4, KeptTypes
  <2> HIDE DEF v
  <2>2. QED
    BY <1>7, <2>1, PlacesShorter
<1>9. ASSUME NEW i \in Window!Unprotected(v)
      PROVE  v.messages[i].importance >= v.config.threshold
  <2>1. q[i] \in Window!Unprotected(w) \ gone /\ v.messages[i] = w.messages[q[i]]
    BY <1>2, <1>7, <1>9, WithoutProtects
  <2>2. q[i] \in 1..Len(w.messages)
    BY <2>1 DEF Window!Unprotected
  <2>3. w.messages[q[i]].importance \in Nat /\ w.config.threshold \in Nat
    <3>1. w.messages[q[i]] \in Message
      BY <2>2, KeptTypes
    <3>2. w.messages[q[i]].importance \in 0..100
      BY <3>1 DEF Message, Window!Message
    <3>3. w.config.threshold \in Nat
      BY KeptTypes DEF Window!WindowConfig
    <3>4. QED
      BY <3>2, <3>3
  <2>4. ~ (w.messages[q[i]].importance < w.config.threshold)
    BY <2>1 DEF gone
  <2>5. QED
    BY <1>6, <2>1, <2>3, <2>4
<1>10. QED
  BY <1>1, <1>4, <1>5, <1>6, <1>8, <1>9

\* A new summary is of messages, and never of those the last one is of.
LEMMA SummaryIs ==
  ASSUME NEW w, NEW told, Kept(w, told), NEW u, u \subseteq 1..Len(w.messages), u # {}
  PROVE  LET new == Window!Summary(Window!Select(w.messages, u))
             old == Window!Select(w.messages, u)
         IN  /\ old # <<>>
             /\ new \in [of : SUBSET Nat, tokens : Nat]
             /\ new.of # {} /\ new.of \subseteq 1..Len(told)
             /\ new.of \subseteq {w.messages[i].content : i \in u}
             /\ new # w.summary
<1> DEFINE m == w.messages
           old == Window!Select(m, u)
           new == Window!Summary(old)
<1>1. m \in Seq(Message) /\ Len(m) \in Nat /\ Len(told) \in Nat
  BY KeptTypes
<1>2. old \in Seq(Message) /\ \E q : Places(q, Len(m), m, u, old)
  BY <1>1, Selected
<1>3. PICK q : Places(q, Len(m), m, u, old)
  BY <1>2
<1>4. InOrder(m) /\ Held(m, told) /\ SummaryApart(w, told)
  BY DEF Kept
<1> HIDE DEF old
<1>5. /\ \A j \in 1..Len(old) : q[j] \in u /\ old[j] = m[q[j]]
      /\ \A i \in u : \E j \in 1..Len(old) : q[j] = i
  BY <1>3 DEF Places
<1>6. DOMAIN old = 1..Len(old) /\ Len(old) \in Nat
  BY <1>2
<1>7. PICK i \in u : TRUE
  OBVIOUS
<1>8. PICK j \in 1..Len(old) : q[j] = i
  BY <1>5
<1>9. old # <<>>
  BY <1>8
<1>10. new.of = {old[k].content : k \in 1..Len(old)} /\ new.tokens \in Nat
       /\ new = [of |-> new.of, tokens |-> new.tokens]
  <2>1. new = [of |-> {old[k].content : k \in DOMAIN old},
               tokens |-> Window!Estimate(IF \E k \in DOMAIN old : old[k].role = "tool" THEN 94 ELSE 80)]
    BY DEF Window!Summary
  <2>2. Window!Estimate(94) \in Nat /\ Window!Estimate(80) \in Nat
    BY DEF Window!Estimate, Window!Larger
  <2>3. new.tokens \in Nat
    BY <2>1, <2>2
  <2> HIDE DEF new
  <2>4. QED
    BY <1>6, <2>1, <2>3
<1> HIDE DEF new
<1>11. new.of \subseteq {m[k].content : k \in u}
  <2> SUFFICES ASSUME NEW k \in 1..Len(old) PROVE old[k].content \in {m[l].content : l \in u}
    BY <1>10
  <2>1. q[k] \in u /\ old[k].content = m[q[k]].content
    BY <1>5
  <2>2. QED
    BY <2>1
<1>12. \A k \in u : m[k].content \in 1..Len(told)
  BY <1>4 DEF Held, m
<1>13. new.of \subseteq 1..Len(told) /\ 1..Len(told) \subseteq Nat
  BY <1>1, <1>11, <1>12
<1>14. new.of # {}
  BY <1>8, <1>10
<1>15. new \in [of : SUBSET Nat, tokens : Nat]
  BY <1>10, <1>13
<1>16. new # w.summary
  <2>1. CASE w.summary = None
    BY <1>15, <2>1, NoneAssumption
  <2>2. CASE w.summary # None
    <3>1. \A k \in u : m[k].content \notin w.summary.of
      BY <1>4, <2>2 DEF SummaryApart, m
    <3>2. QED
      BY <1>11, <1>14, <3>1
  <2>3. QED
    BY <2>1, <2>2
<1>17. QED
  BY <1>9, <1>11, <1>13, <1>14, <1>15, <1>16 DEF m, old, new

LEMMA SummarizeKept ==
  ASSUME NEW w, NEW told, Kept(w, told), NEW x \in Nat, Counted(w, x)
  PROVE  LET v == Window!SummarizeOlder(w)
         IN  /\ Kept(v, told) /\ Counted(v, Resummed(w, v, x)) /\ Resummed(w, v, x) \in Nat
             /\ v.config = w.config
             /\ Len(v.messages) <= Len(w.messages)
             /\ Window!Unprotected(v) = {}
<1> DEFINE u == Window!Unprotected(w)
           old == Window!Select(w.messages, u)
           new == Window!Summary(old)
           rest == Window!Without(w, u)
           v == Window!SummarizeOlder(w)
<1>1. w \in WindowRecord /\ w.messages \in Seq(Message) /\ Len(w.messages) \in Nat
  BY KeptTypes
<1>2. u \subseteq 1..Len(w.messages)
  BY DEF Window!Unprotected
<1>3. CASE u = {}
  <2>1. old = <<>>
    <3>1. PICK q : Places(q, Len(w.messages), w.messages, u, old)
      BY <1>1, Selected
    <3>2. old \in Seq(Message) /\ Len(old) \in Nat
      BY <1>1, Selected
    <3>3. \A j \in 1..Len(old) : FALSE
      BY <1>3, <3>1 DEF Places
    <3>4. QED
      BY <3>2, <3>3
  <2>2. v = w
    BY <2>1 DEF Window!SummarizeOlder
  <2>3. Resummed(w, v, x) = x
    BY <2>2 DEF Resummed
  <2>4. QED
    BY <1>1, <1>3, <2>2, <2>3
<1>4. CASE u # {}
  <2>1. /\ old # <<>> /\ new \in [of : SUBSET Nat, tokens : Nat]
        /\ new.of # {} /\ new.of \subseteq 1..Len(told)
        /\ new.of \subseteq {w.messages[i].content : i \in u}
        /\ new # w.summary
    BY <1>2, <1>4, SummaryIs
  <2>2. v = [rest EXCEPT !.summary = new, !.tokens = @ + new.tokens]
    BY <2>1 DEF Window!SummarizeOlder
  <2>3. Kept(rest, told)
    BY WithoutKept
  <2>4. Counted(rest, x)
    BY <1>1, WithoutTokens DEF Counted
  <2>5. rest.config = w.config
    BY <1>1, WithoutFields
  <2>6. PICK q : Places(q, Len(w.messages), w.messages, (1..Len(w.messages)) \ u, rest.messages)
    BY <1>1, WithoutFields
  <2>7. Window!Unprotected(rest) = {}
    BY <1>1, <2>6, WithoutProtects
  <2>8. /\ \A j \in 1..Len(rest.messages) :
             /\ q[j] \in 1..Len(w.messages) /\ q[j] \notin u
             /\ rest.messages[j] = w.messages[q[j]]
             /\ j <= q[j]
    <3> DEFINE m == w.messages
               r == rest.messages
               i == (1..Len(m)) \ u
    <3>1. m \in Seq(Message) /\ r \in Seq(Message) /\ Places(q, Len(m), m, i, r)
      BY <2>3, <2>6, KeptTypes
    <3> HIDE DEF m, r, i
    <3>2. \A j \in 1..Len(r) : q[j] \in i /\ r[j] = m[q[j]] /\ j <= q[j]
      BY <3>1, PlacesGrow
    <3>3. QED
      BY <3>2 DEF m, r, i
  <2> HIDE DEF new, rest, v, old, u
  <2>9. /\ rest \in WindowRecord /\ Len(rest.messages) \in Nat
        /\ rest.tokens \in Nat /\ new.tokens \in Nat
    BY <2>1, <2>3, KeptTypes
  <2>10. /\ v.config = rest.config /\ v.messages = rest.messages
         /\ v.summary = new /\ v.tokens = rest.tokens + new.tokens
         /\ v \in WindowRecord
    <3>1. /\ DOMAIN rest = {"config", "messages", "summary", "tokens"}
          /\ rest = [config |-> rest.config, messages |-> rest.messages,
                     summary |-> rest.summary, tokens |-> rest.tokens]
          /\ rest.config \in Window!WindowConfig /\ rest.messages \in Seq(Message)
      BY <2>9 DEF WindowRecord
    <3>2. v = [config |-> rest.config, messages |-> rest.messages,
               summary |-> new, tokens |-> rest.tokens + new.tokens]
      BY <2>2, <3>1
    <3>3. rest.tokens + new.tokens \in Nat
      BY <2>9
    <3>4. v \in WindowRecord
      BY <2>1, <3>1, <3>2, <3>3 DEF WindowRecord
    <3>5. QED
      BY <3>2, <3>4
  <2>11. SummaryApart(v, told)
    <3> SUFFICES ASSUME NEW j \in 1..Len(rest.messages) PROVE rest.messages[j].content \notin new.of
      BY <2>1, <2>10 DEF SummaryApart
    <3>1. InOrder(w.messages)
      BY DEF Kept
    <3>2. \A i \in u : w.messages[i].content # w.messages[q[j]].content
      <4> TAKE i \in u
      <4>1. i \in 1..Len(w.messages) /\ q[j] \in 1..Len(w.messages) /\ i # q[j]
        BY <1>2, <2>8 DEF u
      <4>2. /\ w.messages[i].content \in Nat /\ w.messages[q[j]].content \in Nat
        <5>1. w.messages[i] \in Message /\ w.messages[q[j]] \in Message
          BY <1>1, <4>1
        <5>2. QED
          BY <5>1 DEF Message, Window!Message
      <4>3. i < q[j] \/ q[j] < i
        BY <4>1
      <4>4. QED
        BY <3>1, <4>1, <4>2, <4>3 DEF InOrder
    <3>3. rest.messages[j].content = w.messages[q[j]].content
      BY <2>8
    <3>4. rest.messages[j].content \notin {w.messages[i].content : i \in u}
      BY <3>2, <3>3
    <3>5. QED
      BY <2>1, <3>4
  <2>12. Kept(v, told)
    BY <2>3, <2>10, <2>11 DEF Kept
  <2>13. Resummed(w, v, x) = x + new.tokens
    BY <2>1, <2>10 DEF Resummed
  <2>14. Counted(v, x + new.tokens)
    <3>1. Window!TokensOf(rest.messages) \in Nat
      <4>1. rest.messages \in Seq(Message)
        BY <2>3, KeptTypes
      <4>2. QED
        BY <4>1, TokensSplit
    <3>2. QED
      BY <2>4, <2>9, <2>10, <3>1 DEF Counted
  <2>15. Window!Unprotected(v) = {}
    BY <2>7, <2>10 DEF Window!Unprotected, Window!Protected
  <2>16. Len(v.messages) <= Len(w.messages)
    <3>1. rest.messages \in Seq(Message)
      BY <2>3, KeptTypes
    <3>2. QED
      BY <1>1, <2>6, <2>10, <3>1, PlacesShorter
  <2>17. QED
    BY <2>5, <2>9, <2>10, <2>12, <2>13, <2>14, <2>15, <2>16 DEF v
<1>5. QED
  BY <1>3, <1>4

\* What is left when the first messages are gone.
LEMMA WithoutFirst ==
  ASSUME NEW w \in WindowRecord, NEW n \in 0..Len(w.messages)
  PROVE  LET r == Window!Without(w, 1..n).messages
         IN  /\ Len(r) = Len(w.messages) - n
             /\ n < Len(w.messages) => r[1] = w.messages[n + 1]
<1> DEFINE m == w.messages
           v == Window!Without(w, 1..n)
           r == v.messages
           rest == (1..Len(m)) \ (1..n)
<1>1. m \in Seq(Message) /\ v \in WindowRecord
  BY WithoutFields DEF WindowRecord
<1>2. r \in Seq(Message) /\ Len(m) \in Nat /\ Len(r) \in Nat
  BY <1>1 DEF WindowRecord
<1>3. PICK q : Places(q, Len(m), m, rest, r)
  BY WithoutFields
<1>4. n \in Nat /\ n <= Len(m)
  BY <1>2
<1> HIDE DEF m, v, r
<1>5. rest = (n + 1)..Len(m)
  BY <1>2, <1>4
<1>6. /\ \A i, j \in 1..Len(r) : i < j => q[i] < q[j]
      /\ \A i \in rest : \E j \in 1..Len(r) : q[j] = i
      /\ \A j \in 1..Len(r) : q[j] \in rest /\ r[j] = m[q[j]]
  BY <1>3, <1>5 DEF Places
<1> DEFINE p == [j \in 1..Len(r) |-> q[j] - n]
           a == [i \in 1..(Len(m) - n) |-> CHOOSE j \in 1..Len(r) : q[j] = n + i]
<1>7. p \in [1..Len(r) -> 1..(Len(m) - n)]
  BY <1>2, <1>4, <1>5, <1>6
<1>8. \A i, j \in 1..Len(r) : i < j => p[i] < p[j]
  <2> TAKE i, j \in 1..Len(r)
  <2>1. q[i] \in Nat /\ q[j] \in Nat
    BY <1>2, <1>4, <1>5, <1>6
  <2>2. QED
    BY <1>4, <1>6, <2>1
<1>9. Len(m) - n \in Nat
  BY <1>2, <1>4
<1>10. \A j \in 1..Len(r) : j <= p[j] /\ Len(r) - j <= (Len(m) - n) - p[j]
  <2> HIDE DEF p
  <2>1. QED
    BY <1>2, <1>7, <1>8, <1>9, Gaps
<1>11. Len(r) <= Len(m) - n
  <2>1. CASE Len(r) = 0
    BY <1>9, <2>1
  <2>2. CASE Len(r) # 0
    <3>1. Len(r) \in 1..Len(r)
      BY <1>2, <2>2
    <3>2. Len(r) <= p[Len(r)] /\ p[Len(r)] \in 1..(Len(m) - n)
      BY <1>7, <1>10, <3>1
    <3> HIDE DEF p
    <3>3. QED
      BY <1>2, <1>9, <3>2
  <2>3. QED
    BY <2>1, <2>2
<1>12. \A i \in 1..(Len(m) - n) : a[i] \in 1..Len(r) /\ q[a[i]] = n + i
  <2> TAKE i \in 1..(Len(m) - n)
  <2>1. n + i \in rest
    BY <1>2, <1>4, <1>5
  <2>2. \E j \in 1..Len(r) : q[j] = n + i
    BY <1>6, <2>1
  <2>3. QED
    BY <2>2
<1>13. \A i, j \in 1..(Len(m) - n) : i < j => a[i] < a[j]
  <2> TAKE i, j \in 1..(Len(m) - n)
  <2> HAVE i < j
  <2>1. /\ a[i] \in 1..Len(r) /\ a[j] \in 1..Len(r)
        /\ q[a[i]] = n + i /\ q[a[j]] = n + j
    BY <1>12
  <2> HIDE DEF a
  <2>2. a[i] # a[j] /\ ~ (a[j] < a[i])
    BY <1>4, <1>6, <2>1
  <2>3. QED
    BY <1>2, <2>1, <2>2
<1>14. a \in [1..(Len(m) - n) -> 1..Len(r)]
  <2>1. a = [i \in 1..(Len(m) - n) |-> a[i]]
    OBVIOUS
  <2> HIDE DEF a
  <2>2. QED
    BY <1>12, <2>1
<1>15. \A i \in 1..(Len(m) - n) : i <= a[i]
  <2> HIDE DEF a
  <2>1. QED
    BY <1>2, <1>9, <1>13, <1>14, Gaps
<1>16. Len(m) - n <= Len(r)
  <2>1. CASE Len(m) - n = 0
    BY <1>2, <2>1
  <2>2. CASE Len(m) - n # 0
    <3>1. Len(m) - n \in 1..(Len(m) - n)
      BY <1>9, <2>2
    <3>2. Len(m) - n <= a[Len(m) - n] /\ a[Len(m) - n] \in 1..Len(r)
      BY <1>12, <1>15, <3>1
    <3> HIDE DEF a
    <3>3. QED
      BY <1>2, <1>9, <3>2
  <2>3. QED
    BY <2>1, <2>2
<1>17. Len(r) = Len(m) - n
  BY <1>2, <1>9, <1>11, <1>16
<1>18. ASSUME n < Len(m) PROVE r[1] = m[n + 1]
  <2>1. 1 \in 1..Len(r)
    BY <1>4, <1>9, <1>17, <1>18
  <2>2. Len(r) - 1 <= (Len(m) - n) - p[1] /\ 1 <= p[1] /\ p[1] \in 1..(Len(m) - n)
    BY <1>7, <1>10, <2>1
  <2>3. p[1] = 1
    <3> HIDE DEF p
    <3>1. QED
      BY <1>9, <1>17, <2>2
  <2>4. q[1] \in Int /\ p[1] = q[1] - n
    BY <1>2, <1>4, <1>5, <1>6, <2>1
  <2>5. q[1] = n + 1
    BY <1>4, <2>3, <2>4
  <2>6. QED
    BY <1>6, <2>1, <2>5
<1>19. QED
  BY <1>17, <1>18 DEF r, v, m

\* A window evicted from the front keeps what has to be kept and ends within
\* the budget, at the recent window or at a pinned message.
LEMMA EvictKept ==
  ASSUME NEW w, NEW told, Kept(w, told), NEW x \in Nat, Counted(w, x),
         NEW len \in Nat, Len(w.messages) <= len
  PROVE  LET v == Window!EvictOldest(w, Window!Smaller(w.config.recent, len))
         IN  /\ Kept(v, told) /\ Counted(v, x)
             /\ v.config = w.config /\ v.summary = w.summary /\ v.tokens <= w.tokens
             /\ Window!OverBudget(v) =>
                  \/ Len(v.messages) <= w.config.recent
                  \/ Len(v.messages) > 0 /\ v.messages[1].pinned
             /\ \E gone : gone \subseteq Window!Unprotected(w) /\ v = Window!Without(w, gone)
<1> DEFINE floor == Window!Smaller(w.config.recent, len)
           Stop(n) == \/ ~ Window!OverBudget(Window!Without(w, 1..n))
                      \/ Len(w.messages) - n <= floor
                      \/ w.messages[n + 1].pinned
           Stops == {n \in 0..Len(w.messages) : Stop(n)}
           stop == Window!Min(Stops)
           v == Window!Without(w, 1..stop)
<1>1. /\ w \in WindowRecord /\ w.messages \in Seq(Message) /\ Len(w.messages) \in Nat
      /\ w.config.recent \in Nat
  BY KeptTypes
<1>2. floor \in Nat /\ floor <= w.config.recent /\ (floor = w.config.recent \/ floor = len)
  BY <1>1 DEF Window!Smaller
<1>3. Window!EvictOldest(w, floor) = v
  BY DEF Window!EvictOldest
<1> HIDE DEF floor
<1>4. Stops \subseteq Nat /\ Len(w.messages) \in Stops
  BY <1>1, <1>2
<1> HIDE DEF Stop
<1>5. stop \in Stops /\ \A n \in Stops : stop <= n
  <2>1. \E n \in Stops : \A k \in Stops : ~ (k < n)
    <3> HIDE DEF Stops
    <3>1. QED
      BY <1>4, LeastNat
  <2>2. \E n \in Stops : \A k \in Stops : n <= k
    BY <1>4, <2>1
  <2> HIDE DEF Stops
  <2>3. QED
    BY <2>2 DEF Window!Min
<1> HIDE DEF stop
<1>6. stop \in 0..Len(w.messages) /\ stop \in Nat /\ Stop(stop)
  BY <1>1, <1>5
<1>7. \A n \in 0..(stop - 1) : ~ Stop(n)
  <2> TAKE n \in 0..(stop - 1)
  <2>1. n \in 0..Len(w.messages) /\ n < stop /\ n \in Nat
    BY <1>1, <1>6
  <2>2. n \notin Stops
    BY <1>5, <1>6, <2>1
  <2>3. QED
    BY <2>1, <2>2
<1>8. 1..stop \subseteq Window!Unprotected(w)
  <2> SUFFICES ASSUME NEW i \in 1..stop
               PROVE  i \in 1..Len(w.messages) /\ ~ (i > Len(w.messages) - w.config.recent)
                        /\ ~ w.messages[i].pinned
    BY DEF Window!Unprotected, Window!Protected
  <2>1. i - 1 \in 0..(stop - 1) /\ (i - 1) + 1 = i /\ i \in 1..Len(w.messages) /\ i \in Nat
    BY <1>1, <1>6
  <2>2. ~ Stop(i - 1)
    BY <1>7, <2>1
  <2>3. ~ (Len(w.messages) - (i - 1) <= floor) /\ ~ w.messages[i].pinned
    BY <2>1, <2>2 DEF Stop
  <2>4. floor # len
    BY <1>1, <2>1, <2>3
  <2>5. QED
    BY <1>1, <1>2, <2>1, <2>3, <2>4
<1>9. Kept(v, told)
  BY <1>8, WithoutKept
<1>10. Counted(v, x)
  BY <1>1, WithoutTokens DEF Counted
<1>11. v.config = w.config /\ v.summary = w.summary /\ v.tokens <= w.tokens
  BY <1>1, WithoutFields
<1>12. ASSUME Window!OverBudget(v)
       PROVE  \/ Len(v.messages) <= w.config.recent
              \/ Len(v.messages) > 0 /\ v.messages[1].pinned
  <2>1. Len(v.messages) = Len(w.messages) - stop
        /\ (stop < Len(w.messages) => v.messages[1] = w.messages[stop + 1])
    BY <1>1, <1>6, WithoutFirst
  <2>2. Len(w.messages) - stop <= floor \/ w.messages[stop + 1].pinned
    BY <1>6, <1>12 DEF Stop
  <2>3. CASE stop = Len(w.messages)
    BY <1>1, <2>1, <2>3
  <2>4. CASE stop < Len(w.messages)
    <3>1. Len(v.messages) > 0
      BY <1>1, <1>6, <2>1, <2>4
    <3>2. CASE Len(w.messages) - stop <= floor
      <4> HIDE DEF v
      <4>1. QED
        BY <1>1, <1>2, <1>6, <2>1, <3>2
    <3>3. CASE w.messages[stop + 1].pinned
      BY <2>1, <2>4, <3>1, <3>3
    <3>4. QED
      BY <2>2, <3>2, <3>3
  <2>5. QED
    BY <1>1, <1>6, <2>3, <2>4
<1>13. QED
  BY <1>3, <1>8, <1>9, <1>10, <1>11, <1>12 DEF floor

\* A window over its budget that holds nothing it may still drop.
Exhausted(w) ==
  Window!OverBudget(w) =>
    IF w.config.summarize THEN Window!Unprotected(w) = {}
    ELSE /\ \A i \in Window!Unprotected(w) : w.messages[i].importance >= w.config.threshold
         /\ Window!Protected(w, 1)

\* What every unprotected message of a window has, those of a smaller one have.
LEMMA UnprotectedRemain ==
  ASSUME NEW w \in WindowRecord, NEW gone,
         NEW i \in Window!Unprotected(Window!Without(w, gone))
  PROVE  \E k \in Window!Unprotected(w) : Window!Without(w, gone).messages[i] = w.messages[k]
<1>1. PICK q : Places(q, Len(w.messages), w.messages, (1..Len(w.messages)) \ gone,
                      Window!Without(w, gone).messages)
  BY WithoutFields
<1>2. q[i] \in Window!Unprotected(w) /\ Window!Without(w, gone).messages[i] = w.messages[q[i]]
  BY <1>1, WithoutProtects, ZenonT(40)
<1>3. QED
  BY <1>2

LEMMA CompressKept ==
  ASSUME NEW w, NEW told, Kept(w, told), NEW x \in Nat, Counted(w, x)
  PROVE  LET v == Window!Compress(w)
         IN  /\ Kept(v, told) /\ Counted(v, Resummed(w, v, x)) /\ Resummed(w, v, x) \in Nat
             /\ v.config = w.config /\ Exhausted(v)
<1> DEFINE important == Window!DropUnimportant(w)
           over == Window!OverBudget(important) /\ w.config.summarize
           shorter == IF over THEN Window!SummarizeOlder(important) ELSE important
           y == Resummed(w, shorter, x)
           v == Window!EvictOldest(shorter, Window!Smaller(w.config.recent, Len(w.messages)))
<1>1. Window!Compress(w) = v
  BY DEF Window!Compress
<1>2. /\ Kept(important, told) /\ Counted(important, x)
      /\ important.config = w.config /\ important.summary = w.summary
      /\ Len(important.messages) <= Len(w.messages)
      /\ \A i \in Window!Unprotected(important) :
           important.messages[i].importance >= important.config.threshold
  BY DropKept
<1> HIDE DEF important
<1>3. /\ Kept(shorter, told) /\ Counted(shorter, y) /\ y \in Nat
      /\ shorter.config = w.config
      /\ Len(shorter.messages) <= Len(w.messages)
      /\ over => Window!Unprotected(shorter) = {}
  <2>1. CASE over
    <3> DEFINE u == Window!SummarizeOlder(important)
    <3>1. /\ Kept(u, told) /\ Counted(u, Resummed(important, u, x))
          /\ Resummed(important, u, x) \in Nat
          /\ u.config = important.config
          /\ Len(u.messages) <= Len(important.messages)
          /\ Window!Unprotected(u) = {}
      BY <1>2, SummarizeKept
    <3>2. shorter = u
      BY <2>1
    <3> HIDE DEF u, shorter, over
    <3>3. y = Resummed(important, u, x)
      BY <1>2, <3>2 DEF Resummed
    <3>4. Len(u.messages) \in Nat /\ Len(important.messages) \in Nat /\ Len(w.messages) \in Nat
      BY <1>2, <3>1, KeptTypes
    <3>5. Len(u.messages) <= Len(w.messages)
      BY <1>2, <3>1, <3>4
    <3> HIDE DEF y
    <3>6. QED
      BY <1>2, <3>1, <3>2, <3>3, <3>5
  <2>2. CASE ~over
    <3>1. shorter = important
      BY <2>2
    <3> HIDE DEF shorter, over
    <3>2. y = x
      BY <1>2, <3>1 DEF Resummed
    <3> HIDE DEF y
    <3>3. QED
      BY <1>2, <2>2, <3>1, <3>2
  <2>3. QED
    BY <2>1, <2>2
<1>3a. ~over => shorter = important
  OBVIOUS
<1> HIDE DEF shorter, y
<1>4. Len(w.messages) \in Nat /\ shorter.config.recent = w.config.recent
  BY <1>3, KeptTypes
<1>5. /\ Kept(v, told) /\ Counted(v, y)
      /\ v.config = shorter.config /\ v.summary = shorter.summary /\ v.tokens <= shorter.tokens
      /\ Window!OverBudget(v) =>
           \/ Len(v.messages) <= shorter.config.recent
           \/ Len(v.messages) > 0 /\ v.messages[1].pinned
      /\ \E gone : gone \subseteq Window!Unprotected(shorter) /\ v = Window!Without(shorter, gone)
  BY <1>3, <1>4, EvictKept
<1> HIDE DEF v
<1>6. Resummed(w, v, x) = y
  BY <1>5 DEF Resummed, y
<1>7. ASSUME Window!OverBudget(v)
      PROVE  IF v.config.summarize THEN Window!Unprotected(v) = {}
             ELSE /\ \A i \in Window!Unprotected(v) : v.messages[i].importance >= v.config.threshold
                  /\ Window!Protected(v, 1)
  <2>1. PICK gone : v = Window!Without(shorter, gone)
    BY <1>5
  <2>2. shorter \in WindowRecord /\ shorter.tokens \in Nat /\ v.tokens \in Nat
        /\ v.config.max \in Nat /\ v.config.recent \in Nat /\ Len(v.messages) \in Nat
    BY <1>3, <1>5, KeptTypes
  <2>3. \A i \in Window!Unprotected(v) :
          \E k \in Window!Unprotected(shorter) : v.messages[i] = shorter.messages[k]
    BY <2>1, <2>2, UnprotectedRemain
  <2>4. CASE v.config.summarize
    <3>1. over
      <4>1. CASE ~over
        <5>1. shorter = important /\ ~ Window!OverBudget(important)
          BY <1>3, <1>3a, <1>5, <2>4, <4>1
        <5>2. ~ Window!OverBudget(shorter)
          BY <5>1
        <5>3. ~ Window!OverBudget(v)
          BY <1>3, <1>5, <2>2, <5>2 DEF Window!OverBudget
        <5>4. QED
          BY <1>7, <5>3
      <4>2. QED
        BY <4>1
    <3>2. Window!Unprotected(shorter) = {}
      BY <1>3, <3>1
    <3>3. QED
      BY <2>3, <2>4, <3>2
  <2>5. CASE ~ v.config.summarize
    <3>1. shorter = important
      BY <1>3, <1>3a, <1>5, <2>5
    <3>2. \A i \in Window!Unprotected(v) : v.messages[i].importance >= v.config.threshold
      <4> TAKE i \in Window!Unprotected(v)
      <4>1. PICK k \in Window!Unprotected(important) : v.messages[i] = important.messages[k]
        BY <2>3, <3>1
      <4>2. important.messages[k].importance >= important.config.threshold
        BY <1>2
      <4>3. QED
        BY <1>5, <3>1, <4>1, <4>2
    <3>3. Window!Protected(v, 1)
      <4>1. CASE Len(v.messages) <= shorter.config.recent
        <5>1. 1 > Len(v.messages) - v.config.recent
          BY <1>5, <2>2, <4>1
        <5>2. QED
          BY <5>1 DEF Window!Protected
      <4>2. CASE Len(v.messages) > 0 /\ v.messages[1].pinned
        BY <4>2 DEF Window!Protected
      <4>3. QED
        BY <1>5, <1>7, <4>1, <4>2
    <3>4. QED
      BY <2>5, <3>2, <3>3
  <2>6. QED
    BY <2>4, <2>5
<1>8. Exhausted(v)
  BY <1>7 DEF Exhausted
<1>9. QED
  BY <1>1, <1>3, <1>5, <1>6, <1>8

\* One message more, and the compression it may start.
LEMMA AddMessageKept ==
  ASSUME NEW w, NEW told, Kept(w, told), NEW x \in Nat, Counted(w, x),
         NEW m \in Message, m.content = Len(told) + 1
  PROVE  LET v == Window!AddMessage(w, m)
         IN  /\ Kept(v, Append(told, m)) /\ Counted(v, Resummed(w, v, x))
             /\ Resummed(w, v, x) \in Nat
             /\ v.config = w.config /\ Exhausted(v)
<1> DEFINE longer == [w EXCEPT !.messages = Append(@, m), !.tokens = @ + m.tokens]
           v == Window!AddMessage(w, m)
           told2 == Append(told, m)
           n == Len(w.messages)
<1>1. v = IF Window!OverBudget(longer) THEN Window!Compress(longer) ELSE longer
  BY DEF Window!AddMessage
<1>2. /\ w \in WindowRecord /\ w.messages \in Seq(Message) /\ n \in Nat
      /\ w.tokens \in Nat /\ w.config.recent \in Nat /\ told \in Seq(Message) /\ Len(told) \in Nat
      /\ w.config \in Window!WindowConfig
  BY KeptTypes
<1>3. m.tokens \in Nat
  BY DEF Message, Window!Message
<1>4. longer = [config |-> w.config, messages |-> Append(w.messages, m),
                summary |-> w.summary, tokens |-> w.tokens + m.tokens]
  <2>1. /\ DOMAIN w = {"config", "messages", "summary", "tokens"}
        /\ w = [config |-> w.config, messages |-> w.messages, summary |-> w.summary, tokens |-> w.tokens]
    BY <1>2 DEF WindowRecord
  <2> DEFINE a == Append(w.messages, m)
             b == w.tokens + m.tokens
  <2>2. longer = [w EXCEPT !.messages = a, !.tokens = b]
    OBVIOUS
  <2> HIDE DEF a, b, longer
  <2>3. longer = [config |-> w.config, messages |-> a, summary |-> w.summary, tokens |-> b]
    BY <2>1, <2>2
  <2>4. QED
    BY <2>3 DEF a, b
<1> HIDE DEF longer, v
<1>5. /\ longer.config = w.config /\ longer.messages = Append(w.messages, m)
      /\ longer.summary = w.summary /\ longer.tokens = w.tokens + m.tokens
  BY <1>4
<1>6. /\ Append(w.messages, m) \in Seq(Message) /\ Len(Append(w.messages, m)) = n + 1
      /\ \A j \in 1..n : Append(w.messages, m)[j] = w.messages[j]
      /\ Append(w.messages, m)[n + 1] = m
  BY <1>2
<1>7. /\ told2 \in Seq(Message) /\ Len(told2) = Len(told) + 1
      /\ \A i \in 1..Len(told) : told2[i] = told[i]
      /\ told2[Len(told) + 1] = m
  BY <1>2
<1>8. longer \in WindowRecord
  <2>1. w.tokens + m.tokens \in Nat /\ w.summary \in [of : SUBSET Nat, tokens : Nat] \cup {None}
    BY <1>2, <1>3 DEF WindowRecord
  <2>2. QED
    BY <1>2, <1>4, <1>6, <2>1 DEF WindowRecord
<1>9. /\ Told(told) /\ InOrder(w.messages) /\ Held(w.messages, told)
      /\ Spared(w.messages, told, w.config.recent) /\ SummaryApart(w, told)
  BY DEF Kept
<1> HIDE DEF told2, n
<1>10. Told(told2)
  <2> SUFFICES ASSUME NEW i \in 1..Len(told2) PROVE told2[i].content = i
    BY <1>7 DEF Told
  <2>1. CASE i \in 1..Len(told)
    BY <1>7, <1>9, <2>1 DEF Told
  <2>2. CASE i = Len(told) + 1
    BY <1>7, <2>2
  <2>3. QED
    BY <1>2, <1>7, <2>1, <2>2
<1>11. InOrder(longer.messages)
  <2> SUFFICES ASSUME NEW i \in 1..(n + 1), NEW j \in 1..(n + 1), i < j
               PROVE  longer.messages[i].content < longer.messages[j].content
    BY <1>5, <1>6 DEF InOrder
  <2>1. i \in 1..n /\ longer.messages[i] = w.messages[i]
    BY <1>2, <1>5, <1>6
  <2>2. w.messages[i].content \in 1..Len(told)
    BY <1>9, <2>1 DEF Held, n
  <2>3. CASE j \in 1..n
    <3>1. longer.messages[j] = w.messages[j]
      BY <1>5, <1>6, <2>3
    <3>2. QED
      BY <1>9, <2>1, <2>3, <3>1 DEF InOrder, n
  <2>4. CASE j = n + 1
    <3>1. longer.messages[j].content = Len(told) + 1
      BY <1>5, <1>6, <2>4
    <3>2. QED
      BY <1>2, <2>1, <2>2, <3>1
  <2>5. QED
    BY <1>2, <2>3, <2>4
<1>12. Held(longer.messages, told2)
  <2> SUFFICES ASSUME NEW j \in 1..(n + 1)
               PROVE  /\ longer.messages[j].content \in 1..Len(told2)
                      /\ longer.messages[j] = told2[longer.messages[j].content]
    BY <1>5, <1>6 DEF Held
  <2>1. CASE j \in 1..n
    <3>1. longer.messages[j] = w.messages[j]
      BY <1>5, <1>6, <2>1
    <3>2. w.messages[j].content \in 1..Len(told) /\ w.messages[j] = told[w.messages[j].content]
      BY <1>9, <2>1 DEF Held, n
    <3>3. QED
      BY <1>2, <1>7, <3>1, <3>2
  <2>2. CASE j = n + 1
    <3>1. longer.messages[j] = m
      BY <1>5, <1>6, <2>2
    <3>2. QED
      BY <1>2, <1>7, <3>1
  <2>3. QED
    BY <1>2, <2>1, <2>2
<1>13. Spared(longer.messages, told2, longer.config.recent)
  <2> SUFFICES ASSUME NEW i \in 1..Len(told2),
                      told2[i].pinned \/ i > Len(told2) - w.config.recent
               PROVE  \E j \in 1..(n + 1) : longer.messages[j] = told2[i]
    BY <1>5, <1>6 DEF Spared
  <2>1. CASE i = Len(told) + 1
    <3>1. n + 1 \in 1..(n + 1) /\ longer.messages[n + 1] = told2[i]
      BY <1>2, <1>5, <1>6, <1>7, <2>1
    <3>2. QED
      BY <3>1
  <2>2. CASE i \in 1..Len(told)
    <3>1. told2[i] = told[i]
      BY <1>7, <2>2
    <3>2. told[i].pinned \/ i > Len(told) - w.config.recent
      BY <1>2, <1>7, <2>2, <3>1
    <3>3. PICK j \in 1..n : w.messages[j] = told[i]
      BY <1>9, <2>2, <3>2 DEF Spared, n
    <3>4. j \in 1..(n + 1) /\ longer.messages[j] = told2[i]
      BY <1>2, <1>5, <1>6, <3>1, <3>3
    <3>5. QED
      BY <3>4
  <2>3. QED
    BY <1>2, <1>7, <2>1, <2>2
<1>14. SummaryApart(longer, told2)
  <2> SUFFICES ASSUME w.summary # None
               PROVE  /\ w.summary.of # {} /\ w.summary.of \subseteq 1..(Len(told) + 1)
                      /\ \A j \in 1..(n + 1) : longer.messages[j].content \notin w.summary.of
    BY <1>5, <1>6, <1>7 DEF SummaryApart
  <2>1. /\ w.summary.of # {} /\ w.summary.of \subseteq 1..Len(told)
        /\ \A j \in 1..n : w.messages[j].content \notin w.summary.of
    BY <1>9 DEF SummaryApart, n
  <2>2. w.summary.of \subseteq 1..(Len(told) + 1) /\ Len(told) + 1 \notin w.summary.of
    BY <1>2, <2>1
  <2>3. ASSUME NEW j \in 1..(n + 1) PROVE longer.messages[j].content \notin w.summary.of
    <3>1. CASE j \in 1..n
      BY <1>5, <1>6, <2>1, <3>1
    <3>2. CASE j = n + 1
      BY <1>5, <1>6, <2>2, <3>2
    <3>3. QED
      BY <1>2, <3>1, <3>2
  <2>4. QED
    BY <2>1, <2>2, <2>3
<1>15. Kept(longer, told2)
  BY <1>5, <1>8, <1>10, <1>11, <1>12, <1>13, <1>14 DEF Kept
<1>16. Counted(longer, x)
  <2>1. /\ Window!TokensOf(w.messages) \in Nat
        /\ Window!TokensOf(Append(w.messages, m)) = Window!TokensOf(w.messages) + m.tokens
    BY <1>2, TokensAppend
  <2>2. QED
    BY <1>3, <1>5, <2>1 DEF Counted
<1>17. CASE Window!OverBudget(longer)
  <2>1. v = Window!Compress(longer)
    BY <1>1, <1>17
  <2>2. /\ Kept(v, told2) /\ Counted(v, Resummed(longer, v, x)) /\ Resummed(longer, v, x) \in Nat
        /\ v.config = longer.config /\ Exhausted(v)
    BY <1>15, <1>16, <2>1, CompressKept
  <2>3. Resummed(longer, v, x) = Resummed(w, v, x)
    BY <1>5 DEF Resummed
  <2>4. QED
    BY <1>5, <2>2, <2>3 DEF v, told2
<1>18. CASE ~ Window!OverBudget(longer)
  <2>1. v = longer
    BY <1>1, <1>18
  <2>2. Resummed(w, v, x) = x
    BY <1>5, <2>1 DEF Resummed
  <2>3. Exhausted(v)
    BY <1>18, <2>1 DEF Exhausted
  <2>4. QED
    BY <1>5, <1>15, <1>16, <2>1, <2>2, <2>3 DEF v, told2
<1>19. QED
  BY <1>17, <1>18

-----------------------------------------------------------------------------
(* Texts *)
Segment == Prompt!Segment

LEMMA PromptMax == \A t : Prompt!Max(t) = Max(t)
BY DEF Prompt!Max, Max

LEMMA FoldAdds ==
  ASSUME NEW n \in Nat, NEW size \in [1..n -> Nat], NEW iter, Adds(iter, n, size)
  PROVE  iter[1..n] \in Nat
<1>1. PICK p : Adding(p, n, size) /\ iter[1..n] = p[n]
  BY AddsUp
<1>2. QED
  BY <1>1 DEF Adding

LEMMA BytesTyped == ASSUME NEW text \in Seq(Segment) PROVE Prompt!BytesIn(text) \in Nat
<1> DEFINE n == Len(text)
           size == [i \in 1..n |-> text[i].bytes]
           Raw(g) == g = [t \in SUBSET DOMAIN text |->
                            IF t = {} THEN 0
                            ELSE g[t \ {Prompt!Max(t)}] + text[Prompt!Max(t)].bytes]
           iter == CHOOSE g : Raw(g)
<1>1. n \in Nat /\ DOMAIN text = 1..n /\ \A i \in 1..n : text[i].bytes \in Nat
  <2>1. \A x \in Segment : x.bytes \in Nat
    <3>1. \A x \in [ref : {FALSE}, name : {""}, exact : {TRUE}, bytes : Nat] : x.bytes \in Nat
      OBVIOUS
    <3>2. \A x \in [ref : {TRUE}, name : STRING, exact : BOOLEAN, bytes : {4}] : x.bytes \in Nat
      OBVIOUS
    <3>3. QED
      BY <3>1, <3>2 DEF Segment, Prompt!Segment
  <2>2. n \in Nat /\ DOMAIN text = 1..n /\ \A i \in 1..n : text[i] \in Segment
    OBVIOUS
  <2>3. QED
    BY <2>1, <2>2
<1>2. \A g : Raw(g) <=> Adds(g, n, size)
  <2>1. \A t \in SUBSET (1..n) : t # {} => size[Max(t)] = text[Max(t)].bytes
    BY <1>1, MaxUpTo
  <2> HIDE DEF size, n
  <2>2. QED
    BY <1>1, <2>1, PromptMax DEF Adds
<1>3. Prompt!BytesIn(text) = iter[DOMAIN text]
  BY DEF Prompt!BytesIn, Prompt!FoldLeft, Prompt!MapThenFoldSet
<1>4. size \in [1..n -> Nat]
  BY <1>1
<1> HIDE DEF n, size, Raw
<1>5. Adds(iter, n, size)
  BY <1>1, <1>2, <1>4, AddsUp
<1> HIDE DEF iter
<1>6. iter[1..n] \in Nat
  BY <1>1, <1>4, <1>5, FoldAdds
<1>7. QED
  BY <1>1, <1>3, <1>6

\* What a concatenation of sequences is made of.
Flat(f, seqs) == f = [i \in 1..Len(seqs) |-> IF i = 1 THEN seqs[i] ELSE f[i - 1] \o seqs[i]]

LEMMA FlatExists ==
  ASSUME NEW T, NEW seqs \in Seq(Seq(T))
  PROVE  \E f : Flat(f, seqs)
<1> DEFINE n == Len(seqs)
           step == [x \in Seq(T) \X (1..n) |-> x[1] \o seqs[x[2]]]
<1>1. n \in Nat /\ (\A i \in 1..n : seqs[i] \in Seq(T)) /\ <<>> \in Seq(T)
  OBVIOUS
<1>2. step \in [Seq(T) \X (1..n) -> Seq(T)]
  <2>1. \A x \in Seq(T) \X (1..n) : x[1] \in Seq(T) /\ x[2] \in 1..n
    OBVIOUS
  <2>2. \A y \in Seq(T), i \in 1..n : y \o seqs[i] \in Seq(T)
    BY <1>1
  <2> HIDE DEF n
  <2>3. QED
    BY <2>1, <2>2
<1> HIDE DEF n, step
<1>3. PICK g : Fold(g, Seq(T), n, <<>>, step)
  BY <1>1, <1>2, FoldExists
<1> DEFINE f == [i \in 1..n |-> g[1..i]]
<1>4. g[1..0] = <<>>
  <2>1. 1..0 = {} /\ 1..0 \in SUBSET (1..n)
    OBVIOUS
  <2>2. QED
    BY <1>3, <2>1 DEF Fold
<1>5. ASSUME NEW i \in 1..n
      PROVE  f[i] = IF i = 1 THEN seqs[i] ELSE f[i - 1] \o seqs[i]
  <2>0. i \in Nat /\ 1 <= i /\ i <= n
    BY <1>1
  <2>1. i - 1 \in Nat /\ (i - 1) + 1 = i /\ 1..i \in SUBSET (1..n) /\ 1..i # {}
        /\ 1..(i - 1) \in SUBSET (1..n)
    <3>1. i - 1 \in Nat /\ (i - 1) + 1 = i /\ i \in 1..i
      BY <2>0
    <3>2. 1..i \in SUBSET (1..n)
      BY <1>1, <2>0
    <3>3. 1..(i - 1) \in SUBSET (1..n)
      BY <1>1, <2>0
    <3>4. QED
      BY <3>1, <3>2, <3>3
  <2>2. Max(1..i) = i /\ (1..i) \ {i} = 1..(i - 1)
    BY <2>1, MaxOfInterval
  <2>3. g[1..i] = step[<<g[(1..i) \ {Max(1..i)}], Max(1..i)>>]
    BY <1>3, <2>1 DEF Fold
  <2>4. g[1..(i - 1)] \in Seq(T)
    BY <1>3, <2>1 DEF Fold
  <2>5. g[1..i] = g[1..(i - 1)] \o seqs[i]
    BY <2>2, <2>3, <2>4 DEF step
  <2>6. CASE i = 1
    <3>1. g[1..(i - 1)] = <<>> /\ <<>> \o seqs[i] = seqs[i]
      BY <1>1, <1>4, <2>6
    <3>2. QED
      BY <2>5, <2>6, <3>1
  <2>7. CASE i # 1
    <3>1. i - 1 \in 1..n
      BY <1>1, <2>7
    <3>2. QED
      BY <2>5, <2>7, <3>1
  <2>8. QED
    BY <2>6, <2>7
<1>6. f = [i \in 1..n |-> IF i = 1 THEN seqs[i] ELSE f[i - 1] \o seqs[i]]
  <2>1. f = [i \in 1..n |-> f[i]]
    OBVIOUS
  <2> HIDE DEF f
  <2>2. QED
    BY <1>5, <2>1
<1> HIDE DEF f
<1>7. Flat(f, seqs)
  BY <1>6 DEF Flat, n
<1>8. QED
  BY <1>7

LEMMA FlattenIs ==
  ASSUME NEW T, NEW seqs \in Seq(Seq(T))
  PROVE  /\ Prompt!FlattenSeq(seqs) \in Seq(T)
         /\ \A x \in ToSet(Prompt!FlattenSeq(seqs)) : \E i \in 1..Len(seqs) : x \in ToSet(seqs[i])
<1> DEFINE n == Len(seqs)
           f == CHOOSE g : Flat(g, seqs)
<1>1. n \in Nat /\ (\A i \in 1..n : seqs[i] \in Seq(T))
  OBVIOUS
<1>2. CASE n = 0
  <2>1. Prompt!FlattenSeq(seqs) = seqs /\ seqs = <<>>
    BY <1>2 DEF Prompt!FlattenSeq
  <2>2. QED
    BY <2>1 DEF ToSet
<1>3. CASE n # 0
  <2>1. Prompt!FlattenSeq(seqs) = f[n]
    BY <1>3 DEF Prompt!FlattenSeq, Flat
  <2>2. Flat(f, seqs)
    BY FlatExists
  <2> HIDE DEF f
  <2>3. \A i \in 1..n : f[i] = IF i = 1 THEN seqs[i] ELSE f[i - 1] \o seqs[i]
    BY <2>2 DEF Flat
  <2> DEFINE S == {k \in Nat : k + 1 <= n =>
                     /\ f[k + 1] \in Seq(T)
                     /\ \A x \in ToSet(f[k + 1]) : \E i \in 1..n : x \in ToSet(seqs[i])}
  <2>4. 0 \in S
    <3>1. 1 \in 1..n /\ f[1] = seqs[1]
      BY <1>1, <1>3, <2>3
    <3>2. QED
      BY <1>1, <3>1
  <2>5. ASSUME NEW k \in Nat, k < n, k \in S PROVE k + 1 \in S
    <3> SUFFICES ASSUME (k + 1) + 1 <= n
                 PROVE  /\ f[(k + 1) + 1] \in Seq(T)
                        /\ \A x \in ToSet(f[(k + 1) + 1]) : \E i \in 1..n : x \in ToSet(seqs[i])
      OBVIOUS
    <3> DEFINE a == f[k + 1]
               b == seqs[(k + 1) + 1]
    <3>1. (k + 1) + 1 \in 1..n /\ ((k + 1) + 1) - 1 = k + 1 /\ (k + 1) + 1 # 1
      BY <1>1
    <3>2. f[(k + 1) + 1] = a \o b
      BY <2>3, <3>1
    <3>3. a \in Seq(T) /\ b \in Seq(T) /\ \A x \in ToSet(a) : \E i \in 1..n : x \in ToSet(seqs[i])
      BY <1>1, <2>5, <3>1
    <3>4. ASSUME NEW x \in ToSet(a \o b) PROVE \E i \in 1..n : x \in ToSet(seqs[i])
      <4> HIDE DEF a, b
      <4>1. PICK j \in 1..Len(a \o b) : x = (a \o b)[j]
        BY <3>3 DEF ToSet
      <4>2. x \in ToSet(a) \/ x \in ToSet(b)
        <5>1. Len(a \o b) = Len(a) + Len(b) /\ Len(a) \in Nat /\ Len(b) \in Nat
          BY <3>3
        <5>2. CASE j <= Len(a)
          <6>1. j \in 1..Len(a) /\ x = a[j]
            BY <3>3, <4>1, <5>1, <5>2
          <6>2. QED
            BY <3>3, <6>1 DEF ToSet
        <5>3. CASE j > Len(a)
          <6>1. j - Len(a) \in 1..Len(b) /\ x = b[j - Len(a)]
            BY <3>3, <4>1, <5>1, <5>3
          <6>2. QED
            BY <3>3, <6>1 DEF ToSet
        <5>4. QED
          BY <4>1, <5>1, <5>2, <5>3
      <4>3. QED
        BY <3>1, <3>3, <4>2 DEF b
    <3>5. a \o b \in Seq(T)
      BY <3>3
    <3> HIDE DEF a, b
    <3>6. QED
      BY <3>2, <3>4, <3>5
  <2>6. \A k \in 0..n : k \in S
    <3> HIDE DEF S
    <3>1. QED
      BY <1>1, <2>4, <2>5, Along
  <2>7. n - 1 \in 0..n /\ (n - 1) + 1 = n
    BY <1>1, <1>3
  <2>8. n - 1 \in S
    BY <2>6, <2>7
  <2>9. f[n] \in Seq(T) /\ \A x \in ToSet(f[n]) : \E i \in 1..n : x \in ToSet(seqs[i])
    BY <1>1, <2>7, <2>8
  <2>10. QED
    BY <2>1, <2>9
<1>4. QED
  BY <1>2, <1>3

\* The references of a text, as a selection.
LEMMA ReferencesIs ==
  ASSUME NEW text \in Seq(Segment)
  PROVE  /\ Prompt!References(text) \in Seq(Segment)
         /\ \A x \in ToSet(Prompt!References(text)) : x.ref
         /\ \A x \in ToSet(text) : x.ref => x \in ToSet(Prompt!References(text))
<1> DEFINE I == {i \in 1..Len(text) : text[i].ref}
           Raw(g) == g = [t \in SUBSET DOMAIN text |->
                            IF t = {} THEN <<>>
                            ELSE IF text[Prompt!Max(t)].ref
                                 THEN Append(g[t \ {Prompt!Max(t)}], text[Prompt!Max(t)])
                                 ELSE g[t \ {Prompt!Max(t)}]]
           iter == CHOOSE g : Raw(g)
           r == Prompt!References(text)
<1>1. DOMAIN text = 1..Len(text) /\ Len(text) \in Nat
  OBVIOUS
<1>2. \A g : Raw(g) <=> Takes(g, text, I)
  <2>1. \A t \in SUBSET (1..Len(text)) : t # {} => (text[Max(t)].ref <=> Max(t) \in I)
    BY <1>1, MaxUpTo
  <2> HIDE DEF I
  <2>2. QED
    BY <1>1, <2>1, PromptMax DEF Takes
<1>3. r = iter[DOMAIN text]
  BY DEF Prompt!References, Prompt!FoldLeft, Prompt!MapThenFoldSet
<1> HIDE DEF Raw
<1>4. Takes(iter, text, I)
  <2> HIDE DEF I
  <2>1. QED
    BY <1>2, FoldTakes
<1> HIDE DEF iter, I
<1>5. PICK h : Taken(h, Segment, text, I) /\ iter[1..Len(text)] = h[Len(text)]
  BY <1>4, FoldTakes, ZenonT(40)
<1> USE DEF I
<1>6. r \in Seq(Segment) /\ r = h[Len(text)]
  BY <1>1, <1>3, <1>5 DEF Taken
<1>7. PICK q : Places(q, Len(text), text, I, r)
  BY <1>5, <1>6, TakenPlaces
<1> HIDE DEF r
<1>8. /\ \A j \in 1..Len(r) : q[j] \in I /\ r[j] = text[q[j]]
      /\ \A i \in I : \E j \in 1..Len(r) : r[j] = text[i]
  BY <1>7 DEF Places
<1>9. DOMAIN r = 1..Len(r)
  BY <1>6
<1>10. \A x \in ToSet(r) : x.ref
  BY <1>8, <1>9 DEF ToSet
<1>11. \A x \in ToSet(text) : x.ref => x \in ToSet(r)
  <2> TAKE x \in ToSet(text)
  <2> HAVE x.ref
  <2>1. PICK i \in 1..Len(text) : x = text[i]
    BY <1>1 DEF ToSet
  <2>2. i \in I
    BY <2>1
  <2>3. PICK j \in 1..Len(r) : r[j] = x
    BY <1>8, <2>1, <2>2
  <2>4. QED
    BY <1>9, <2>3 DEF ToSet
<1>12. QED
  BY <1>6, <1>10, <1>11 DEF r

\* A replacement brings in the value and leaves what it does not replace.
LEMMA ReplaceIs ==
  ASSUME NEW text \in Seq(Segment), NEW name, NEW value \in Seq(Segment)
  PROVE  /\ Prompt!Replace(text, name, value) \in Seq(Segment)
         /\ \A x \in ToSet(Prompt!Replace(text, name, value)) :
              x \in ToSet(value) \/ (x \in ToSet(text) /\ x # Prompt!Ref(name))
<1> DEFINE pieces == [i \in DOMAIN text |-> IF text[i] = Prompt!Ref(name) THEN value ELSE <<text[i]>>]
           r == Prompt!FlattenSeq(pieces)
<1>1. DOMAIN text = 1..Len(text) /\ Len(text) \in Nat /\ \A i \in 1..Len(text) : text[i] \in Segment
  OBVIOUS
<1>2. pieces \in Seq(Seq(Segment)) /\ Len(pieces) = Len(text)
  <2>1. \A i \in 1..Len(text) : pieces[i] \in Seq(Segment)
    BY <1>1
  <2>2. pieces = [i \in 1..Len(text) |-> pieces[i]]
    BY <1>1
  <2> HIDE DEF pieces
  <2>3. QED
    BY <1>1, <2>1, <2>2
<1>3. Prompt!Replace(text, name, value) = r
  BY DEF Prompt!Replace
<1>4. ASSUME NEW i \in 1..Len(text), NEW x \in ToSet(pieces[i])
      PROVE  x \in ToSet(value) \/ (x \in ToSet(text) /\ x # Prompt!Ref(name))
  <2>1. CASE text[i] = Prompt!Ref(name)
    BY <1>1, <1>4, <2>1
  <2>2. CASE text[i] # Prompt!Ref(name)
    <3>1. pieces[i] = <<text[i]>>
      BY <1>1, <2>2
    <3> HIDE DEF pieces
    <3>2. x \in ToSet(<<text[i]>>)
      BY <1>4, <3>1
    <3>3. x = text[i]
      BY <3>2 DEF ToSet
    <3>4. QED
      BY <1>1, <2>2, <3>3 DEF ToSet
  <2>3. QED
    BY <2>1, <2>2
<1> HIDE DEF pieces
<1>5. r \in Seq(Segment) /\ \A x \in ToSet(r) : \E i \in 1..Len(pieces) : x \in ToSet(pieces[i])
  BY <1>2, FlattenIs
<1>6. QED
  BY <1>2, <1>3, <1>4, <1>5

\* A value refers to a variable.
InValues(template, runtime, x) ==
  \E values \in {template.variables, runtime} :
    \E name \in DOMAIN values : x \in ToSet(values[name])

LEMMA ValueIs ==
  ASSUME NEW template, NEW runtime, Prompt!TextsIn(template.variables), Prompt!TextsIn(runtime),
         NEW name
  PROVE  /\ Prompt!ValueOf(template, runtime, name) \in Seq(Segment)
         /\ \A x \in ToSet(Prompt!ValueOf(template, runtime, name)) : InValues(template, runtime, x)
<1> DEFINE v == Prompt!ValueOf(template, runtime, name)
<1>1. CASE name \in DOMAIN runtime
  <2>1. v = runtime[name]
    BY <1>1 DEF Prompt!ValueOf
  <2>2. QED
    BY <1>1, <2>1 DEF Prompt!TextsIn, InValues, Segment
<1>2. CASE name \notin DOMAIN runtime /\ name \in DOMAIN template.variables
  <2>1. v = template.variables[name]
    BY <1>2 DEF Prompt!ValueOf
  <2>2. QED
    BY <1>2, <2>1 DEF Prompt!TextsIn, InValues, Segment
<1>3. CASE name \notin DOMAIN runtime /\ name \notin DOMAIN template.variables
  <2>1. v = <<>>
    BY <1>3 DEF Prompt!ValueOf
  <2>2. QED
    BY <2>1 DEF ToSet
<1>4. QED
  BY <1>1, <1>2, <1>3

\* A rendered text: what is still a reference, spelled without spaces, has come
\* with a value.
LEMMA RenderIs ==
  ASSUME NEW template, NEW runtime, template.text \in Seq(Segment),
         Prompt!TextsIn(template.variables), Prompt!TextsIn(runtime),
         NEW text, text = Prompt!RenderWith(template, runtime), text # None
  PROVE  /\ text \in Seq(Segment)
         /\ \A x \in ToSet(text) : x.ref /\ x.exact => InValues(template, runtime, x)
<1> DEFINE refs == Prompt!References(template.text)
           n == Len(refs)
           Value(name) == Prompt!ValueOf(template, runtime, name)
           Raw(g) == g = [t \in SUBSET DOMAIN refs |->
                            IF t = {} THEN template.text
                            ELSE Prompt!Replace(g[t \ {Prompt!Max(t)}], refs[Prompt!Max(t)].name,
                                                Prompt!ValueOf(template, runtime, refs[Prompt!Max(t)].name))]
           Iter(g) == g = [t \in SUBSET (1..n) |->
                             IF t = {} THEN template.text
                             ELSE Prompt!Replace(g[t \ {Max(t)}], refs[Max(t)].name,
                                                 Value(refs[Max(t)].name))]
           iter == CHOOSE g : Raw(g)
           step == [x \in Seq(Segment) \X (1..n) |->
                      Prompt!Replace(x[1], refs[x[2]].name, Value(refs[x[2]].name))]
<1>1. text = iter[DOMAIN refs]
  BY DEF Prompt!RenderWith, Prompt!FoldLeft, Prompt!MapThenFoldSet
<1> HIDE DEF iter
<1>2. /\ refs \in Seq(Segment) /\ \A x \in ToSet(refs) : x.ref
      /\ \A x \in ToSet(template.text) : x.ref => x \in ToSet(refs)
  BY ReferencesIs
<1> HIDE DEF refs
<1>3. DOMAIN refs = 1..n /\ n \in Nat
  BY <1>2
<1>4. \A g : Raw(g) <=> Iter(g)
  BY <1>3, PromptMax
<1>5. \A name : Value(name) \in Seq(Segment) /\ \A x \in ToSet(Value(name)) : InValues(template, runtime, x)
  BY ValueIs
<1> HIDE DEF Value, n
<1>6. \E g : Iter(g)
  <2>1. step \in [Seq(Segment) \X (1..n) -> Seq(Segment)]
    <3>1. \A x \in Seq(Segment) \X (1..n) : x[1] \in Seq(Segment)
      OBVIOUS
    <3>2. \A y \in Seq(Segment) : \A name : Prompt!Replace(y, name, Value(name)) \in Seq(Segment)
      BY <1>5, ReplaceIs
    <3>3. QED
      BY <3>1, <3>2
  <2> HIDE DEF step
  <2>2. PICK g : Fold(g, Seq(Segment), n, template.text, step)
    BY <1>3, <2>1, FoldExists
  <2>3. ASSUME NEW t \in SUBSET (1..n)
        PROVE  g[t] = IF t = {} THEN template.text
                      ELSE Prompt!Replace(g[t \ {Max(t)}], refs[Max(t)].name, Value(refs[Max(t)].name))
    <3>1. CASE t = {}
      BY <2>2, <3>1 DEF Fold
    <3>2. CASE t # {}
      <4>1. Max(t) \in 1..n /\ t \ {Max(t)} \in SUBSET (1..n)
        BY <1>3, <3>2, MaxUpTo
      <4>2. g[t \ {Max(t)}] \in Seq(Segment)
        BY <2>2, <4>1 DEF Fold
      <4>3. g[t] = step[<<g[t \ {Max(t)}], Max(t)>>]
        BY <2>2, <3>2 DEF Fold
      <4>4. step[<<g[t \ {Max(t)}], Max(t)>>] =
              Prompt!Replace(g[t \ {Max(t)}], refs[Max(t)].name, Value(refs[Max(t)].name))
        BY <4>1, <4>2 DEF step
      <4>5. QED
        BY <3>2, <4>3, <4>4
    <3>3. QED
      BY <3>1, <3>2
  <2>4. g = [t \in SUBSET (1..n) |-> g[t]]
    BY <2>2 DEF Fold
  <2>5. Iter(g)
    BY <2>3, <2>4
  <2>6. QED
    BY <2>5
<1>7. Iter(iter)
  <2> HIDE DEF Raw, Iter
  <2>1. QED
    BY <1>4, <1>6 DEF iter
<1> DEFINE Left(k) == \A x \in ToSet(iter[1..k]) :
                        x.ref /\ x.exact => \/ InValues(template, runtime, x)
                                            \/ \E i \in (k + 1)..n : x = Prompt!Ref(refs[i].name)
           S == {k \in Nat : iter[1..k] \in Seq(Segment) /\ Left(k)}
<1>8. 0 \in S
  <2>1. iter[1..0] = template.text
    <3>1. 1..0 = {} /\ 1..0 \in SUBSET (1..n)
      OBVIOUS
    <3>2. QED
      BY <1>7, <3>1
  <2>2. ASSUME NEW x \in ToSet(template.text), x.ref, x.exact
        PROVE  \E i \in 1..n : x = Prompt!Ref(refs[i].name)
    <3>1. PICK i \in 1..n : x = refs[i]
      BY <1>2, <1>3, <2>2 DEF ToSet
    <3>2. x \in Segment
      BY <1>2, <1>3, <3>1 DEF n
    <3>3. x = [ref |-> TRUE, name |-> x.name, exact |-> TRUE, bytes |-> 4]
      <4>1. x \notin [ref : {FALSE}, name : {""}, exact : {TRUE}, bytes : Nat]
        BY <2>2
      <4>2. x \in [ref : {TRUE}, name : STRING, exact : BOOLEAN, bytes : {4}]
        BY <3>2, <4>1 DEF Segment, Prompt!Segment
      <4>3. QED
        BY <2>2, <4>2
    <3>4. QED
      BY <3>1, <3>3 DEF Prompt!Ref
  <2>3. Left(0)
    BY <2>1, <2>2
  <2> HIDE DEF Left
  <2>4. QED
    BY <2>1, <2>3
<1>9. ASSUME NEW k \in Nat, k < n, k \in S PROVE k + 1 \in S
  <2> DEFINE name == refs[k + 1].name
             old == iter[1..k]
  <2>1. 1..(k + 1) \in SUBSET (1..n) /\ 1..(k + 1) # {}
    <3> HIDE DEF S
    <3>1. k \in Nat /\ n \in Nat /\ k < n
      BY <1>3, <1>9
    <3>2. \A i \in 1..(k + 1) : i \in 1..n
      BY <3>1
    <3>3. 1 \in 1..(k + 1)
      BY <3>1
    <3>4. QED
      BY <3>2, <3>3
  <2>2. Max(1..(k + 1)) = k + 1 /\ (1..(k + 1)) \ {k + 1} = 1..k
    BY MaxOfInterval
  <2>3. iter[1..(k + 1)] = Prompt!Replace(iter[(1..(k + 1)) \ {Max(1..(k + 1))}],
                                          refs[Max(1..(k + 1))].name,
                                          Value(refs[Max(1..(k + 1))].name))
    BY <1>7, <2>1
  <2>4. iter[1..(k + 1)] = Prompt!Replace(old, name, Value(name))
    BY <2>2, <2>3
  <2>5. old \in Seq(Segment) /\ Left(k)
    BY <1>9
  <2> HIDE DEF name, old
  <2>6. /\ iter[1..(k + 1)] \in Seq(Segment)
        /\ \A x \in ToSet(iter[1..(k + 1)]) :
             x \in ToSet(Value(name)) \/ (x \in ToSet(old) /\ x # Prompt!Ref(name))
    BY <1>5, <2>4, <2>5, ReplaceIs
  <2>7. ASSUME NEW x \in ToSet(iter[1..(k + 1)]), x.ref, x.exact
        PROVE  \/ InValues(template, runtime, x)
               \/ \E i \in ((k + 1) + 1)..n : x = Prompt!Ref(refs[i].name)
    <3>1. CASE x \in ToSet(Value(name))
      BY <1>5, <3>1
    <3>2. CASE x \in ToSet(old) /\ x # Prompt!Ref(name)
      <4>1. \/ InValues(template, runtime, x)
            \/ \E i \in (k + 1)..n : x = Prompt!Ref(refs[i].name)
        BY <2>5, <2>7, <3>2 DEF old
      <4>2. ASSUME NEW i \in (k + 1)..n, x = Prompt!Ref(refs[i].name)
            PROVE  i \in ((k + 1) + 1)..n
        <5>1. i # k + 1
          BY <3>2, <4>2 DEF name
        <5>2. QED
          BY <1>3, <5>1
      <4>3. QED
        BY <4>1, <4>2
    <3>3. QED
      BY <2>6, <3>1, <3>2
  <2>8. Left(k + 1)
    BY <2>7
  <2> HIDE DEF Left
  <2>9. QED
    BY <2>6, <2>8
<1>10. n \in S
  <2> HIDE DEF S
  <2>1. \A k \in 0..n : k \in S
    BY <1>3, <1>8, <1>9, Along
  <2>2. QED
    BY <1>3, <2>1
<1>11. text \in Seq(Segment) /\ Left(n) /\ text = iter[1..n]
  BY <1>1, <1>3, <1>10
<1>12. (n + 1)..n = {}
  BY <1>3
<1>13. QED
  BY <1>11, <1>12

-----------------------------------------------------------------------------
(* Adapters: each has its own copy of what ModelAdapter defines. *)

LEMMA SameNoSystem ==
  /\ \A m : Anthropic!NoSystem(m) = NoSystem(m)
  /\ \A m : Gemini!NoSystem(m) = NoSystem(m)
<1>1. \A m : Anthropic!NoSystem(m) = NoSystem(m)
  BY DEF Anthropic!NoSystem, Anthropic!FoldLeft, Anthropic!MapThenFoldSet, Anthropic!Max,
         NoSystem, FoldLeft, MapThenFoldSet, Max
<1>2. \A m : Gemini!NoSystem(m) = NoSystem(m)
  BY DEF Gemini!NoSystem, Gemini!FoldLeft, Gemini!MapThenFoldSet, Gemini!Max,
         NoSystem, FoldLeft, MapThenFoldSet, Max
<1>3. QED
  BY <1>1, <1>2

LEMMA JoinTyped == ASSUME NEW pieces \in Seq(Nat) PROVE Join(pieces) \in Nat
<1> DEFINE n == Len(pieces)
           size == [i \in 1..n |-> pieces[i]]
           Raw(g) == g = [t \in SUBSET DOMAIN pieces |->
                            IF t = {} THEN 0 ELSE g[t \ {Max(t)}] + pieces[Max(t)]]
           iter == CHOOSE g : Raw(g)
           sum == iter[DOMAIN pieces]
<1>1. n \in Nat /\ DOMAIN pieces = 1..n /\ size \in [1..n -> Nat]
  OBVIOUS
<1>2. \A g : Raw(g) <=> Adds(g, n, size)
  <2>1. \A t \in SUBSET (1..n) : t # {} => size[Max(t)] = pieces[Max(t)]
    BY <1>1, MaxUpTo
  <2> HIDE DEF size, n
  <2>2. QED
    BY <1>1, <2>1 DEF Adds
<1>3. Join(pieces) = IF pieces = <<>> THEN 0 ELSE sum + n - 1
  BY DEF Join, FoldLeft, MapThenFoldSet
<1>4. pieces # <<>> => n > 0
  OBVIOUS
<1> HIDE DEF n, size, Raw
<1>5. Adds(iter, n, size)
  BY <1>1, <1>2, AddsUp
<1> HIDE DEF iter
<1>6. sum \in Nat
  BY <1>1, <1>5, FoldAdds
<1> HIDE DEF sum
<1>7. pieces # <<>> => sum + n - 1 \in Nat
  BY <1>1, <1>4, <1>6
<1>8. QED
  BY <1>3, <1>7

LEMMA SameJoin ==
  /\ \A pieces : Anthropic!Join(pieces) = Join(pieces)
  /\ \A pieces : Gemini!Join(pieces) = Join(pieces)
<1>1. \A pieces : Anthropic!Join(pieces) = Join(pieces)
  BY DEF Anthropic!Join, Anthropic!FoldLeft, Anthropic!MapThenFoldSet, Anthropic!Max,
         Join, FoldLeft, MapThenFoldSet, Max
<1>2. \A pieces : Gemini!Join(pieces) = Join(pieces)
  BY DEF Gemini!Join, Gemini!FoldLeft, Gemini!MapThenFoldSet, Gemini!Max,
         Join, FoldLeft, MapThenFoldSet, Max
<1>3. QED
  BY <1>1, <1>2

LEMMA FirstTextTyped ==
  ASSUME NEW pieces \in Seq(Nat \cup {None})
  PROVE  FirstText(pieces) \in Nat
<1> DEFINE given == {i \in DOMAIN pieces : pieces[i] # None}
<1>1. \A i \in given : i \in Nat /\ pieces[i] \in Nat
  OBVIOUS
<1>2. FirstText(pieces) = IF given = {} THEN 0 ELSE pieces[Min(given)]
  BY DEF FirstText
<1> HIDE DEF given
<1>3. given # {} => Min(given) \in given
  <2> HAVE given # {}
  <2>1. PICK x \in given : \A y \in given : ~ (y < x)
    BY <1>1, LeastNat
  <2>2. \A y \in given : x <= y
    BY <1>1, <2>1
  <2>3. QED
    BY <2>2 DEF Min
<1>4. QED
  BY <1>1, <1>2, <1>3

LEMMA SameFirstText ==
  /\ \A pieces : OpenAi!FirstText(pieces) = FirstText(pieces)
  /\ \A pieces : Ollama!FirstText(pieces) = FirstText(pieces)
BY DEF OpenAi!FirstText, OpenAi!Min, Ollama!FirstText, Ollama!Min, FirstText, Min

\* An answer has a length.
LEMMA ReplyTyped ==
  ASSUME NEW s \in Setups, NEW response \in Responses
  PROVE  Reply(s, response).text \in Nat
<1> DEFINE pieces == response.pieces
           whole == ~ \E i \in DOMAIN pieces : pieces[i] = None
<1>1. pieces \in Seq(Nat \cup {None}) /\ s.provider \in {"openai", "ollama", "anthropic", "gemini"}
  BY ConversationAssumption
<1>2. whole => pieces \in Seq(Nat)
  <2> HAVE whole
  <2>1. DOMAIN pieces = 1..Len(pieces) /\ Len(pieces) \in Nat
        /\ \A i \in 1..Len(pieces) : pieces[i] \in Nat
    BY <1>1
  <2>2. pieces = [i \in 1..Len(pieces) |-> pieces[i]]
    BY <1>1
  <2> HIDE DEF pieces
  <2>3. QED
    BY <2>1, <2>2
<1> HIDE DEF whole
<1>3. CASE s.provider = "openai"
  <2>1. FirstText(response.pieces) \in Nat
    BY <1>1, FirstTextTyped
  <2>2. Reply(s, response) = OpenAi!Reply(response)
    BY <1>3 DEF Reply
  <2>3. OpenAi!Reply(response).text \in {0, FirstText(response.pieces)}
    BY SameFirstText DEF OpenAi!Reply, OpenAi!Answer, OpenAi!Failure
  <2>4. QED
    BY <2>1, <2>2, <2>3
<1>4. CASE s.provider = "ollama"
  <2>1. FirstText(response.pieces) \in Nat
    BY <1>1, FirstTextTyped
  <2>2. Reply(s, response) = Ollama!Reply(response)
    BY <1>4 DEF Reply
  <2>3. Ollama!Reply(response).text \in {0, FirstText(response.pieces)}
    BY SameFirstText DEF Ollama!Reply, Ollama!Answer, Ollama!Failure
  <2>4. QED
    BY <2>1, <2>2, <2>3
<1>5. CASE s.provider = "anthropic"
  <2>1. Reply(s, response) = Anthropic!Reply(response)
    BY <1>5 DEF Reply
  <2>2. Anthropic!Reply(response).text = 0
        \/ (whole /\ Anthropic!Reply(response).text = Join(response.pieces))
    BY SameJoin DEF whole, Anthropic!Reply, Anthropic!Answer, Anthropic!Failure
  <2>3. QED
    BY <1>2, <2>1, <2>2, JoinTyped
<1>6. CASE s.provider = "gemini"
  <2>1. Reply(s, response) = Gemini!Reply(response)
    BY <1>6 DEF Reply
  <2>2. Gemini!Reply(response).text = 0
        \/ (whole /\ Gemini!Reply(response).text = Join(response.pieces))
    BY SameJoin DEF whole, Gemini!Reply, Gemini!Answer, Gemini!Failure
  <2>3. QED
    BY <1>2, <2>1, <2>2, JoinTyped
<1>7. QED
  BY <1>1, <1>3, <1>4, <1>5, <1>6

-----------------------------------------------------------------------------
(* What the model is sent *)

\* Nobody says a tool's output.
Roles(told) == \A i \in 1..Len(told) : told[i].role # "tool"

LEMMA MessageTyped ==
  ASSUME NEW role \in {"system", "user", "assistant"}, NEW content \in Nat, NEW bytes \in Nat,
         NEW importance \in Nat
  PROVE  LET m == Window!ContextMessage(role, content, bytes)
             p == Window!Pinned(m)
             i == Window!WithImportance(m, importance)
         IN  /\ p \in Message /\ p.content = content /\ p.role = role
             /\ i \in Message /\ i.content = content /\ i.role = role
<1> DEFINE e == Window!Estimate(bytes)
           c == Window!Smaller(importance, 100)
           m == Window!ContextMessage(role, content, bytes)
<1>1. e \in Nat
  BY DEF Window!Estimate, Window!Larger
<1>2. c \in 0..100
  BY DEF Window!Smaller
<1>3. m = [role |-> role, content |-> content, tokens |-> e, importance |-> 50, pinned |-> FALSE]
  BY DEF Window!ContextMessage
<1>4. Window!WithImportance(m, importance) = [m EXCEPT !.importance = c]
  BY DEF Window!WithImportance
<1> HIDE DEF e, c, m
<1>5. Window!Pinned(m) = [role |-> role, content |-> content, tokens |-> e, importance |-> 50, pinned |-> TRUE]
  <2> DEFINE yes == TRUE
  <2>1. Window!Pinned(m) = [m EXCEPT !.pinned = yes]
    BY DEF Window!Pinned
  <2> HIDE DEF yes
  <2>2. [m EXCEPT !.pinned = yes]
          = [role |-> role, content |-> content, tokens |-> e, importance |-> 50, pinned |-> yes]
    BY <1>3
  <2>3. QED
    BY <2>1, <2>2 DEF yes
<1>6. Window!WithImportance(m, importance)
        = [role |-> role, content |-> content, tokens |-> e, importance |-> c, pinned |-> FALSE]
  BY <1>3, <1>4
<1>7. /\ Window!Pinned(m) \in Message /\ Window!Pinned(m).content = content /\ Window!Pinned(m).role = role
  BY <1>1, <1>5 DEF Message, Window!Message
<1>8. /\ Window!WithImportance(m, importance) \in Message
      /\ Window!WithImportance(m, importance).content = content
      /\ Window!WithImportance(m, importance).role = role
  BY <1>1, <1>2, <1>6 DEF Message, Window!Message
<1>9. QED
  BY <1>7, <1>8 DEF m

\* The conversation of a window: what was said, in order, in the right name, and
\* among it whatever is recent.
LEMMA ConversationIs ==
  ASSUME NEW w, NEW told, Kept(w, told), Roles(told)
  PROVE  LET sent == ConversationOf(w.messages)
         IN  /\ sent \in Seq(ModelMessage)
             /\ \A i, j \in 1..Len(sent) : i < j => sent[i].content < sent[j].content
             /\ \A i \in 1..Len(sent) : /\ sent[i].content \in 1..Len(told)
                                        /\ told[sent[i].content].role = sent[i].role
             /\ \A i \in 1..Len(told) :
                  told[i].role # "system" /\ i > Len(told) - w.config.recent
                    => \E j \in 1..Len(sent) : sent[j].content = i
<1> DEFINE ms == w.messages
           kept == NoSystem(ms)
           r == Len(kept)
           sent == ConversationOf(ms)
<1>1. /\ ms \in Seq(Message) /\ told \in Seq(Message) /\ Len(told) \in Nat /\ w.config.recent \in Nat
  BY KeptTypes
<1>2. /\ InOrder(ms) /\ Held(ms, told) /\ Spared(ms, told, w.config.recent) /\ Told(told)
  BY DEF Kept
<1> HIDE DEF ms
<1>3. /\ kept \in Seq(Message)
      /\ \E q : Places(q, Len(ms), ms, Spoken(ms), kept)
  BY <1>1, NoSystemSelects
<1>4. sent = [i \in DOMAIN kept |->
                [role |-> IF kept[i].role = "user" THEN "user" ELSE "assistant", content |-> kept[i].content]]
  BY DEF ConversationOf, PromptMessage
<1> HIDE DEF kept, sent
<1>5. DOMAIN kept = 1..r /\ r \in Nat /\ \A i \in 1..r : kept[i] \in Message
  BY <1>3
<1> HIDE DEF r
<1>6. /\ sent \in Seq(ModelMessage) /\ Len(sent) = r
      /\ \A i \in 1..r : /\ sent[i].content = kept[i].content
                         /\ sent[i].role = IF kept[i].role = "user" THEN "user" ELSE "assistant"
  <2>1. /\ DOMAIN sent = 1..r
        /\ \A i \in 1..r : sent[i] = [role |-> IF kept[i].role = "user" THEN "user" ELSE "assistant",
                                      content |-> kept[i].content]
    BY <1>4, <1>5
  <2>2. \A i \in 1..r : sent[i] \in ModelMessage
    BY <1>5, <2>1 DEF Message, Window!Message, ModelMessage, MessageRole
  <2>3. sent = [i \in 1..r |-> sent[i]]
    BY <1>4, <2>1
  <2>4. sent \in Seq(ModelMessage) /\ Len(sent) = r
    BY <1>5, <2>2, <2>3
  <2>5. QED
    BY <2>1, <2>4
<1>7. PICK q : Places(q, Len(ms), ms, Spoken(ms), kept)
  BY <1>3
<1>8. /\ \A i \in 1..r : q[i] \in 1..Len(ms) /\ ms[q[i]].role # "system" /\ kept[i] = ms[q[i]]
      /\ \A i, j \in 1..r : i < j => q[i] < q[j]
      /\ \A i \in Spoken(ms) : \E j \in 1..r : q[j] = i
  <2>1. /\ q \in [1..r -> Spoken(ms) \cap (1..Len(ms))]
        /\ \A i, j \in 1..r : i < j => q[i] < q[j]
        /\ \A i \in Spoken(ms) \cap (1..Len(ms)) : \E j \in 1..r : q[j] = i
        /\ \A j \in 1..r : kept[j] = ms[q[j]]
    BY <1>7 DEF Places, r
  <2>2. QED
    BY <2>1 DEF Spoken
<1>9. ASSUME NEW i \in 1..r, NEW j \in 1..r, i < j PROVE sent[i].content < sent[j].content
  <2>1. ms[q[i]].content < ms[q[j]].content
    BY <1>2, <1>8, <1>9 DEF InOrder
  <2>2. QED
    BY <1>6, <1>8, <2>1
<1>10. ASSUME NEW i \in 1..r
       PROVE  sent[i].content \in 1..Len(told) /\ told[sent[i].content].role = sent[i].role
  <2>1. /\ ms[q[i]].content \in 1..Len(told) /\ ms[q[i]] = told[ms[q[i]].content]
    BY <1>2, <1>8 DEF Held
  <2>2. kept[i] = ms[q[i]] /\ kept[i].role # "system" /\ kept[i].role \in {"system", "user", "assistant", "tool"}
    BY <1>5, <1>8 DEF Message, Window!Message
  <2>3. kept[i].content \in 1..Len(told) /\ kept[i] = told[kept[i].content] /\ kept[i].role # "tool"
    BY <2>1, <2>2 DEF Roles
  <2>4. QED
    BY <1>6, <2>2, <2>3
<1>11. ASSUME NEW i \in 1..Len(told), told[i].role # "system", i > Len(told) - w.config.recent
       PROVE  \E j \in 1..r : sent[j].content = i
  <2>1. PICK k \in 1..Len(ms) : ms[k] = told[i]
    BY <1>2, <1>11 DEF Spared
  <2>2. k \in Spoken(ms) /\ ms[k].content = i
    BY <1>2, <1>11, <2>1 DEF Spoken, Told
  <2>3. PICK j \in 1..r : q[j] = k
    BY <1>8, <2>2
  <2>4. sent[j].content = i
    BY <1>6, <1>8, <2>2, <2>3
  <2>5. QED
    BY <2>4
<1>12. QED
  BY <1>6, <1>9, <1>10, <1>11 DEF ms, sent

\* The question that was asked last is sent, and last.
LEMMA QuestionLast ==
  ASSUME NEW w, NEW told, Kept(w, told), Roles(told), w.config.recent > 0,
         Len(told) > 0, told[Len(told)].role = "user"
  PROVE  LET sent == ConversationOf(w.messages)
         IN  Len(sent) > 0 /\ sent[Len(sent)].content = Len(told)
<1> DEFINE sent == ConversationOf(w.messages)
           n == Len(told)
           r == Len(sent)
<1>1. n \in Nat /\ w.config.recent \in Nat
  BY KeptTypes
<1>2. /\ sent \in Seq(ModelMessage)
      /\ \A i, j \in 1..r : i < j => sent[i].content < sent[j].content
      /\ \A i \in 1..r : sent[i].content \in 1..n
      /\ \A i \in 1..n : told[i].role # "system" /\ i > n - w.config.recent
                           => \E j \in 1..r : sent[j].content = i
  BY ConversationIs
<1> HIDE DEF sent
<1>3. r \in Nat
  BY <1>2
<1> HIDE DEF r
<1>4. PICK j \in 1..r : sent[j].content = n
  BY <1>1, <1>2
<1>5. r \in 1..r /\ r > 0
  BY <1>3
<1>6. ~ (j < r)
  <2> SUFFICES ASSUME j < r PROVE FALSE
    OBVIOUS
  <2>1. n < sent[r].content /\ sent[r].content \in 1..n
    BY <1>2, <1>4, <1>5
  <2>2. QED
    BY <1>1, <2>1
<1>7. j = r
  BY <1>3, <1>6
<1>8. QED
  BY <1>4, <1>5, <1>7 DEF r, sent

-----------------------------------------------------------------------------
(* The inductive invariant *)
Stages == {"setup", "idle", "sent", "body", "failed"}

WindowInv ==
  /\ setup \in Setups /\ window.config = setup.window
  /\ Kept(window, said)
  /\ summed \in Nat /\ Counted(window, summed)
  /\ Exhausted(window)
  /\ Roles(said)

PromptInv ==
  prompt # None => \A x \in ToSet(prompt) :
                     x.ref /\ x.exact => InValues(setup.template, setup.runtime, x)

PostedInv ==
  InExchange =>
    LET sent == posted.request.messages
    IN  /\ posted.request \in Request /\ sent # <<>>
        /\ posted.payload = Payload(setup, posted.request)
        /\ ~posted.direct => /\ sent = ConversationOf(window.messages)
                             /\ Len(said) > 0 /\ said[Len(said)].role = "user"

\* A program that runs has an adapter.
StartedInv == stage \in {"idle", "sent", "body"} => Usable(setup)

ConversationInv ==
  /\ stage \in Stages
  /\ prompt = None \/ stage # "setup"
  /\ StartedInv
  /\ WindowInv
  /\ PromptInv
  /\ PostedInv

LEMMA SetupTyped ==
  ASSUME NEW s \in Setups
  PROVE  /\ s.window \in Window!WindowConfig /\ s.window.recent > 0
         /\ s.template.text \in Seq(Segment)
         /\ Prompt!TextsIn(s.template.variables) /\ Prompt!TextsIn(s.runtime)
BY ConversationAssumption DEF Segment

\* A window without messages.
LEMMA EmptyKept ==
  ASSUME NEW config \in Window!WindowConfig
  PROVE  LET w == Window!EmptyWindow(config)
         IN  /\ w.config = config /\ Kept(w, <<>>) /\ Counted(w, 0) /\ Exhausted(w) /\ Roles(<<>>)
<1> DEFINE w == Window!EmptyWindow(config)
<1>1. w = [config |-> config, messages |-> <<>>, summary |-> None, tokens |-> 0]
  BY DEF Window!EmptyWindow
<1>2. /\ w.config = config /\ w.messages = <<>> /\ w.summary = None /\ w.tokens = 0
      /\ <<>> \in Seq(Message) /\ Len(<<>>) = 0
  BY <1>1
<1>3. w \in WindowRecord
  BY <1>1, <1>2 DEF WindowRecord
<1> HIDE DEF w
<1>4. Kept(w, <<>>) /\ Roles(<<>>)
  BY <1>2, <1>3 DEF Kept, Told, InOrder, Held, Spared, SummaryApart, Roles
<1>5. Counted(w, 0)
  BY <1>2, NoTokens DEF Counted
<1>6. Exhausted(w)
  <2>1. config.max \in Nat
    BY DEF Window!WindowConfig
  <2>2. ~ Window!OverBudget(w)
    BY <1>2, <2>1 DEF Window!OverBudget
  <2>3. QED
    BY <2>2 DEF Exhausted
<1>7. QED
  BY <1>2, <1>4, <1>5, <1>6 DEF w

LEMMA InitInv == Init => ConversationInv
<1> SUFFICES ASSUME Init PROVE ConversationInv
  OBVIOUS
<1>1. setup \in Setups /\ stage = "setup" /\ prompt = None /\ said = <<>> /\ summed = 0
      /\ window = Window!EmptyWindow(setup.window)
  BY DEF Init
<1>2. setup.window \in Window!WindowConfig
  BY <1>1, SetupTyped
<1>3. WindowInv
  BY <1>1, <1>2, EmptyKept DEF WindowInv
<1>4. QED
  BY <1>1, <1>3 DEF ConversationInv, StartedInv, Stages, PromptInv, PostedInv, InExchange

\* One message more.
LEMMA SayKept ==
  ASSUME WindowInv, NEW m \in Message, m.content = Number, m.role # "tool",
         Say(m), setup' = setup
  PROVE  /\ WindowInv'
         /\ said' = Append(said, m)
         /\ Len(said') > 0 /\ said'[Len(said')] = m
<1> DEFINE v == Window!AddMessage(window, m)
           x == Resummed(window, v, summed)
           told == Append(said, m)
<1>1. window' = v /\ said' = told /\ summed' = x
  BY DEF Say, Resummed
<1>2. /\ Kept(v, told) /\ Counted(v, x) /\ x \in Nat /\ v.config = window.config /\ Exhausted(v)
  BY AddMessageKept DEF WindowInv, Number
<1>3. /\ said \in Seq(Message) /\ Len(said) \in Nat
  BY KeptTypes DEF WindowInv
<1>4. /\ Len(told) = Len(said) + 1 /\ told[Len(said) + 1] = m
      /\ \A i \in 1..Len(said) : told[i] = said[i]
  BY <1>3
<1> HIDE DEF told, v, x
<1>5. Roles(told)
  BY <1>3, <1>4 DEF Roles, WindowInv
<1>6. WindowInv'
  BY <1>1, <1>2, <1>5 DEF WindowInv
<1>7. QED
  BY <1>1, <1>3, <1>4, <1>6 DEF told

\* What is posted: the request and what the adapter makes of it.
LEMMA PostIs ==
  ASSUME NEW direct, NEW request, Post(direct, request)
  PROVE  \/ UNCHANGED <<stage, posted>>
         \/ /\ stage' = "sent"
            /\ posted' = [direct |-> direct, request |-> request, payload |-> Payload(setup, request)]
BY DEF Post

\* The debugger's request for a list of messages that is not empty.
LEMMA PromptedIs ==
  ASSUME NEW messages \in Seq(ModelMessage), Len(messages) > 0
  PROVE  LET request == [InferenceRequest(messages) EXCEPT !.system = SystemPrompt]
         IN  /\ request \in Request /\ request.messages = messages
             /\ PostPrompted(messages) => Post(FALSE, request)
<1> DEFINE base == [system |-> None, messages |-> messages, temperature |-> None,
                    maxTokens |-> None, tools |-> <<>>]
           request == [InferenceRequest(messages) EXCEPT !.system = SystemPrompt]
<1>1. messages # <<>>
  OBVIOUS
<1>2. InferenceRequest(messages) = base
  BY <1>1 DEF InferenceRequest
<1>3. base \in Request
  BY DEF Request
<1>4. base # None
  BY <1>3, NoneAssumption
<1>5. request = [base EXCEPT !.system = SystemPrompt]
  BY <1>2
<1>6. request \in Request /\ request.messages = messages
  BY <1>3, <1>5 DEF Request, SystemPrompt
<1> HIDE DEF base
<1>7. PostPrompted(messages) => Post(FALSE, request)
  BY <1>2, <1>4 DEF PostPrompted
<1>8. QED
  BY <1>6, <1>7

LEMMA StartKeeps == ASSUME ConversationInv, Start PROVE ConversationInv'
<1>1. /\ stage = "setup" /\ UNCHANGED <<setup, posted>> /\ WindowInv /\ prompt = None
  BY DEF Start, ConversationInv
<1>2. CASE Usable(setup) /\ Rendered(setup) # None
  <2> DEFINE m == Window!Pinned(Window!ContextMessage("system", Number, Prompt!BytesIn(prompt')))
  <2>1. /\ stage' = "idle" /\ prompt' = Rendered(setup) /\ prompt' # None /\ Say(m)
    BY <1>2 DEF Start
  <2>2. /\ prompt' \in Seq(Segment)
        /\ \A x \in ToSet(prompt') : x.ref /\ x.exact => InValues(setup.template, setup.runtime, x)
    BY <1>1, <2>1, SetupTyped, RenderIs DEF Rendered, WindowInv
  <2>3. Prompt!BytesIn(prompt') \in Nat
    BY <2>2, BytesTyped
  <2>4. Number \in Nat
    BY <1>1, KeptTypes DEF Number, WindowInv
  <2>5. m \in Message /\ m.content = Number /\ m.role = "system"
    BY <2>3, <2>4, MessageTyped
  <2> HIDE DEF m
  <2>6. WindowInv'
    BY <1>1, <2>1, <2>5, SayKept
  <2>7. PromptInv'
    BY <1>1, <2>2 DEF PromptInv
  <2>8. QED
    BY <1>1, <1>2, <2>1, <2>6, <2>7 DEF ConversationInv, StartedInv, Stages, PostedInv, InExchange
<1>3. CASE ~ (Usable(setup) /\ Rendered(setup) # None)
  <2>1. stage' = "failed" /\ UNCHANGED <<prompt, window, said, summed>>
    BY <1>3 DEF Start
  <2>2. WindowInv'
    BY <1>1, <2>1 DEF WindowInv
  <2>3. QED
    BY <1>1, <2>1, <2>2 DEF ConversationInv, StartedInv, Stages, PromptInv, PostedInv, InExchange
<1>4. QED
  BY <1>2, <1>3

LEMMA ClearKeeps == ASSUME ConversationInv, Clear PROVE ConversationInv'
<1>1. /\ stage = "idle" /\ UNCHANGED <<setup, stage, prompt, posted>> /\ WindowInv
      /\ window' = Window!EmptyWindow(window.config) /\ said' = <<>> /\ summed' = 0
  BY DEF Clear, ConversationInv, Window!Clear
<1>2. setup \in Setups /\ window.config = setup.window
  BY <1>1 DEF WindowInv
<1>3. setup.window \in Window!WindowConfig
  BY <1>2, SetupTyped
<1>4. WindowInv'
  BY <1>1, <1>2, <1>3, EmptyKept DEF WindowInv
<1>5. PromptInv'
  BY <1>1 DEF ConversationInv, PromptInv
<1>6. QED
  BY <1>1, <1>4, <1>5 DEF ConversationInv, StartedInv, Stages, PostedInv, InExchange

LEMMA AskKeeps == ASSUME ConversationInv, NEW q \in Questions, Ask(q) PROVE ConversationInv'
<1> DEFINE m == Window!WithImportance(Window!ContextMessage("user", Number, q.bytes), q.importance)
           sent == ConversationOf(window'.messages)
<1>1. /\ stage = "idle" /\ UNCHANGED <<setup, prompt>> /\ WindowInv /\ Say(m)
      /\ PostPrompted(sent) /\ Usable(setup)
  BY DEF Ask, ConversationInv, StartedInv
<1>2. q.bytes \in Nat /\ q.importance \in Nat
  BY ConversationAssumption
<1>3. Number \in Nat
  BY <1>1, KeptTypes DEF Number, WindowInv
<1>4. m \in Message /\ m.content = Number /\ m.role = "user"
  BY <1>2, <1>3, MessageTyped, SMTT(30)
<1> HIDE DEF m
<1>5. WindowInv' /\ Len(said') > 0 /\ said'[Len(said')] = m
  BY <1>1, <1>4, SayKept
<1>6. Kept(window', said') /\ Roles(said') /\ window'.config.recent > 0
  BY <1>1, <1>5, SetupTyped DEF WindowInv
<1>7. sent \in Seq(ModelMessage) /\ Len(sent) > 0
  BY <1>4, <1>5, <1>6, ConversationIs, QuestionLast
<1>8. PromptInv'
  BY <1>1 DEF ConversationInv, PromptInv
<1> HIDE DEF sent
<1> DEFINE request == [InferenceRequest(sent) EXCEPT !.system = SystemPrompt]
<1>9. request \in Request /\ request.messages = sent /\ Post(FALSE, request)
  BY <1>1, <1>7, PromptedIs
<1> HIDE DEF request
<1>10. \/ UNCHANGED <<stage, posted>>
       \/ /\ stage' = "sent"
          /\ posted' = [direct |-> FALSE, request |-> request, payload |-> Payload(setup, request)]
  BY <1>9, PostIs
<1>11. CASE UNCHANGED <<stage, posted>>
  BY <1>1, <1>5, <1>8, <1>11 DEF ConversationInv, StartedInv, Stages, PostedInv, InExchange
<1>12. CASE /\ stage' = "sent"
            /\ posted' = [direct |-> FALSE, request |-> request, payload |-> Payload(setup, request)]
  <2>1. posted'.direct = FALSE /\ posted'.request = request /\ posted'.payload = Payload(setup', posted'.request)
    BY <1>1, <1>12
  <2>2. PostedInv'
    BY <1>4, <1>5, <1>7, <1>9, <1>12, <2>1 DEF PostedInv, sent
  <2>3. QED
    BY <1>1, <1>5, <1>8, <1>12, <2>2 DEF ConversationInv, StartedInv, Stages
<1>13. QED
  BY <1>10, <1>11, <1>12

LEMMA AskDirectlyKeeps ==
  ASSUME ConversationInv, NEW request \in Direct, AskDirectly(request) PROVE ConversationInv'
<1>1. /\ stage = "idle" /\ UNCHANGED <<setup, prompt, window, said, summed>> /\ WindowInv
      /\ Post(TRUE, request) /\ Usable(setup)
  BY DEF AskDirectly, ConversationInv, StartedInv
<1>2. request \in Request /\ request.messages # <<>>
  BY ConversationAssumption
<1>3. WindowInv' /\ PromptInv'
  BY <1>1 DEF WindowInv, ConversationInv, PromptInv
<1>4. \/ UNCHANGED <<stage, posted>>
      \/ /\ stage' = "sent"
         /\ posted' = [direct |-> TRUE, request |-> request, payload |-> Payload(setup, request)]
  BY <1>1, PostIs
<1>5. CASE UNCHANGED <<stage, posted>>
  BY <1>1, <1>3, <1>5 DEF ConversationInv, StartedInv, Stages, PostedInv, InExchange
<1>6. CASE /\ stage' = "sent"
           /\ posted' = [direct |-> TRUE, request |-> request, payload |-> Payload(setup, request)]
  <2>1. posted'.direct = TRUE /\ posted'.request = request /\ posted'.payload = Payload(setup', posted'.request)
    BY <1>1, <1>6
  <2>2. PostedInv'
    BY <1>2, <1>6, <2>1 DEF PostedInv
  <2>3. QED
    BY <1>1, <1>3, <1>6, <2>2 DEF ConversationInv, StartedInv, Stages
<1>7. QED
  BY <1>4, <1>5, <1>6

\* The end of an exchange, and what goes on within one, leaves what was posted.
LEMMA ExchangeKeeps ==
  ASSUME ConversationInv, Headers \/ NoHeaders \/ BodyBreaks \/ Stopped \/ UNCHANGED vars
  PROVE  ConversationInv'
<1>1. UNCHANGED <<setup, prompt, window, posted, said, summed>>
  BY DEF Headers, NoHeaders, BodyBreaks, Stopped, vars
<1>2. WindowInv' /\ PromptInv'
  BY <1>1 DEF ConversationInv, WindowInv, PromptInv
<1>3. /\ stage' \in Stages /\ (stage' = "setup" => stage = "setup")
      /\ stage' \in {"sent", "body"} => stage \in {"sent", "body"}
      /\ StartedInv'
  BY <1>1 DEF ConversationInv, StartedInv, Stages, Headers, NoHeaders, BodyBreaks, Stopped, vars
<1>4. PostedInv'
  BY <1>1, <1>3 DEF ConversationInv, PostedInv, InExchange
<1>5. QED
  BY <1>1, <1>2, <1>3, <1>4 DEF ConversationInv

LEMMA BodyKeeps ==
  ASSUME ConversationInv, NEW response \in Responses, Body(response) PROVE ConversationInv'
<1> DEFINE answer == Reply(setup, response)
           m == Window!WithImportance(Window!ContextMessage("assistant", Number, answer.text), 70)
<1>1. /\ stage' = "idle" /\ UNCHANGED <<setup, prompt, posted>> /\ WindowInv /\ Usable(setup)
      /\ Say(m) \/ UNCHANGED <<window, said, summed>>
  BY DEF Body, ConversationInv, StartedInv
<1>2. answer.text \in Nat
  BY <1>1, ReplyTyped DEF WindowInv
<1>3. Number \in Nat
  BY <1>1, KeptTypes DEF Number, WindowInv
<1> HIDE DEF answer
<1>4. m \in Message /\ m.content = Number /\ m.role = "assistant"
  BY <1>2, <1>3, MessageTyped
<1> HIDE DEF m
<1>5. WindowInv'
  <2>1. CASE Say(m)
    BY <1>1, <1>4, <2>1, SayKept
  <2>2. CASE UNCHANGED <<window, said, summed>>
    BY <1>1, <2>2 DEF WindowInv
  <2>3. QED
    BY <1>1, <2>1, <2>2
<1>6. PromptInv'
  BY <1>1 DEF ConversationInv, PromptInv
<1>7. QED
  BY <1>1, <1>5, <1>6 DEF ConversationInv, StartedInv, Stages, PostedInv, InExchange

LEMMA StepInv == ConversationInv /\ [Next]_vars => ConversationInv'
<1> SUFFICES ASSUME ConversationInv, [Next]_vars PROVE ConversationInv'
  OBVIOUS
<1>1. CASE Start
  BY <1>1, StartKeeps
<1>2. CASE Clear
  BY <1>2, ClearKeeps
<1>3. CASE Headers \/ NoHeaders \/ BodyBreaks \/ Stopped \/ UNCHANGED vars
  BY <1>3, ExchangeKeeps
<1>4. CASE \E response \in Responses : Body(response)
  BY <1>4, BodyKeeps
<1>5. CASE \E q \in Questions : Ask(q)
  BY <1>5, AskKeeps
<1>6. CASE \E request \in Direct : AskDirectly(request)
  BY <1>6, AskDirectlyKeeps
<1>7. QED
  BY <1>1, <1>2, <1>3, <1>4, <1>5, <1>6 DEF Next, BodyEnds

\* ConversationInv holds in every state of every program.
THEOREM Invariant == Spec => []ConversationInv
<1>1. QED
  BY InitInv, StepInv, PTL DEF Spec

-----------------------------------------------------------------------------
(* What it implies *)

LEMMA TypeImplied == ConversationInv => TypeOK
<1> SUFFICES ASSUME ConversationInv PROVE TypeOK
  OBVIOUS
<1>1. /\ setup \in Setups /\ stage \in Stages /\ summed \in Nat /\ Kept(window, said)
      /\ prompt = None \/ stage # "setup"
  BY DEF ConversationInv, WindowInv
<1>2. window \in WindowRecord /\ said \in Seq(Message)
  BY <1>1, KeptTypes
<1>3. Window!WindowTypeOK(window)
  BY <1>2 DEF WindowRecord, Window!WindowTypeOK, Message
<1>4. QED
  BY <1>1, <1>2, <1>3 DEF TypeOK, Stages, Message

LEMMA RecentImplied == ConversationInv => RecentAndPinnedKept
<1> SUFFICES ASSUME ConversationInv PROVE RecentAndPinnedKept
  OBVIOUS
<1>1. Kept(window, said) /\ window.config = setup.window
  BY DEF ConversationInv, WindowInv
<1>2. /\ InOrder(window.messages) /\ Held(window.messages, said)
      /\ Spared(window.messages, said, setup.window.recent)
  BY <1>1 DEF Kept
<1>3. /\ window.messages \in Seq(Message) /\ said \in Seq(Message)
  BY <1>1, KeptTypes
<1>4. /\ DOMAIN window.messages = 1..Len(window.messages) /\ DOMAIN said = 1..Len(said)
  BY <1>3
<1>5. \A i, j \in DOMAIN window.messages :
        i < j => window.messages[i].content < window.messages[j].content
  BY <1>2, <1>4 DEF InOrder
<1>6. \A m \in ToSet(window.messages) : m = said[m.content]
  BY <1>2, <1>4 DEF Held, ToSet
<1>7. \A i \in DOMAIN said : said[i].pinned \/ i > Len(said) - setup.window.recent
                               => said[i] \in ToSet(window.messages)
  BY <1>2, <1>4 DEF Spared, ToSet
<1>8. QED
  BY <1>5, <1>6, <1>7 DEF RecentAndPinnedKept

LEMMA ModelSeesImplied == ConversationInv => ModelSeesConversation
<1> SUFFICES ASSUME ConversationInv PROVE ModelSeesConversation
  OBVIOUS
<1>1. stage # "panicked"
  BY DEF ConversationInv, Stages
<1>2. prompt # None => \A x \in ToSet(prompt) : x.ref /\ x.exact => BroughtIn(x)
  BY DEF ConversationInv, PromptInv, InValues, BroughtIn
<1>3. ASSUME InExchange, ~posted.direct
      PROVE  LET sent == posted.request.messages
             IN  /\ Last(sent).content = Len(said)
                 /\ \A i, j \in DOMAIN sent : i < j => sent[i].content < sent[j].content
                 /\ \A m \in ToSet(sent) : said[m.content].role = m.role
                 /\ \A i \in DOMAIN said :
                      said[i].role # "system" /\ i > Len(said) - setup.window.recent
                        => i \in ToSet(Contents(sent))
  <2> DEFINE sent == posted.request.messages
  <2>1. sent = ConversationOf(window.messages) /\ Len(said) > 0 /\ said[Len(said)].role = "user"
    BY <1>3 DEF ConversationInv, PostedInv
  <2>2. /\ Kept(window, said) /\ Roles(said) /\ window.config = setup.window
        /\ window.config.recent > 0
    BY SetupTyped DEF ConversationInv, WindowInv
  <2>3. /\ sent \in Seq(ModelMessage)
        /\ \A i, j \in 1..Len(sent) : i < j => sent[i].content < sent[j].content
        /\ \A i \in 1..Len(sent) : said[sent[i].content].role = sent[i].role
        /\ \A i \in 1..Len(said) :
             said[i].role # "system" /\ i > Len(said) - setup.window.recent
               => \E j \in 1..Len(sent) : sent[j].content = i
    BY <2>1, <2>2, ConversationIs
  <2>4. Len(sent) > 0 /\ sent[Len(sent)].content = Len(said)
    BY <2>1, <2>2, QuestionLast
  <2>5. DOMAIN said = 1..Len(said)
    BY <2>2, KeptTypes
  <2> HIDE DEF sent
  <2>6. DOMAIN sent = 1..Len(sent)
    BY <2>3
  <2>7. Last(sent).content = Len(said)
    BY <2>4 DEF Last
  <2>8. \A m \in ToSet(sent) : said[m.content].role = m.role
    BY <2>3, <2>6 DEF ToSet
  <2>9. \A i \in DOMAIN said : said[i].role # "system" /\ i > Len(said) - setup.window.recent
                                 => i \in ToSet(Contents(sent))
    <3>1. \A j \in 1..Len(sent) : sent[j].content \in ToSet(Contents(sent))
      BY <2>6 DEF ToSet, Contents
    <3>2. QED
      BY <2>3, <2>5, <3>1
  <2>10. QED
    BY <2>3, <2>6, <2>7, <2>8, <2>9 DEF sent
<1>4. QED
  BY <1>1, <1>2, <1>3 DEF ModelSeesConversation

(* Requests on the wire *)
Wire == [role : MessageRole \cup {"model"}, content : Nat, marked : BOOLEAN]

\* One message of the payload for each message it should carry.
Carries(out, in) ==
  /\ out \in Seq(Wire) /\ Len(out) = Len(in)
  /\ \A i \in 1..Len(in) :
       /\ out[i].content = in[i].content
       /\ in[i].role = "tool" <=> out[i].marked \/ out[i].role = "tool"
       /\ in[i].role = "assistant" <=> out[i].role \in {"assistant", "model"}
       /\ in[i].role = "system" <=> out[i].role = "system"

LEMMA ModelMessages ==
  ASSUME NEW ms \in Seq(ModelMessage)
  PROVE  /\ DOMAIN ms = 1..Len(ms) /\ Len(ms) \in Nat
         /\ \A i \in 1..Len(ms) : ms[i].role \in MessageRole /\ ms[i].content \in Nat
<1>1. DOMAIN ms = 1..Len(ms) /\ Len(ms) \in Nat /\ \A i \in 1..Len(ms) : ms[i] \in ModelMessage
  OBVIOUS
<1>2. \A x \in ModelMessage : x.role \in MessageRole /\ x.content \in Nat
  BY DEF ModelMessage
<1>3. QED
  BY <1>1, <1>2

\* A message in front of the others moves each of them by one.
LEMMA Prefixed ==
  ASSUME NEW x \in Wire, NEW s \in Seq(Wire)
  PROVE  /\ (<<x>> \o s)[1] = x /\ Len(<<x>> \o s) = 1 + Len(s)
         /\ \A i \in 1..Len(s) : (<<x>> \o s)[1 + i] = s[i]
OBVIOUS

\* What a request says of its own wins over what the program is configured with.
LEMMA SettingsAre ==
  ASSUME NEW s, s.provider \in {"openai", "ollama", "anthropic", "gemini"}, Usable(s), NEW request
  PROVE  LET payload == Payload(s, request)
         IN  /\ payload.temperature = OrElse(request.temperature, s.temperature)
             /\ request.maxTokens # None => payload.maxTokens = request.maxTokens
<1>1. Configured(s) # None => Configured(s).temperature = s.temperature
  <2>1. CASE s.provider = "openai"
    BY <2>1 DEF Configured, OpenAi!Default, OpenAi!WithBaseUrl, OpenAi!Sanitize
  <2>2. CASE s.provider = "ollama"
    BY <2>2 DEF Configured, Ollama!Default, Ollama!WithBaseUrl, Ollama!Sanitize
  <2>3. CASE s.provider = "anthropic"
    BY <2>3 DEF Configured, Anthropic!Default, Anthropic!WithBaseUrl, Anthropic!Sanitize
  <2>4. CASE s.provider = "gemini"
    BY <2>4 DEF Configured, Gemini!Default, Gemini!WithBaseUrl, Gemini!Sanitize
  <2>5. QED
    BY <2>1, <2>2, <2>3, <2>4
<1>2. Configured(s) # None
  BY DEF Usable, OpenAi!Usable, Ollama!Usable, Anthropic!Usable, Gemini!Usable
<1>3. Configured(s).temperature = s.temperature
  BY <1>1, <1>2
<1>4. CASE s.provider = "openai"
  BY <1>3, <1>4 DEF Payload, OpenAi!BuildRequest, OpenAi!OrElse, OrElse
<1>5. CASE s.provider = "ollama"
  BY <1>3, <1>5 DEF Payload, Ollama!BuildRequest, Ollama!OrElse, OrElse
<1>6. CASE s.provider = "anthropic"
  BY <1>3, <1>6 DEF Payload, Anthropic!BuildRequest, Anthropic!OrElse, OrElse
<1>7. CASE s.provider = "gemini"
  BY <1>3, <1>7 DEF Payload, Gemini!BuildRequest, Gemini!OrElse, OrElse
<1>8. QED
  BY <1>4, <1>5, <1>6, <1>7

SystemFront(content) == [role |-> "system", content |-> content, marked |-> FALSE]

\* OpenAI and Ollama: the system prompt goes first, if there is one.
LEMMA CarriedInFront ==
  ASSUME NEW s, s.provider \in {"openai", "ollama"}, NEW request \in Request
  PROVE  LET payload == Payload(s, request)
         IN  /\ payload.system = None
             /\ \E out : /\ Carries(out, request.messages)
                         /\ payload.messages = IF request.system = None THEN out
                                               ELSE <<SystemFront(request.system)>> \o out
<1> DEFINE front == IF request.system = None THEN <<>> ELSE <<SystemFront(request.system)>>
           ms == request.messages
           no == FALSE
           yes == TRUE
           Marked(m, mark, role) == [role |-> role, content |-> m.content, marked |-> mark]
           plain == [i \in DOMAIN ms |-> Marked(ms[i], no, ms[i].role)]
           told == [i \in DOMAIN ms |-> IF ms[i].role = "tool" THEN Marked(ms[i], yes, "user")
                                        ELSE Marked(ms[i], no, ms[i].role)]
<1>0. \A m, mark, role : /\ Marked(m, mark, role).role = role
                         /\ Marked(m, mark, role).content = m.content
                         /\ Marked(m, mark, role).marked = mark
  OBVIOUS
<1>1. ms \in Seq(ModelMessage) /\ DOMAIN ms = 1..Len(ms) /\ Len(ms) \in Nat
      /\ \A i \in 1..Len(ms) : ms[i].role \in MessageRole /\ ms[i].content \in Nat
  BY ModelMessages DEF Request
<1>2. ASSUME NEW out \in Seq(Wire)
      PROVE  front \o out = IF request.system = None THEN out ELSE <<SystemFront(request.system)>> \o out
  BY <1>2
<1>3. CASE s.provider = "openai"
  <2>1. Payload(s, request) = OpenAi!BuildRequest(Configured(s), request)
    BY <1>3 DEF Payload
  <2>2. /\ OpenAi!BuildRequest(Configured(s), request).system = None
        /\ OpenAi!BuildRequest(Configured(s), request).messages = front \o plain
    BY DEF OpenAi!BuildRequest, OpenAi!WireMessage, OpenAi!MapPromptMessage, SystemFront
  <2> HIDE DEF ms
  <2>3. plain \in Seq(Wire) /\ Len(plain) = Len(ms)
    BY <1>1 DEF Wire
  <2>4. \A i \in 1..Len(ms) : plain[i] = Marked(ms[i], no, ms[i].role)
    BY <1>1
  <2>5. Carries(plain, ms)
    <3> HIDE DEF plain, Marked, yes, no
    <3>1. \A i \in 1..Len(ms) : /\ plain[i].role = ms[i].role /\ plain[i].content = ms[i].content
                               /\ plain[i].marked = no
      BY <1>0, <2>4
    <3>2. \A i \in 1..Len(ms) : ms[i].role # "model"
      BY <1>1 DEF MessageRole
    <3>3. QED
      BY <2>3, <3>1, <3>2 DEF Carries, yes, no
  <2> HIDE DEF front, plain
  <2>6. QED
    BY <1>2, <2>1, <2>2, <2>3, <2>5 DEF ms
<1>4. CASE s.provider = "ollama"
  <2>1. Payload(s, request) = Ollama!BuildRequest(Configured(s), request)
    BY <1>4 DEF Payload
  <2>2. /\ Ollama!BuildRequest(Configured(s), request).system = None
        /\ Ollama!BuildRequest(Configured(s), request).messages = front \o told
    BY DEF Ollama!BuildRequest, Ollama!WireMessage, Ollama!MapPromptMessage, SystemFront
  <2> HIDE DEF ms
  <2>3. \A i \in 1..Len(ms) : told[i] = IF ms[i].role = "tool" THEN Marked(ms[i], yes, "user")
                                        ELSE Marked(ms[i], no, ms[i].role)
    BY <1>1
  <2>4. told \in Seq(Wire) /\ Len(told) = Len(ms)
    BY <1>1 DEF Wire, MessageRole
  <2>5. Carries(told, ms)
    <3> HIDE DEF told, Marked, yes, no
    <3>1. \A i \in 1..Len(ms) :
            /\ ms[i].role = "tool" => told[i].role = "user" /\ told[i].marked = yes
            /\ ms[i].role # "tool" => told[i].role = ms[i].role /\ told[i].marked = no
            /\ told[i].content = ms[i].content
      BY <1>0, <2>3
    <3>2. \A i \in 1..Len(ms) : ms[i].role # "model"
      BY <1>1 DEF MessageRole
    <3>3. QED
      BY <2>4, <3>1, <3>2 DEF Carries, yes, no
  <2> HIDE DEF front, told
  <2>6. QED
    BY <1>2, <2>1, <2>2, <2>4, <2>5 DEF ms
<1>5. QED
  BY <1>3, <1>4

\* Anthropic and Gemini: the system prompt goes apart, system messages go nowhere.
LEMMA CarriedApart ==
  ASSUME NEW s, s.provider \in {"anthropic", "gemini"}, NEW request \in Request
  PROVE  LET payload == Payload(s, request)
         IN  /\ payload.system = request.system
             /\ Carries(payload.messages, NoSystem(request.messages))
<1> DEFINE rest == NoSystem(request.messages)
           Wired(name) == [i \in DOMAIN rest |->
                             [role |-> IF rest[i].role = "assistant" THEN name ELSE "user",
                              content |-> rest[i].content, marked |-> rest[i].role = "tool"]]
<1>1. rest \in Seq(ModelMessage) /\ \A i \in 1..Len(rest) : rest[i].role # "system"
  <2>1. request.messages \in Seq(ModelMessage)
    BY DEF Request
  <2>2. PICK q : Places(q, Len(request.messages), request.messages, Spoken(request.messages), rest)
    BY <2>1, NoSystemSelects
  <2>3. rest \in Seq(ModelMessage)
    BY <2>1, NoSystemSelects
  <2>4. QED
    BY <2>2, <2>3 DEF Places, Spoken
<1> HIDE DEF rest
<1>2. DOMAIN rest = 1..Len(rest) /\ Len(rest) \in Nat
      /\ \A i \in 1..Len(rest) : rest[i].role \in MessageRole /\ rest[i].content \in Nat
  BY <1>1, ModelMessages
<1>3. ASSUME NEW name \in {"assistant", "model"} PROVE Carries(Wired(name), rest)
  <2> DEFINE out == Wired(name)
  <2>1. \A i \in 1..Len(rest) :
          out[i] = [role |-> IF rest[i].role = "assistant" THEN name ELSE "user",
                    content |-> rest[i].content, marked |-> rest[i].role = "tool"]
    BY <1>2
  <2>2. \A i \in 1..Len(rest) :
          /\ out[i].role = IF rest[i].role = "assistant" THEN name ELSE "user"
          /\ out[i].content = rest[i].content
          /\ out[i].marked = (rest[i].role = "tool")
          /\ out[i] \in Wire
    BY <1>2, <1>3, <2>1 DEF Wire, MessageRole
  <2>3. out \in Seq(Wire) /\ Len(out) = Len(rest)
    BY <1>2, <2>2
  <2> HIDE DEF out
  <2>4. QED
    BY <1>1, <1>2, <1>3, <2>2, <2>3 DEF Carries, MessageRole, out
<1>4. CASE s.provider = "anthropic"
  <2>1. Payload(s, request) = Anthropic!BuildRequest(Configured(s), request)
    BY <1>4 DEF Payload
  <2>2. /\ Anthropic!BuildRequest(Configured(s), request).system = request.system
        /\ Anthropic!BuildRequest(Configured(s), request).messages = Wired("assistant")
    BY SameNoSystem DEF rest, Anthropic!BuildRequest, Anthropic!WireMessage, Anthropic!MapPromptMessage
  <2> HIDE DEF Wired
  <2>3. QED
    BY <1>3, <2>1, <2>2 DEF rest
<1>5. CASE s.provider = "gemini"
  <2>1. Payload(s, request) = Gemini!BuildRequest(Configured(s), request)
    BY <1>5 DEF Payload
  <2>2. /\ Gemini!BuildRequest(Configured(s), request).system = request.system
        /\ Gemini!BuildRequest(Configured(s), request).messages = Wired("model")
    BY SameNoSystem DEF rest, Gemini!BuildRequest, Gemini!WireMessage, Gemini!MapPromptMessage
  <2> HIDE DEF Wired
  <2>3. QED
    BY <1>3, <2>1, <2>2 DEF rest
<1>6. QED
  BY <1>4, <1>5

Rank(I, i) == Cardinality({j \in I : j <= i})

\* How many of the positions in I are not after the one taken k-th: k.
LEMMA Ranks ==
  ASSUME NEW T, NEW m \in Seq(T), NEW I \in SUBSET (1..Len(m)), NEW r \in Seq(T),
         NEW q, Places(q, Len(m), m, I, r)
  PROVE  /\ Cardinality(I) = Len(r)
         /\ \A i \in I : \E k \in 1..Len(r) : r[k] = m[i] /\ Rank(I, i) = k
<1>1. /\ Len(m) \in Nat /\ Len(r) \in Nat
      /\ \A k \in 1..Len(r) : q[k] \in I /\ q[k] \in Nat /\ r[k] = m[q[k]]
      /\ \A k, l \in 1..Len(r) : k < l => q[k] < q[l]
      /\ \A i \in I : \E k \in 1..Len(r) : q[k] = i
  <2>1. Len(m) \in Nat /\ Len(r) \in Nat
    OBVIOUS
  <2>2. /\ \A k \in 1..Len(r) : q[k] \in I /\ r[k] = m[q[k]]
        /\ \A k, l \in 1..Len(r) : k < l => q[k] < q[l]
        /\ \A i \in I \cap 1..Len(m) : \E k \in 1..Len(r) : q[k] = i
    BY DEF Places
  <2>3. \A k \in 1..Len(r) : q[k] \in 1..Len(m)
    BY <2>2
  <2>4. I \cap 1..Len(m) = I
    OBVIOUS
  <2>5. QED
    BY <2>1, <2>2, <2>3, <2>4
<1>2. ASSUME NEW B \in SUBSET I, NEW n \in 0..Len(r), \A k \in 1..Len(r) : q[k] \in B <=> k <= n
      PROVE  Cardinality(B) = n
  <2> DEFINE f == [k \in 1..n |-> q[k]]
  <2>1. \A k \in 1..n : k \in 1..Len(r)
    BY <1>1
  <2>2. f \in [1..n -> B]
    BY <1>2, <2>1
  <2>3. \A k, l \in 1..n : f[k] = f[l] => k = l
    BY <1>1, <2>1
  <2>4. \A b \in B : \E k \in 1..n : f[k] = b
    BY <1>1, <1>2
  <2> HIDE DEF f
  <2>5. ExistsBijection(1..n, B)
    BY <2>2, <2>3, <2>4 DEF ExistsBijection, Bijection, Injection, Surjection, IsInjective
  <2>6. IsFiniteSet(1..n) /\ Cardinality(1..n) = n
    BY <1>1, FS_Interval
  <2>7. QED
    BY <2>5, <2>6, FS_Bijection
<1>3. Cardinality(I) = Len(r)
  <2>1. \A k \in 1..Len(r) : q[k] \in I <=> k <= Len(r)
    BY <1>1
  <2>2. I \in SUBSET I /\ Len(r) \in 0..Len(r)
    BY <1>1
  <2>3. QED
    BY <1>2, <2>1, <2>2
<1>4. ASSUME NEW i \in I
      PROVE  \E k \in 1..Len(r) : r[k] = m[i] /\ Rank(I, i) = k
  <2> DEFINE B == {j \in I : j <= i}
  <2>1. PICK k \in 1..Len(r) : q[k] = i
    BY <1>1
  <2>2. \A l \in 1..Len(r) : q[l] \in B <=> l <= k
    BY <1>1, <2>1
  <2>3. B \in SUBSET I /\ k \in 0..Len(r)
    BY <1>1
  <2> HIDE DEF B
  <2>4. Cardinality(B) = k
    BY <1>2, <2>2, <2>3
  <2>5. QED
    BY <1>1, <2>1, <2>4 DEF B, Rank
<1>5. QED
  BY <1>3, <1>4

LEMMA PayloadImplied == ConversationInv => PayloadCarriesRequest
<1> SUFFICES ASSUME ConversationInv, InExchange PROVE PayloadCarriesRequest
  BY DEF PayloadCarriesRequest
<1> DEFINE request == posted.request
           payload == posted.payload
           ms == request.messages
           apart == setup.provider \in {"anthropic", "gemini"}
           front == IF apart \/ request.system = None THEN 0 ELSE 1
           carried == {i \in DOMAIN ms : apart => ms[i].role # "system"}
           sent == IF apart THEN NoSystem(ms) ELSE ms
<1>1. request \in Request /\ payload = Payload(setup, request)
  BY DEF ConversationInv, PostedInv
<1>2. /\ setup.provider \in {"openai", "ollama", "anthropic", "gemini"}
      /\ Usable(setup)
  BY ConversationAssumption DEF ConversationInv, WindowInv, StartedInv, InExchange
<1>3. /\ ms \in Seq(ModelMessage) /\ DOMAIN ms = 1..Len(ms) /\ Len(ms) \in Nat
      /\ request.system = None \/ request.system \in Nat
  BY <1>1 DEF Request
<1>4. /\ payload.temperature = OrElse(request.temperature, setup.temperature)
      /\ request.maxTokens # None => payload.maxTokens = request.maxTokens
  BY <1>1, <1>2, SettingsAre
<1> HIDE DEF request, payload
<1>5. /\ payload.system = IF apart THEN request.system ELSE None
      /\ \E out : /\ Carries(out, sent)
                  /\ payload.messages = IF front = 0 THEN out
                                        ELSE <<SystemFront(request.system)>> \o out
  <2>1. CASE apart
    BY <1>1, <2>1, CarriedApart DEF payload
  <2>2. CASE ~apart
    BY <1>1, <1>2, <2>2, CarriedInFront DEF payload
  <2>3. QED
    BY <2>1, <2>2
<1>6. PICK out : /\ Carries(out, sent)
                 /\ payload.messages = IF front = 0 THEN out
                                       ELSE <<SystemFront(request.system)>> \o out
  BY <1>5
<1>7. /\ sent \in Seq(ModelMessage) /\ Cardinality(carried) = Len(sent)
      /\ \A i \in carried : \E k \in 1..Len(sent) :
           sent[k] = ms[i] /\ Rank(carried, i) = k
  <2>1. sent \in Seq(ModelMessage) /\ carried \in SUBSET (1..Len(ms))
    BY <1>3, NoSystemSelects
  <2>2. PICK q : Places(q, Len(ms), ms, carried, sent)
    <3>1. CASE apart
      <4>1. carried = Spoken(ms) /\ sent = NoSystem(ms)
        BY <1>3, <3>1 DEF Spoken
      <4>2. QED
        BY <1>3, <4>1, NoSystemSelects
    <3>2. CASE ~apart
      <4>1. carried = 1..Len(ms) /\ sent = ms
        BY <1>3, <3>2
      <4>2. Places([i \in 1..Len(ms) |-> i], Len(ms), ms, 1..Len(ms), ms)
        BY <1>3 DEF Places
      <4>3. QED
        BY <4>1, <4>2
    <3>3. QED
      BY <3>1, <3>2
  <2> HIDE DEF carried, sent, ms
  <2>3. /\ Cardinality(carried) = Len(sent)
        /\ \A i \in carried : \E k \in 1..Len(sent) :
             sent[k] = ms[i] /\ Rank(carried, i) = k
    <3>1. ms \in Seq(ModelMessage)
      BY <1>3
    <3>2. QED
      BY <2>1, <2>2, <3>1, Ranks
  <2>4. QED
    BY <2>1, <2>3
<1> HIDE DEF sent
<1>8. /\ front = 1 => payload.messages[1].role = "system" /\ payload.messages[1].content = request.system
      /\ Len(payload.messages) = front + Len(sent)
      /\ \A k \in 1..Len(sent) : payload.messages[front + k] = out[k]
  <2>1. out \in Seq(Wire) /\ Len(out) = Len(sent) /\ Len(sent) \in Nat
    BY <1>6, <1>7 DEF Carries
  <2>2. CASE front = 0
    BY <1>6, <2>1, <2>2
  <2>3. CASE front = 1
    <3>1. SystemFront(request.system) \in Wire
      BY <1>3, <2>3 DEF SystemFront, Wire, MessageRole
    <3>2. SystemFront(request.system).role = "system" /\ SystemFront(request.system).content = request.system
      BY DEF SystemFront
    <3>3. payload.messages = <<SystemFront(request.system)>> \o out
      BY <1>6, <2>3
    <3>4. QED
      BY <2>1, <2>3, <3>1, <3>2, <3>3, Prefixed
  <2>4. QED
    BY <2>2, <2>3
<1>9. ASSUME NEW i \in carried
      PROVE  LET asked == ms[i]
                 wired == payload.messages[front + Rank(carried, i)]
             IN  /\ wired.content = asked.content
                 /\ asked.role = "tool" <=> wired.marked \/ wired.role = "tool"
                 /\ asked.role = "assistant" <=> wired.role \in {"assistant", "model"}
                 /\ asked.role = "system" <=> wired.role = "system"
  <2> HIDE DEF carried, front
  <2>1. PICK k \in 1..Len(sent) : sent[k] = ms[i] /\ Rank(carried, i) = k
    BY <1>7
  <2>2. payload.messages[front + Rank(carried, i)] = out[k]
    BY <1>8, <2>1
  <2>3. QED
    BY <1>6, <2>1, <2>2 DEF Carries
<1>10. Len(payload.messages) = front + Cardinality(carried)
  BY <1>7, <1>8
<1> HIDE DEF front, carried, ms
<1>11. /\ payload.system = IF apart THEN request.system ELSE None
       /\ front = 1 => /\ payload.messages[1].role = "system"
                       /\ payload.messages[1].content = request.system
       /\ Len(payload.messages) = front + Cardinality(carried)
       /\ \A i \in carried :
            LET asked == ms[i]
                wired == payload.messages[front + Rank(carried, i)]
            IN  /\ wired.content = asked.content
                /\ asked.role = "tool" <=> wired.marked \/ wired.role = "tool"
                /\ asked.role = "assistant" <=> wired.role \in {"assistant", "model"}
                /\ asked.role = "system" <=> wired.role = "system"
       /\ payload.temperature = OrElse(request.temperature, setup.temperature)
       /\ request.maxTokens # None => payload.maxTokens = request.maxTokens
  BY <1>4, <1>5, <1>8, <1>9, <1>10
<1>12. QED
  BY <1>11, Zenon DEF PayloadCarriesRequest, Rank, request, payload, ms, front, carried

-----------------------------------------------------------------------------
(* The results *)

\* The window, the history and the count of the summaries' tokens are what
\* they should be after every add_message, compression and clear.
THEOREM TypeCorrect == Spec => []TypeOK
BY Invariant, TypeImplied, PTL

\* However often compress runs, the window is an ordered part of what was said
\* that has the recent and the pinned messages.
THEOREM WindowKeepsRecentAndPinned == Spec => []RecentAndPinnedKept
BY Invariant, RecentImplied, PTL

\* A window that stays over its budget holds nothing that compress may drop.
THEOREM CompressionIsExhaustive == Spec => []BudgetOrProtected
<1>1. ConversationInv => BudgetOrProtected
  BY DEF ConversationInv, WindowInv, Exhausted, BudgetOrProtected
<1>2. QED
  BY <1>1, Invariant, PTL

\* total_tokens is exact but for the summaries: saturating_sub never saturates.
THEOREM TokensExact == Spec => []TokensAccounted
<1>1. ConversationInv => TokensAccounted
  BY DEF ConversationInv, WindowInv, Counted, TokensAccounted
<1>2. QED
  BY <1>1, Invariant, PTL

\* What the debugger sends: the question last, the recent messages before it in
\* the right order and in the right name, a system prompt that is filled in; the
\* unwrap of the request never panics.
THEOREM ConversationReachesModel == Spec => []ModelSeesConversation
BY Invariant, ModelSeesImplied, PTL

\* build_request of all four adapters: the system prompt once and in its place,
\* every message once, in order and in the right name but for the system messages
\* that Anthropic and Gemini drop, the request's settings before the program's.
THEOREM PayloadCarries == Spec => []PayloadCarriesRequest
BY Invariant, PayloadImplied, PTL
=============================================================================
