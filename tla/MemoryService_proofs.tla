------------------------ MODULE MemoryService_proofs ------------------------
(***************************************************************************)
(* Proofs about the memory bus: what evictions leave in the ring and count,*)
(* that the bus keeps its mutex and types (BusInv) and the file at most one*)
(* copy of a record (FileInv), and, for the service, TypeOK and the four   *)
(* safety invariants of its run.  BusStep and FileStep are about the bus   *)
(* alone, whoever drives it.                                               *)
(***************************************************************************)
EXTENDS MemoryService, FiniteSetTheorems, SequenceTheorems, WellFoundedInduction, TLAPS

-----------------------------------------------------------------------------
(* Induction over the natural numbers, for sets instead of predicates       *)

LEMMA LeastNat ==
  ASSUME NEW T, T \subseteq Nat, T # {}
  PROVE  \E x \in T : \A y \in T : ~ (y < x)
<1>1. \E x \in T : \A y \in T : ~ (<<y, x>> \in OpToRel(<, Nat))
  BY NatLessThanWellFounded, WFMin
<1>2. QED
  BY <1>1 DEF OpToRel

LEMMA NatSet ==
  ASSUME NEW S, 0 \in S, \A n \in Nat : n \in S => n + 1 \in S
  PROVE  Nat \subseteq S
<1> SUFFICES ASSUME Nat \ S # {} PROVE FALSE
  OBVIOUS
<1>1. PICK n \in Nat \ S : \A m \in Nat \ S : ~ (m < n)
  BY LeastNat
<1>2. n - 1 \in Nat /\ n - 1 \in S
  BY <1>1
<1>3. QED
  BY <1>1, <1>2

-----------------------------------------------------------------------------
(* The bytes of a buffer                                                    *)

\* f is the fold that BytesOf(s) takes over the positions of s.
Folds(s, D, f) ==
  f = [t \in SUBSET D |->
         IF t = {} THEN 0 ELSE f[t \ {Volatile!Max(t)}] + Size[s[Volatile!Max(t)]]]

LEMMA MaxUpTo ==
  ASSUME NEW n \in Nat, NEW t \in SUBSET (1..n), t # {}
  PROVE  Volatile!Max(t) \in t /\ \A x \in t : x <= Volatile!Max(t)
<1> DEFINE U == {m \in Nat : \A x \in t : x <= m}
<1>1. n \in U /\ U \subseteq Nat
  OBVIOUS
<1>2. PICK m \in U : \A k \in U : ~ (k < m)
  BY <1>1, LeastNat
<1>3. m \in t
  <2> SUFFICES ASSUME m \notin t PROVE FALSE
    OBVIOUS
  <2>1. \A x \in t : x \in Nat /\ x # 0 /\ x <= m /\ x # m
    BY <1>2
  <2>2. m - 1 \in Nat /\ \A x \in t : x <= m - 1
    <3>1. PICK x \in t : x \in 1..n
      OBVIOUS
    <3>2. m \in Nat /\ 1 <= x /\ x <= m
      BY <2>1, <3>1
    <3>3. \A y \in t : y <= m - 1
      BY <2>1, <3>2
    <3>4. QED
      BY <3>1, <3>2, <3>3
  <2>3. m - 1 \in U /\ m - 1 < m
    BY <2>2
  <2>4. QED
    BY <1>2, <2>3
<1>4. \E x \in t : \A y \in t : x >= y
  BY <1>2, <1>3
<1>5. QED
  BY <1>4 DEF Volatile!Max

LEMMA FoldExists ==
  ASSUME NEW s, NEW n \in Nat
  PROVE  \E f : Folds(s, 1..n, f)
<1> DEFINE S == {m \in Nat : \E f : Folds(s, 1..m, f)}
<1>1. 0 \in S
  <2> DEFINE f == [t \in SUBSET (1..0) |-> 0]
  <2>1. \A t \in SUBSET (1..0) : t = {}
    OBVIOUS
  <2>2. Folds(s, 1..0, f)
    BY <2>1 DEF Folds
  <2>3. QED
    BY <2>2
<1>2. ASSUME NEW m \in Nat, m \in S PROVE m + 1 \in S
  <2>1. PICK f : Folds(s, 1..m, f)
    BY <1>2
  <2> DEFINE g == [t \in SUBSET (1..(m + 1)) |->
                     IF m + 1 \in t THEN f[t \ {m + 1}] + Size[s[m + 1]] ELSE f[t]]
  <2>2. ASSUME NEW t \in SUBSET (1..(m + 1))
        PROVE  g[t] = IF t = {} THEN 0
                      ELSE g[t \ {Volatile!Max(t)}] + Size[s[Volatile!Max(t)]]
    <3>1. CASE t = {}
      BY <2>1, <3>1 DEF Folds
    <3>2. CASE m + 1 \in t
      <4>1. Volatile!Max(t) = m + 1
        <5>1. m + 1 \in Nat /\ t # {}
          BY <3>2
        <5>2. Volatile!Max(t) \in t /\ m + 1 <= Volatile!Max(t)
          BY <3>2, <5>1, MaxUpTo
        <5>3. Volatile!Max(t) \in 1..(m + 1)
          BY <5>2
        <5>4. QED
          BY <5>2, <5>3
      <4>2. t \ {m + 1} \in SUBSET (1..(m + 1)) /\ m + 1 \notin t \ {m + 1}
        OBVIOUS
      <4>3. QED
        BY <3>2, <4>1, <4>2
    <3>3. CASE t # {} /\ m + 1 \notin t
      <4>1. t \in SUBSET (1..m)
        BY <3>3
      <4>2. t \ {Volatile!Max(t)} \in SUBSET (1..m)
        BY <4>1
      <4>3. g[t] = f[t] /\ g[t \ {Volatile!Max(t)}] = f[t \ {Volatile!Max(t)}]
        BY <3>3, <4>2
      <4>4. QED
        BY <2>1, <3>3, <4>1, <4>3 DEF Folds
    <3>4. QED
      BY <3>1, <3>2, <3>3
  <2>3. Folds(s, 1..(m + 1), g)
    BY <2>2 DEF Folds
  <2>4. QED
    BY <2>3
<1>3. Nat \subseteq S
  <2> HIDE DEF S
  <2>1. QED
    BY <1>1, <1>2, NatSet
<1>4. QED
  BY <1>3

\* What BytesOf adds up, one position after the other.
LEMMA FoldSteps ==
  ASSUME NEW s, NEW n \in Nat, NEW f, Folds(s, 1..n, f)
  PROVE  /\ f[1..0] = 0
         /\ \A k \in Nat : k < n => f[1..(k + 1)] = f[1..k] + Size[s[k + 1]]
<1>1. f[1..0] = 0
  <2>1. 1..0 = {} /\ 1..0 \in SUBSET (1..n)
    OBVIOUS
  <2>2. QED
    BY <2>1 DEF Folds
<1>2. ASSUME NEW k \in Nat, k < n
      PROVE  f[1..(k + 1)] = f[1..k] + Size[s[k + 1]]
  <2>1. 1..(k + 1) \in SUBSET (1..n) /\ 1..(k + 1) # {}
    BY <1>2
  <2>2. Volatile!Max(1..(k + 1)) = k + 1
    <3>1. 1..(k + 1) \in SUBSET (1..(k + 1)) /\ k + 1 \in Nat /\ k + 1 \in 1..(k + 1)
      OBVIOUS
    <3>2. /\ Volatile!Max(1..(k + 1)) \in 1..(k + 1)
          /\ k + 1 <= Volatile!Max(1..(k + 1))
      BY <2>1, <3>1, MaxUpTo
    <3>3. QED
      BY <3>2
  <2>3. (1..(k + 1)) \ {k + 1} = 1..k
    OBVIOUS
  <2>4. QED
    BY <2>1, <2>2, <2>3 DEF Folds
<1>3. QED
  BY <1>1, <1>2

LEMMA BytesFold ==
  ASSUME NEW s \in Seq(Records)
  PROVE  \E f : Folds(s, 1..Len(s), f) /\ Volatile!BytesOf(s) = f[1..Len(s)]
<1>1. \E f : Folds(s, 1..Len(s), f)
  <2>1. Len(s) \in Nat
    OBVIOUS
  <2>2. QED
    BY <2>1, FoldExists
<1>2. DOMAIN s = 1..Len(s)
  OBVIOUS
<1> DEFINE F == CHOOSE f : Folds(s, 1..Len(s), f)
<1>3. Folds(s, 1..Len(s), F)
  BY <1>1
<1>4. Volatile!BytesOf(s) = F[1..Len(s)]
  BY <1>2 DEF Volatile!BytesOf, Volatile!FoldLeft, Volatile!MapThenFoldSet, Folds
<1>5. QED
  BY <1>3, <1>4

LEMMA BytesEmpty == Volatile!BytesOf(<<>>) = 0
<1>1. <<>> \in Seq(Records) /\ Len(<<>>) = 0
  OBVIOUS
<1>2. PICK f : Folds(<<>>, 1..0, f) /\ Volatile!BytesOf(<<>>) = f[1..0]
  BY <1>1, BytesFold
<1>3. QED
  BY <1>2, FoldSteps

LEMMA BytesNat ==
  ASSUME NEW s \in Seq(Records)
  PROVE  Volatile!BytesOf(s) \in Nat
<1>1. PICK f : Folds(s, 1..Len(s), f) /\ Volatile!BytesOf(s) = f[1..Len(s)]
  BY BytesFold
<1> DEFINE S == {k \in Nat : k <= Len(s) => f[1..k] \in Nat}
<1>2. 0 \in S
  BY <1>1, FoldSteps
<1>3. ASSUME NEW k \in Nat, k \in S PROVE k + 1 \in S
  <2>1. ASSUME k + 1 <= Len(s) PROVE f[1..(k + 1)] \in Nat
    <3>1. f[1..(k + 1)] = f[1..k] + Size[s[k + 1]]
      BY <1>1, <2>1, FoldSteps
    <3>2. Size[s[k + 1]] \in Nat /\ f[1..k] \in Nat
      BY <1>3, <2>1, BusAssumption
    <3>3. QED
      BY <3>1, <3>2
  <2>2. QED
    BY <2>1
<1>4. Nat \subseteq S
  <2> HIDE DEF S
  <2>1. QED
    BY <1>2, <1>3, NatSet
<1>5. QED
  BY <1>1, <1>4

LEMMA BytesAppend ==
  ASSUME NEW s \in Seq(Records), NEW r \in Records
  PROVE  Volatile!BytesOf(Append(s, r)) = Volatile!BytesOf(s) + Size[r]
<1> DEFINE t == Append(s, r)
<1>0. /\ t \in Seq(Records) /\ Len(t) = Len(s) + 1 /\ t[Len(s) + 1] = r
      /\ \A i \in 1..Len(s) : t[i] = s[i]
  OBVIOUS
<1> HIDE DEF t
<1>1. PICK f : Folds(s, 1..Len(s), f) /\ Volatile!BytesOf(s) = f[1..Len(s)]
  BY BytesFold
<1>2. PICK g : Folds(t, 1..Len(t), g) /\ Volatile!BytesOf(t) = g[1..Len(t)]
  BY <1>0, BytesFold
<1> DEFINE S == {k \in Nat : k <= Len(s) => f[1..k] = g[1..k]}
<1>3. 0 \in S
  BY <1>0, <1>1, <1>2, FoldSteps
<1>4. ASSUME NEW k \in Nat, k \in S PROVE k + 1 \in S
  <2>1. ASSUME k + 1 <= Len(s) PROVE f[1..(k + 1)] = g[1..(k + 1)]
    <3>1. f[1..(k + 1)] = f[1..k] + Size[s[k + 1]]
      BY <1>1, <2>1, FoldSteps
    <3>2. g[1..(k + 1)] = g[1..k] + Size[t[k + 1]]
      BY <1>0, <1>2, <2>1, FoldSteps
    <3>3. t[k + 1] = s[k + 1]
      BY <1>0, <2>1
    <3>4. QED
      BY <1>4, <2>1, <3>1, <3>2, <3>3
  <2>2. QED
    BY <2>1
<1>5. Nat \subseteq S
  <2> HIDE DEF S
  <2>1. QED
    BY <1>3, <1>4, NatSet
<1>6. g[1..Len(t)] = g[1..Len(s)] + Size[r]
  BY <1>0, <1>2, FoldSteps
<1>7. QED
  BY <1>1, <1>2, <1>5, <1>6 DEF t

LEMMA SubSeqAppend ==
  ASSUME NEW S, NEW s \in Seq(S), NEW m \in 1..(Len(s) + 1), NEW n \in (m - 1)..(Len(s) - 1)
  PROVE  SubSeq(s, m, n + 1) = Append(SubSeq(s, m, n), s[n + 1])
  OBVIOUS

\* The bytes of a buffer are those of its front and those of the rest.
LEMMA BytesSplit ==
  ASSUME NEW s \in Seq(Records), NEW n \in 0..Len(s)
  PROVE  Volatile!BytesOf(s) = Volatile!BytesOf(SubSeq(s, 1, n))
                               + Volatile!BytesOf(SubSeq(s, n + 1, Len(s)))
<1> DEFINE B(k) == Volatile!BytesOf(SubSeq(s, 1, k))
           C(k) == Volatile!BytesOf(SubSeq(s, n + 1, k))
           S == {k \in Nat : n <= k /\ k <= Len(s) => B(k) = B(n) + C(k)}
<1>1. /\ Len(s) \in Nat /\ n \in Nat
      /\ \A k \in 0..Len(s) : SubSeq(s, 1, k) \in Seq(Records)
      /\ \A k \in n..Len(s) : SubSeq(s, n + 1, k) \in Seq(Records)
  OBVIOUS
<1>2. /\ \A k \in 0..Len(s) : B(k) \in Nat
      /\ \A k \in n..Len(s) : C(k) \in Nat
  BY <1>1, BytesNat
<1>3. B(n) = B(n) + C(n)
  <2>1. SubSeq(s, n + 1, n) = <<>>
    OBVIOUS
  <2>2. C(n) = 0
    BY <2>1, BytesEmpty
  <2>3. B(n) \in Nat
    BY <1>1, <1>2
  <2>4. QED
    BY <2>2, <2>3
<1>4. ASSUME NEW k \in Nat, n <= k, k + 1 <= Len(s), B(k) = B(n) + C(k)
      PROVE  B(k + 1) = B(n) + C(k + 1)
  <2>1. s[k + 1] \in Records /\ Size[s[k + 1]] \in Nat
    BY <1>1, <1>4, BusAssumption
  <2>2. SubSeq(s, 1, k + 1) = Append(SubSeq(s, 1, k), s[k + 1])
    BY <1>1, <1>4, SubSeqAppend
  <2>3. SubSeq(s, n + 1, k + 1) = Append(SubSeq(s, n + 1, k), s[k + 1])
    BY <1>1, <1>4, SubSeqAppend
  <2>4. k \in 0..Len(s) /\ k \in n..Len(s) /\ n \in 0..Len(s)
    BY <1>1, <1>4
  <2>5. B(k + 1) = B(k) + Size[s[k + 1]]
    BY <1>1, <2>1, <2>2, <2>4, BytesAppend
  <2>6. C(k + 1) = C(k) + Size[s[k + 1]]
    BY <1>1, <2>1, <2>3, <2>4, BytesAppend
  <2>7. B(n) \in Nat /\ C(k) \in Nat
    BY <1>2, <2>4
  <2> HIDE DEF B, C
  <2>8. QED
    BY <1>4, <2>1, <2>5, <2>6, <2>7
<1> HIDE DEF B, C
<1>5. 0 \in S
  <2>1. n <= 0 => n = 0
    BY <1>1
  <2>2. QED
    BY <1>3, <2>1
<1>6. ASSUME NEW k \in Nat, k \in S PROVE k + 1 \in S
  <2>1. CASE n <= k
    BY <1>1, <1>4, <1>6, <2>1
  <2>2. CASE ~ (n <= k)
    <3>1. n <= k + 1 => n = k + 1
      BY <1>1, <2>2
    <3>2. QED
      BY <1>3, <3>1
  <2>3. QED
    BY <2>1, <2>2
<1>7. Nat \subseteq S
  <2> HIDE DEF S
  <2>1. QED
    BY <1>5, <1>6, NatSet
<1>8. B(Len(s)) = B(n) + C(Len(s))
  BY <1>1, <1>7
<1>9. SubSeq(s, 1, Len(s)) = s
  OBVIOUS
<1>10. QED
  BY <1>8, <1>9 DEF B, C

-----------------------------------------------------------------------------
(* The ring                                                                 *)

Rest(s, n) == SubSeq(s, n + 1, Len(s))

LEMMA RestTyped ==
  ASSUME NEW s \in Seq(Records), NEW n \in 0..Len(s)
  PROVE  /\ Rest(s, n) \in Seq(Records)
         /\ Len(Rest(s, n)) = Len(s) - n
         /\ Volatile!BytesOf(Rest(s, n)) \in Nat
<1>1. Rest(s, n) \in Seq(Records) /\ Len(Rest(s, n)) = Len(s) - n
  BY DEF Rest
<1>2. QED
  BY <1>1, BytesNat

\* An eviction leaves the rest of the buffer and its exact count: the
\* subtraction never saturates.
LEMMA EvictedExact ==
  ASSUME NEW s \in Seq(Records), NEW n \in 0..Len(s)
  PROVE  Volatile!Evicted(s, Volatile!BytesOf(s), n)
           = [buffer |-> Rest(s, n), count |-> Volatile!BytesOf(Rest(s, n))]
<1> DEFINE front == SubSeq(s, 1, n)
<1>1. Volatile!BytesOf(s) = Volatile!BytesOf(front) + Volatile!BytesOf(Rest(s, n))
  BY BytesSplit DEF Rest
<1>2. front \in Seq(Records)
  OBVIOUS
<1>3. Volatile!BytesOf(front) \in Nat /\ Volatile!BytesOf(Rest(s, n)) \in Nat
  BY <1>2, BytesNat, RestTyped
<1>4. Volatile!Minus(Volatile!BytesOf(s), Volatile!BytesOf(front)) = Volatile!BytesOf(Rest(s, n))
  BY <1>1, <1>3 DEF Volatile!Minus
<1>5. QED
  BY <1>4 DEF Volatile!Evicted, Rest

\* The loop over the bytes stops as soon as what is left fits.
TooBig(s, n) == MaxBytes # 0 /\ Len(s) - n > 1 /\ Volatile!BytesOf(Rest(s, n)) > MaxBytes

LEMMA EvictForBytesLeaves ==
  ASSUME NEW s \in Seq(Records), Len(s) > 0
  PROVE  \E n \in 0..(Len(s) - 1) :
           /\ Volatile!EvictForBytes(s, Volatile!BytesOf(s))
                = [buffer |-> Rest(s, n), count |-> Volatile!BytesOf(Rest(s, n))]
           /\ ~TooBig(s, n)
           /\ n > 0 => TooBig(s, n - 1)
<1> DEFINE Out(n) == Volatile!Evicted(s, Volatile!BytesOf(s), n)
           Fit(n) == Out(n).count <= MaxBytes \/ Len(Out(n).buffer) <= 1
<1>1. Len(s) \in Nat /\ MaxBytes \in Nat
  BY BusAssumption
<1>2. CASE MaxBytes = 0
  <2>1. Volatile!EvictForBytes(s, Volatile!BytesOf(s)) = Out(0)
    BY <1>2 DEF Volatile!EvictForBytes
  <2>2. QED
    BY <1>1, <1>2, <2>1, EvictedExact DEF TooBig
<1>3. CASE MaxBytes # 0
  <2>1. \A n \in 0..Len(s) : Fit(n) <=> ~TooBig(s, n)
    <3> TAKE n \in 0..Len(s)
    <3>1. /\ Out(n).count = Volatile!BytesOf(Rest(s, n))
          /\ Out(n).buffer = Rest(s, n)
      BY EvictedExact
    <3>2. Len(Rest(s, n)) = Len(s) - n /\ Volatile!BytesOf(Rest(s, n)) \in Nat
      BY RestTyped
    <3> HIDE DEF Out
    <3>3. QED
      BY <1>1, <1>3, <3>1, <3>2 DEF TooBig
  <2> DEFINE T == {n \in 0..Len(s) : Fit(n)}
  <2>2. Len(s) - 1 \in T
    BY <1>1, <2>1 DEF TooBig
  <2>3. T \subseteq Nat
    OBVIOUS
  <2>4. \E n \in 0..Len(s) : Fit(n) /\ \A k \in 0..(n - 1) : ~Fit(k)
    <3>1. PICK n \in T : \A k \in T : ~ (k < n)
      <4> HIDE DEF T
      <4>1. QED
        BY <2>2, <2>3, LeastNat
    <3>2. \A k \in 0..(n - 1) : k \in 0..Len(s) /\ k < n
      BY <1>1
    <3>3. QED
      BY <3>1, <3>2
  <2> DEFINE N == CHOOSE n \in 0..Len(s) : Fit(n) /\ \A k \in 0..(n - 1) : ~Fit(k)
  <2>5. N \in 0..Len(s) /\ Fit(N) /\ \A k \in 0..(N - 1) : ~Fit(k)
    BY <2>4
  <2>6. Volatile!EvictForBytes(s, Volatile!BytesOf(s)) = Out(N)
    BY <1>3 DEF Volatile!EvictForBytes
  <2> HIDE DEF N
  <2>7. N <= Len(s) - 1
    <3>1. ~ (Len(s) - 1 \in 0..(N - 1))
      BY <2>2, <2>5
    <3>2. QED
      BY <1>1, <2>5, <3>1
  <2>8. N \in 0..(Len(s) - 1) /\ (N > 0 => N - 1 \in 0..(N - 1) /\ N - 1 \in 0..Len(s))
    BY <1>1, <2>5, <2>7
  <2>9. Out(N) = [buffer |-> Rest(s, N), count |-> Volatile!BytesOf(Rest(s, N))]
    BY <2>5, EvictedExact
  <2> HIDE DEF Out, Fit
  <2>10. QED
    BY <2>1, <2>5, <2>6, <2>8, <2>9
<1>4. QED
  BY <1>2, <1>3

LEMMA RestOfRest ==
  ASSUME NEW s \in Seq(Records), NEW m \in 0..Len(s), NEW k \in 0..(Len(s) - m)
  PROVE  Rest(Rest(s, m), k) = Rest(s, m + k)
  BY DEF Rest

LEMMA RestOfAppend ==
  ASSUME NEW s \in Seq(Records), NEW r \in Records, NEW m \in 0..Len(s)
  PROVE  Rest(Append(s, r), m) = Append(Rest(s, m), r)
<1> DEFINE longer == Append(s, r)
           u == SubSeq(longer, m + 1, Len(longer))
           v == Append(SubSeq(s, m + 1, Len(s)), r)
<1>1. /\ longer \in Seq(Records) /\ Len(longer) = Len(s) + 1
      /\ \A i \in 1..Len(s) : longer[i] = s[i]
      /\ longer[Len(s) + 1] = r
  OBVIOUS
<1>2. /\ u \in Seq(Records) /\ Len(u) = Len(s) + 1 - m
      /\ \A i \in 1..(Len(s) + 1 - m) : u[i] = longer[m + i]
  <2> HIDE DEF longer
  <2>1. QED
    BY <1>1
<1>3. /\ v \in Seq(Records) /\ Len(v) = Len(s) + 1 - m
      /\ \A i \in 1..(Len(s) - m) : v[i] = s[m + i]
      /\ v[Len(s) + 1 - m] = r
  OBVIOUS
<1> HIDE DEF longer, u, v
<1>4. \A i \in 1..Len(u) : u[i] = v[i]
  <2> TAKE i \in 1..Len(u)
  <2>1. CASE i <= Len(s) - m
    <3>1. /\ i \in 1..(Len(s) + 1 - m) /\ i \in 1..(Len(s) - m)
          /\ m + i \in 1..Len(s)
      BY <1>2, <2>1
    <3>2. u[i] = longer[m + i] /\ v[i] = s[m + i] /\ longer[m + i] = s[m + i]
      BY <1>1, <1>2, <1>3, <3>1
    <3>3. QED
      BY <3>2
  <2>2. CASE i = Len(s) + 1 - m
    <3>1. m + i = Len(s) + 1 /\ i \in 1..(Len(s) + 1 - m)
      BY <1>2, <2>2
    <3>2. u[i] = longer[Len(s) + 1]
      BY <1>2, <3>1
    <3>3. QED
      BY <1>1, <1>3, <2>2, <3>2
  <2>3. QED
    BY <1>2, <2>1, <2>2
<1>5. u = v
  BY <1>2, <1>3, <1>4, SeqEqual
<1>6. QED
  BY <1>5 DEF u, v, longer, Rest

\* push() drops n of the oldest, and no more than its two ceilings ask for.
LEMMA PushLeaves ==
  ASSUME entries \in Seq(Records), bytes = Volatile!BytesOf(entries),
         Len(entries) <= Capacity, NEW r \in Records, Volatile!Push(r)
  PROVE  \E n \in 0..Len(entries) :
           /\ entries' = Rest(Append(entries, r), n)
           /\ bytes' = Volatile!BytesOf(entries')
           /\ Len(entries') <= Capacity
           /\ ~TooBig(Append(entries, r), n)
           /\ n > 0 => \/ Len(entries) + 1 - (n - 1) > Capacity
                       \/ TooBig(Append(entries, r), n - 1)
<1> DEFINE longer == Append(entries, r)
           m == IF Len(longer) > Capacity THEN Len(longer) - Capacity ELSE 0
           kept == Rest(longer, m)
<1>1. longer \in Seq(Records) /\ Len(longer) = Len(entries) + 1 /\ Len(entries) \in Nat
  OBVIOUS
<1>2. Volatile!BytesOf(longer) = bytes + Size[r]
  BY BytesAppend
<1>3. m \in 0..1 /\ m \in 0..Len(longer) /\ Len(longer) - m > 0 /\ Len(longer) - m <= Capacity
  <2> HIDE DEF longer
  <2>1. Capacity \in Nat /\ Capacity > 0
    BY BusAssumption
  <2>2. CASE Len(longer) > Capacity
    <3>1. Len(longer) = Capacity + 1 /\ m = 1
      BY <1>1, <2>1, <2>2
    <3> HIDE DEF m
    <3>2. QED
      BY <1>1, <2>1, <3>1
  <2>3. CASE ~ (Len(longer) > Capacity)
    <3>1. m = 0
      BY <2>3
    <3> HIDE DEF m
    <3>2. QED
      BY <1>1, <2>1, <2>3, <3>1
  <2>4. QED
    BY <2>2, <2>3
<1>4. Volatile!EvictForCapacity(longer, bytes + Size[r])
        = [buffer |-> kept, count |-> Volatile!BytesOf(kept)]
  <2>1. Volatile!EvictForCapacity(longer, bytes + Size[r])
          = Volatile!Evicted(longer, Volatile!BytesOf(longer), m)
    BY <1>2 DEF Volatile!EvictForCapacity
  <2> HIDE DEF m, longer
  <2>2. QED
    BY <1>1, <1>3, <2>1, EvictedExact
<1> HIDE DEF longer
<1>5. kept \in Seq(Records) /\ Len(kept) = Len(longer) - m
  BY <1>1, <1>3, RestTyped
<1>6. PICK k \in 0..(Len(kept) - 1) :
        /\ Volatile!EvictForBytes(kept, Volatile!BytesOf(kept))
             = [buffer |-> Rest(kept, k), count |-> Volatile!BytesOf(Rest(kept, k))]
        /\ ~TooBig(kept, k)
        /\ k > 0 => TooBig(kept, k - 1)
  BY <1>3, <1>5, EvictForBytesLeaves
<1>7. entries' = Rest(kept, k) /\ bytes' = Volatile!BytesOf(Rest(kept, k))
  BY <1>4, <1>6 DEF Volatile!Push, longer
<1>8. m + k \in 0..Len(entries)
  BY <1>1, <1>3, <1>5
<1>9. \A j \in 0..(Len(longer) - m) : Rest(kept, j) = Rest(longer, m + j)
  BY <1>1, <1>3, RestOfRest
<1>10. \A j \in 0..k : TooBig(kept, j) <=> TooBig(longer, m + j)
  <2> TAKE j \in 0..k
  <2>1. j \in 0..(Len(longer) - m) /\ Len(kept) - j = Len(longer) - (m + j)
    BY SMTT(30), <1>1, <1>3, <1>5
  <2>2. QED
    BY <1>9, <2>1 DEF TooBig
<1>11. entries' = Rest(longer, m + k)
  BY <1>3, <1>5, <1>7, <1>9
<1>12. Len(entries') <= Capacity
  <2>1. Len(entries') = Len(longer) - (m + k)
    <3>1. k \in 0..Len(kept)
      BY <1>1, <1>3, <1>5
    <3>2. Len(Rest(kept, k)) = Len(kept) - k
      BY <1>5, <3>1, RestTyped
    <3> HIDE DEF m
    <3>3. QED
      BY <1>1, <1>3, <1>5, <1>7, <3>2
  <2>2. Capacity \in Nat
    BY BusAssumption
  <2> HIDE DEF m
  <2>3. QED
    BY <1>1, <1>3, <1>5, <2>1, <2>2
<1>13. ~TooBig(longer, m + k)
  BY <1>5, <1>6, <1>10
<1> DEFINE n == m + k
<1>14. ASSUME n > 0
       PROVE  Len(entries) + 1 - (n - 1) > Capacity \/ TooBig(longer, n - 1)
  <2>1. CASE k > 0
    <3>1. k - 1 \in 0..k /\ m + (k - 1) = n - 1
      BY <1>3, <1>5, <2>1
    <3>2. TooBig(longer, m + (k - 1))
      BY <1>6, <1>10, <2>1, <3>1
    <3>3. QED
      BY <3>1, <3>2
  <2>2. CASE ~ (k > 0)
    <3>1. k = 0 /\ m = 1
      BY <1>3, <1>5, <1>14, <2>2
    <3>2. Len(longer) > Capacity /\ n = 1
      BY <3>1
    <3> HIDE DEF n
    <3>3. QED
      BY <1>1, <3>2
  <2>3. QED
    BY <2>1, <2>2
<1> HIDE DEF m
<1>15. bytes' = Volatile!BytesOf(entries')
  BY <1>7
<1>16. n \in 0..Len(entries) /\ entries' = Rest(longer, n) /\ ~TooBig(longer, n)
  BY <1>8, <1>11, <1>13
<1> HIDE DEF n
<1>17. QED
  BY <1>12, <1>14, <1>15, <1>16 DEF longer

-----------------------------------------------------------------------------
(* The bus                                                                  *)

\* The mutex is held by the writer that is at the file, and by nobody else.
Mutex == \A w \in Writers : writing[w] \in {"line", "newline"} <=> holder = w

BusInv ==
  /\ BusTypeOK
  /\ bytes = Volatile!BytesOf(entries)
  /\ Len(entries) <= Capacity
  /\ \A w \in Writers : writing[w] \in Busy => job[w] \in Records
  /\ Mutex

LEMMA BusStart == BusInit => BusInv
<1> SUFFICES ASSUME BusInit PROVE BusInv
  OBVIOUS
<1>1. /\ entries = <<>> /\ bytes = 0 /\ lines = <<>> /\ open = <<>>
      /\ holder = Journal!Nobody /\ index = {}
      /\ writing = [w \in Writers |-> "idle"] /\ job = [w \in Writers |-> NoRecord]
  BY DEF BusInit, Volatile!VolatileInit, Journal!JournalInit, Vector!VectorInit
<1>2. BusTypeOK
  BY <1>1 DEF BusTypeOK, Volatile!VolatileTypeOK, Journal!JournalTypeOK
<1>3. bytes = Volatile!BytesOf(entries) /\ Len(entries) <= Capacity
  BY <1>1, BytesEmpty, BusAssumption
<1>4. Mutex
  BY <1>1, MutexAssumption DEF Mutex
<1>5. QED
  BY <1>1, <1>2, <1>3, <1>4 DEF BusInv, Busy

LEMMA PieceTyped ==
  ASSUME NEW r \in Records
  PROVE  Journal!Whole(r) \in Journal!Piece /\ Journal!Part(r) \in Journal!Piece
  BY DEF Journal!Whole, Journal!Part, Journal!Piece

\* A line without its last piece.
Shortened(s) == SubSeq(s, 1, Len(s) - 1)

\* What stopping early does to the file, by where the writer stands.
LEMMA AbandonCases ==
  ASSUME NEW w \in Writers, Abandon(w)
  PROVE  /\ writing[w] = "line" =>
              /\ holder' = Journal!Nobody /\ lines' = lines
              /\ open' = open \/ open' = Append(open, Journal!Part(job[w]))
         /\ writing[w] = "newline" =>
              /\ holder' = Journal!Nobody
              /\ \/ lines' = lines /\ open' = open
                 \/ lines' = lines /\ open' = Shortened(open)
                 \/ lines' = lines /\ open' = Append(Shortened(open), Journal!Part(job[w]))
                 \/ lines' = Append(lines, open) /\ open' = <<>>
         /\ writing[w] \notin {"line", "newline"} =>
              lines' = lines /\ open' = open /\ holder' = holder
<1>1. CASE writing[w] = "line"
  BY <1>1 DEF Abandon, Journal!AbandonLine
<1>2. CASE writing[w] = "newline"
  BY <1>2 DEF Abandon, Journal!AbandonNewline, Shortened
<1>3. CASE writing[w] \notin {"line", "newline"}
  BY <1>3 DEF Abandon, journalVars
<1>4. QED
  BY <1>1, <1>2, <1>3

LEMMA AbandonTyped ==
  ASSUME Journal!JournalTypeOK, NEW w \in Writers, Abandon(w),
         writing[w] \in {"line", "newline"} => job[w] \in Records
  PROVE  /\ Journal!JournalTypeOK'
         /\ holder' = IF writing[w] \in {"line", "newline"} THEN Journal!Nobody ELSE holder
<1> USE DEF Journal!JournalTypeOK
<1>1. CASE writing[w] = "line"
  <2>1. Append(open, Journal!Part(job[w])) \in Seq(Journal!Piece)
    BY <1>1, PieceTyped
  <2>2. /\ holder' = Journal!Nobody /\ lines' = lines
        /\ open' = open \/ open' = Append(open, Journal!Part(job[w]))
    BY <1>1, AbandonCases
  <2>3. QED
    BY <1>1, <2>1, <2>2
<1>2. CASE writing[w] = "newline"
  <2>1. Shortened(open) \in Seq(Journal!Piece)
    BY DEF Shortened
  <2>2. Append(Shortened(open), Journal!Part(job[w])) \in Seq(Journal!Piece)
    BY <1>2, <2>1, PieceTyped
  <2>3. <<>> \in Seq(Journal!Piece) /\ Append(lines, open) \in Seq(Seq(Journal!Piece))
    OBVIOUS
  <2>4. holder' = Journal!Nobody
    BY <1>2, AbandonCases
  <2>5. lines' \in Seq(Seq(Journal!Piece)) /\ open' \in Seq(Journal!Piece)
    BY <1>2, <2>1, <2>2, <2>3, AbandonCases
  <2>6. QED
    BY <1>2, <2>4, <2>5
<1>3. CASE writing[w] \notin {"line", "newline"}
  BY <1>3, AbandonCases
<1>4. QED
  BY <1>1, <1>2, <1>3

LEMMA BusStep ==
  ASSUME BusInv, NEW w \in Writers,
         \/ \E r \in Records : PushVolatile(w, r)
         \/ RecordStep(w) \/ RecordFails(w) \/ RecordDropped(w)
  PROVE  BusInv'
<1> USE DEF Goto, Busy
<1>1. ASSUME NEW r \in Records, PushVolatile(w, r) PROVE BusInv'
  <2>1. /\ writing[w] \notin Busy /\ Volatile!Push(r)
        /\ job' = [job EXCEPT ![w] = r] /\ writing' = [writing EXCEPT ![w] = "lock"]
        /\ UNCHANGED <<lines, open, holder, index>>
    BY <1>1 DEF PushVolatile, journalVars
  <2>2. PICK n \in 0..Len(entries) :
          /\ entries' = Rest(Append(entries, r), n)
          /\ bytes' = Volatile!BytesOf(entries')
          /\ Len(entries') <= Capacity
    BY <2>1, PushLeaves DEF BusInv, BusTypeOK, Volatile!VolatileTypeOK
  <2>3. entries' \in Seq(Records) /\ bytes' \in Nat
    <3>1. Append(entries, r) \in Seq(Records) /\ n \in 0..Len(Append(entries, r))
      BY DEF BusInv, BusTypeOK, Volatile!VolatileTypeOK
    <3>2. QED
      BY <2>2, <3>1, RestTyped
  <2>4. BusTypeOK'
    BY <2>1, <2>3 DEF BusInv, BusTypeOK, Volatile!VolatileTypeOK, Journal!JournalTypeOK
  <2>5. Mutex'
    BY <2>1 DEF BusInv, BusTypeOK, Mutex
  <2>6. \A v \in Writers : writing'[v] \in Busy => job'[v] \in Records
    BY <2>1 DEF BusInv, BusTypeOK
  <2>7. QED
    BY <2>2, <2>4, <2>5, <2>6 DEF BusInv
<1>2. CASE LockJournal(w)
  <2>1. /\ writing[w] = "lock" /\ holder = Journal!Nobody /\ holder' = w
        /\ writing' = [writing EXCEPT ![w] = "line"]
        /\ UNCHANGED <<entries, bytes, lines, open, index, job>>
    BY <1>2 DEF LockJournal, Journal!Lock, volatileVars
  <2>2. BusTypeOK'
    BY <2>1 DEF BusInv, BusTypeOK, Volatile!VolatileTypeOK, Journal!JournalTypeOK
  <2>3. Mutex'
    BY <2>1, MutexAssumption DEF BusInv, BusTypeOK, Mutex
  <2>4. QED
    BY <2>1, <2>2, <2>3 DEF BusInv, BusTypeOK
<1>3. CASE WriteLine(w)
  <2>1. /\ writing[w] = "line" /\ open' = Append(open, Journal!Whole(job[w]))
        /\ writing' = [writing EXCEPT ![w] = "newline"]
        /\ UNCHANGED <<entries, bytes, lines, holder, index, job>>
    BY <1>3 DEF WriteLine, Journal!WriteLine, volatileVars
  <2>2. Journal!Whole(job[w]) \in Journal!Piece
    BY <2>1, PieceTyped DEF BusInv
  <2>3. BusTypeOK'
    BY <2>1, <2>2 DEF BusInv, BusTypeOK, Volatile!VolatileTypeOK, Journal!JournalTypeOK
  <2>4. Mutex'
    BY <2>1 DEF BusInv, BusTypeOK, Mutex
  <2>5. QED
    BY <2>1, <2>3, <2>4 DEF BusInv, BusTypeOK
<1>4. CASE WriteNewline(w)
  <2>1. /\ writing[w] = "newline" /\ lines' = Append(lines, open) /\ open' = <<>>
        /\ holder' = Journal!Nobody
        /\ \E to \in {"index", "ok"} : writing' = [writing EXCEPT ![w] = to]
        /\ UNCHANGED <<entries, bytes, index, job>>
    BY <1>4 DEF WriteNewline, Journal!WriteNewline, volatileVars
  <2>2. BusTypeOK'
    BY <2>1 DEF BusInv, BusTypeOK, Volatile!VolatileTypeOK, Journal!JournalTypeOK
  <2>3. Mutex'
    BY <2>1, MutexAssumption DEF BusInv, BusTypeOK, Mutex
  <2>4. QED
    BY <2>1, <2>2, <2>3 DEF BusInv, BusTypeOK
<1>5. CASE Upsert(w)
  <2>1. /\ writing[w] = "index" /\ Vector!Upsert(job[w])
        /\ writing' = [writing EXCEPT ![w] = "ok"]
        /\ UNCHANGED <<entries, bytes, lines, open, holder, job>>
    BY <1>5 DEF Upsert, volatileVars, journalVars
  <2>2. index' \in SUBSET Records
    BY <2>1 DEF Vector!Upsert, BusInv, BusTypeOK
  <2>3. BusTypeOK'
    BY <2>1, <2>2 DEF BusInv, BusTypeOK, Volatile!VolatileTypeOK, Journal!JournalTypeOK
  <2>4. Mutex'
    BY <2>1 DEF BusInv, BusTypeOK, Mutex
  <2>5. QED
    BY <2>1, <2>3, <2>4 DEF BusInv, BusTypeOK
<1>6. CASE RecordFails(w) \/ RecordDropped(w)
  <2>1. /\ writing[w] \in Busy /\ Abandon(w)
        /\ writing' = [writing EXCEPT ![w] = "failed"]
        /\ UNCHANGED <<entries, bytes, index, job>>
    BY <1>6 DEF RecordFails, RecordDropped, volatileVars
  <2>2. job[w] \in Records /\ Journal!JournalTypeOK
    BY <2>1 DEF BusInv, BusTypeOK
  <2>3. /\ Journal!JournalTypeOK'
        /\ holder' = IF writing[w] \in {"line", "newline"} THEN Journal!Nobody ELSE holder
    BY <2>1, <2>2, AbandonTyped
  <2>4. BusTypeOK'
    BY <2>1, <2>3 DEF BusInv, BusTypeOK, Volatile!VolatileTypeOK
  <2>5. Mutex'
    BY <2>1, <2>3, MutexAssumption DEF BusInv, BusTypeOK, Mutex
  <2>6. QED
    BY <2>1, <2>4, <2>5 DEF BusInv, BusTypeOK
<1>7. QED
  BY <1>1, <1>2, <1>3, <1>4, <1>5, <1>6 DEF RecordStep

-----------------------------------------------------------------------------
(* The journal file                                                         *)

\* The finished lines and the unfinished one after them.
Line(i) == IF i <= Len(lines) THEN lines[i] ELSE open

Holds(p, i, k) == i \in 1..(Len(lines) + 1) /\ k \in 1..Len(Line(i)) /\ Line(i)[k] = p

Mentions(r, i, k) == Holds(Journal!Whole(r), i, k) \/ Holds(Journal!Part(r), i, k)

\* A record is in the file at most once, whole or in part; not at all before its
\* writer has begun to write it, and at the very end while its newline is due.
FileInv ==
  /\ \A v, w \in Writers : job[v] = job[w] /\ job[v] \in Records => v = w
  /\ \A r \in Records, i, j, k, l \in Nat :
       Mentions(r, i, k) /\ Mentions(r, j, l) => i = j /\ k = l
  /\ \A w \in Writers, i, k \in Nat : writing[w] \in {"lock", "line"} => ~Mentions(job[w], i, k)
  /\ \A w \in Writers : writing[w] = "newline"
       => Len(open) > 0 /\ open[Len(open)] = Journal!Whole(job[w])

LEMMA FileStart == BusInit => FileInv
<1> SUFFICES ASSUME BusInit PROVE FileInv
  OBVIOUS
<1>1. /\ lines = <<>> /\ open = <<>>
      /\ writing = [w \in Writers |-> "idle"] /\ job = [w \in Writers |-> NoRecord]
  BY DEF BusInit, Journal!JournalInit
<1>2. \A p, i, k : ~Holds(p, i, k)
  BY <1>1 DEF Holds, Line
<1>3. QED
  BY <1>1, <1>2, BusAssumption DEF FileInv, Mentions

\* What the four ways to change the file do to what is where.
LEMMA HoldsSame ==
  ASSUME lines' = lines, open' = open, NEW p, NEW i, NEW k
  PROVE  Holds(p, i, k)' <=> Holds(p, i, k)
  BY DEF Holds, Line

LEMMA HoldsAppend ==
  ASSUME Journal!JournalTypeOK, NEW s \in Journal!Piece,
         lines' = lines, open' = Append(open, s),
         NEW p, NEW i \in Nat, NEW k \in Nat
  PROVE  Holds(p, i, k)' <=> \/ Holds(p, i, k)
                             \/ i = Len(lines) + 1 /\ k = Len(open) + 1 /\ p = s
<1>1. /\ Len(open') = Len(open) + 1 /\ open'[Len(open) + 1] = s
      /\ \A m \in 1..Len(open) : open'[m] = open[m]
      /\ Len(open) \in Nat /\ Len(lines) \in Nat
  BY DEF Journal!JournalTypeOK
<1>2. CASE i <= Len(lines)
  BY <1>1, <1>2 DEF Holds, Line
<1>3. CASE i > Len(lines)
  BY <1>1, <1>3 DEF Holds, Line
<1>4. QED
  BY <1>1, <1>2, <1>3

LEMMA HoldsNewline ==
  ASSUME Journal!JournalTypeOK, lines' = Append(lines, open), open' = <<>>,
         NEW p, NEW i \in Nat, NEW k \in Nat
  PROVE  Holds(p, i, k)' <=> Holds(p, i, k)
<1>1. /\ Len(lines') = Len(lines) + 1 /\ lines'[Len(lines) + 1] = open
      /\ \A m \in 1..Len(lines) : lines'[m] = lines[m]
      /\ Len(open) \in Nat /\ Len(lines) \in Nat /\ Len(open') = 0
  BY DEF Journal!JournalTypeOK
<1>2. CASE i <= Len(lines)
  BY <1>1, <1>2 DEF Holds, Line
<1>3. CASE i = Len(lines) + 1
  BY <1>1, <1>3 DEF Holds, Line
<1>4. CASE i > Len(lines) + 1
  BY <1>1, <1>4 DEF Holds, Line
<1>5. QED
  BY <1>1, <1>2, <1>3, <1>4

LEMMA ShortenedIs ==
  ASSUME NEW S, NEW s \in Seq(S), Len(s) > 0
  PROVE  /\ Shortened(s) \in Seq(S)
         /\ Len(Shortened(s)) = Len(s) - 1
         /\ \A m \in 1..(Len(s) - 1) : Shortened(s)[m] = s[m]
<1>1. Len(s) \in Nat /\ Len(s) - 1 \in Nat /\ Len(s) - 1 <= Len(s)
  OBVIOUS
<1>2. Shortened(s) = [m \in 1..(Len(s) - 1) |-> s[m]]
  BY <1>1 DEF Shortened
<1>3. \A m \in 1..(Len(s) - 1) : s[m] \in S
  OBVIOUS
<1>4. QED
  BY <1>1, <1>2, <1>3

LEMMA HoldsShorter ==
  ASSUME Journal!JournalTypeOK, lines' = lines, open' = Shortened(open), Len(open) > 0,
         NEW p, NEW i \in Nat, NEW k \in Nat
  PROVE  Holds(p, i, k)' <=> Holds(p, i, k) /\ ~ (i = Len(lines) + 1 /\ k = Len(open))
<1>1. /\ Len(open') = Len(open) - 1
      /\ \A m \in 1..(Len(open) - 1) : open'[m] = open[m]
      /\ Len(open) \in Nat /\ Len(lines) \in Nat
  BY ShortenedIs DEF Journal!JournalTypeOK
<1>2. CASE i <= Len(lines)
  BY <1>1, <1>2 DEF Holds, Line
<1>3. CASE i > Len(lines)
  BY SMTT(30), <1>1, <1>3 DEF Holds, Line
<1>4. QED
  BY <1>1, <1>2, <1>3

LEMMA HoldsReplaced ==
  ASSUME Journal!JournalTypeOK, NEW s \in Journal!Piece,
         lines' = lines, open' = Append(Shortened(open), s), Len(open) > 0,
         NEW p, NEW i \in Nat, NEW k \in Nat
  PROVE  Holds(p, i, k)'
           <=> IF i = Len(lines) + 1 /\ k = Len(open) THEN p = s ELSE Holds(p, i, k)
<1>1. /\ Shortened(open) \in Seq(Journal!Piece)
      /\ Len(Shortened(open)) = Len(open) - 1
      /\ \A m \in 1..(Len(open) - 1) : Shortened(open)[m] = open[m]
      /\ Len(open) \in Nat /\ Len(lines) \in Nat
  BY ShortenedIs DEF Journal!JournalTypeOK
<1>2. /\ Len(open') = Len(open) /\ open'[Len(open)] = s
      /\ \A m \in 1..(Len(open) - 1) : open'[m] = open[m]
  BY <1>1
<1>3. CASE i <= Len(lines)
  BY <1>1, <1>2, <1>3 DEF Holds, Line
<1>4. CASE i = Len(lines) + 1
  <2>1. /\ Holds(p, i, k)' <=> k \in 1..Len(open) /\ open'[k] = p
        /\ Holds(p, i, k) <=> k \in 1..Len(open) /\ open[k] = p
    BY <1>1, <1>2, <1>4 DEF Holds, Line
  <2>2. QED
    BY <1>1, <1>2, <1>4, <2>1
<1>5. CASE i > Len(lines) + 1
  BY <1>1, <1>5 DEF Holds
<1>6. QED
  BY <1>1, <1>3, <1>4, <1>5

\* What one step may do to the file: add record x, whole or in part, at the end;
\* or finish the line or take x away again, when x is what it ends with.
Adds(x) ==
  /\ lines' = lines
  /\ open' = Append(open, Journal!Whole(x)) \/ open' = Append(open, Journal!Part(x))

Keeps(x) ==
  \/ lines' = lines /\ open' = open
  \/ /\ Len(open) > 0 /\ open[Len(open)] = Journal!Whole(x)
     /\ \/ lines' = Append(lines, open) /\ open' = <<>>
        \/ lines' = lines /\ open' = Shortened(open)
        \/ lines' = lines /\ open' = Append(Shortened(open), Journal!Part(x))

LEMMA PiecesDiffer ==
  ASSUME NEW r, NEW x
  PROVE  /\ Journal!Whole(r) # Journal!Part(x)
         /\ r # x => /\ Journal!Whole(r) # Journal!Whole(x)
                     /\ Journal!Part(r) # Journal!Part(x)
<1>1. Journal!Whole(r).whole /\ ~Journal!Part(x).whole
  BY DEF Journal!Whole, Journal!Part
<1>2. /\ Journal!Whole(r).record = r /\ Journal!Part(r).record = r
      /\ Journal!Whole(x).record = x /\ Journal!Part(x).record = x
  BY DEF Journal!Whole, Journal!Part
<1>3. QED
  BY <1>1, <1>2

LEMMA FileAdds ==
  ASSUME Journal!JournalTypeOK, NEW x \in Records, Adds(x),
         NEW r \in Records, NEW i \in Nat, NEW k \in Nat
  PROVE  Mentions(r, i, k)' <=> \/ Mentions(r, i, k)
                                \/ r = x /\ i = Len(lines) + 1 /\ k = Len(open) + 1
<1>1. CASE open' = Append(open, Journal!Whole(x))
  BY <1>1, PiecesDiffer, HoldsAppend, PieceTyped DEF Mentions, Adds
<1>2. CASE open' = Append(open, Journal!Part(x))
  BY <1>2, PiecesDiffer, HoldsAppend, PieceTyped DEF Mentions, Adds
<1>3. QED
  BY <1>1, <1>2 DEF Adds

LEMMA FileKeeps ==
  ASSUME Journal!JournalTypeOK, NEW x \in Records, Keeps(x),
         NEW r \in Records, NEW i \in Nat, NEW k \in Nat
  PROVE  /\ Mentions(r, i, k)' => Mentions(r, i, k)
         /\ r # x /\ Mentions(r, i, k) => Mentions(r, i, k)'
<1>1. CASE lines' = lines /\ open' = open
  BY <1>1, HoldsSame DEF Mentions
<1> DEFINE last == Len(lines) + 1
<1>2. CASE /\ Len(open) > 0 /\ open[Len(open)] = Journal!Whole(x)
           /\ \/ lines' = Append(lines, open) /\ open' = <<>>
              \/ lines' = lines /\ open' = Shortened(open)
              \/ lines' = lines /\ open' = Append(Shortened(open), Journal!Part(x))
  <2>1. \A p : Holds(p, last, Len(open)) <=> p = Journal!Whole(x)
    BY <1>2 DEF Holds, Line, Journal!JournalTypeOK
  <2>2. CASE lines' = Append(lines, open) /\ open' = <<>>
    BY <2>2, HoldsNewline DEF Mentions
  <2>3. CASE lines' = lines /\ open' = Shortened(open)
    <3>1. \A p : Holds(p, i, k)' <=> Holds(p, i, k) /\ ~ (i = last /\ k = Len(open))
      BY <1>2, <2>3, HoldsShorter
    <3>2. QED
      BY <2>1, <3>1, PiecesDiffer DEF Mentions
  <2>4. CASE lines' = lines /\ open' = Append(Shortened(open), Journal!Part(x))
    <3>1. \A p : Holds(p, i, k)'
                   <=> IF i = last /\ k = Len(open) THEN p = Journal!Part(x) ELSE Holds(p, i, k)
      BY <1>2, <2>4, HoldsReplaced, PieceTyped
    <3>2. QED
      BY <2>1, <3>1, PiecesDiffer DEF Mentions
  <2>5. QED
    BY <1>2, <2>2, <2>3, <2>4
<1>3. QED
  BY <1>1, <1>2 DEF Keeps

\* The file stays in order when the writer of x, of which it said nothing
\* before, adds it, and when it keeps to what it has.
LEMMA FileKept ==
  ASSUME Journal!JournalTypeOK, FileInv, job' = job,
         NEW x \in Records,
         \/ Adds(x) /\ \A i, k \in Nat : ~Mentions(x, i, k)
         \/ Keeps(x),
         \A v \in Writers :
           /\ writing'[v] \in {"lock", "line"}
                => /\ writing[v] \in {"lock", "line"} /\ job[v] \in Records
                   /\ job[v] # x \/ Keeps(x)
           /\ writing'[v] = "newline"
                => Len(open') > 0 /\ open'[Len(open')] = Journal!Whole(job[v])
  PROVE  FileInv'
<1>1. ASSUME NEW r \in Records, NEW i \in Nat, NEW j \in Nat, NEW k \in Nat, NEW l \in Nat,
             Mentions(r, i, k)', Mentions(r, j, l)'
      PROVE  i = j /\ k = l
  <2>1. CASE Adds(x) /\ \A m, n \in Nat : ~Mentions(x, m, n)
    BY <1>1, <2>1, FileAdds DEF FileInv
  <2>2. CASE Keeps(x)
    BY <1>1, <2>2, FileKeeps DEF FileInv
  <2>3. QED
    BY <2>1, <2>2
<1>2. ASSUME NEW v \in Writers, NEW i \in Nat, NEW k \in Nat, writing'[v] \in {"lock", "line"},
             NEW r, r = job[v], Mentions(r, i, k)'
      PROVE  FALSE
  <2>1. /\ r \in Records /\ ~Mentions(r, i, k)
        /\ r # x \/ Keeps(x)
    BY <1>2 DEF FileInv
  <2>2. QED
    BY <1>2, <2>1, FileAdds, FileKeeps
<1>3. \A v \in Writers, i, k \in Nat :
        (writing[v] \in {"lock", "line"} => ~Mentions(job[v], i, k))'
  BY <1>2 DEF Mentions, Holds, Line, Journal!Whole, Journal!Part
<1>4. \A v \in Writers : (writing[v] = "newline"
        => Len(open) > 0 /\ open[Len(open)] = Journal!Whole(job[v]))'
  BY DEF Journal!Whole
<1>5. QED
  BY <1>1, <1>3, <1>4 DEF FileInv

LEMMA AbandonFile ==
  ASSUME FileInv, NEW w \in Writers, Abandon(w)
  PROVE  Keeps(job[w]) \/ (writing[w] = "line" /\ Adds(job[w]))
<1>1. CASE writing[w] = "line"
  BY <1>1, AbandonCases DEF Keeps, Adds
<1>2. CASE writing[w] = "newline"
  <2>1. Len(open) > 0 /\ open[Len(open)] = Journal!Whole(job[w])
    BY <1>2 DEF FileInv
  <2>2. QED
    BY <1>2, <2>1, AbandonCases DEF Keeps
<1>3. CASE writing[w] \notin {"line", "newline"}
  BY <1>3, AbandonCases DEF Keeps
<1>4. QED
  BY <1>1, <1>2, <1>3

\* One step of record(), or its end, as the file and its writer see it.
LEMMA StepFile ==
  ASSUME BusInv, FileInv, NEW w \in Writers,
         RecordStep(w) \/ RecordFails(w) \/ RecordDropped(w)
  PROVE  /\ writing[w] \in Busy /\ job[w] \in Records /\ job' = job
         /\ Keeps(job[w]) \/ (writing[w] = "line" /\ Adds(job[w]))
         /\ writing[w] \in {"line", "newline"} \/ (lines' = lines /\ open' = open)
         /\ \E to \in {"line", "newline", "index", "ok", "failed"} :
              /\ writing' = [writing EXCEPT ![w] = to]
              /\ to = "line" => writing[w] = "lock"
              /\ to = "newline" => open' = Append(open, Journal!Whole(job[w]))
              /\ to \in {"line", "newline", "index", "ok"} => RecordStep(w)
<1> USE DEF Goto, Busy
<1>1. CASE LockJournal(w)
  BY <1>1 DEF LockJournal, Journal!Lock, Keeps, BusInv, RecordStep
<1>2. CASE WriteLine(w)
  BY <1>2 DEF WriteLine, Journal!WriteLine, Adds, BusInv, RecordStep
<1>3. CASE WriteNewline(w)
  <2>1. Len(open) > 0 /\ open[Len(open)] = Journal!Whole(job[w])
    BY <1>3 DEF FileInv, WriteNewline
  <2>2. QED
    BY <1>3, <2>1 DEF WriteNewline, Journal!WriteNewline, Keeps, BusInv, RecordStep
<1>4. CASE Upsert(w)
  BY <1>4 DEF Upsert, journalVars, Keeps, BusInv, RecordStep
<1>5. CASE RecordFails(w) \/ RecordDropped(w)
  <2>1. /\ writing[w] \in Busy /\ Abandon(w) /\ job' = job
        /\ writing' = [writing EXCEPT ![w] = "failed"]
    BY <1>5 DEF RecordFails, RecordDropped
  <2>2. Keeps(job[w]) \/ (writing[w] = "line" /\ Adds(job[w]))
    BY <2>1, AbandonFile
  <2>3. writing[w] \in {"line", "newline"} \/ (lines' = lines /\ open' = open)
    BY <2>1, AbandonCases
  <2>4. QED
    BY <2>1, <2>2, <2>3 DEF BusInv
<1>6. QED
  BY <1>1, <1>2, <1>3, <1>4, <1>5 DEF RecordStep

LEMMA FileStep ==
  ASSUME BusInv, FileInv, NEW w \in Writers,
         RecordStep(w) \/ RecordFails(w) \/ RecordDropped(w)
  PROVE  FileInv'
<1> DEFINE x == job[w]
<1>1. PICK to \in {"line", "newline", "index", "ok", "failed"} :
        /\ writing' = [writing EXCEPT ![w] = to]
        /\ to = "line" => writing[w] = "lock"
        /\ to = "newline" => open' = Append(open, Journal!Whole(x))
  BY StepFile
<1>2. /\ writing[w] \in Busy /\ x \in Records /\ job' = job
      /\ Keeps(x) \/ (writing[w] = "line" /\ Adds(x))
      /\ writing[w] \in {"line", "newline"} \/ (lines' = lines /\ open' = open)
  BY StepFile
<1>3. /\ Journal!JournalTypeOK
      /\ writing \in [Writers -> Busy \cup {"idle", "ok", "failed"}]
      /\ \A v \in Writers : writing[v] \in Busy => job[v] \in Records
      /\ Mutex
  BY DEF BusInv, BusTypeOK
<1>4. Keeps(x) \/ (Adds(x) /\ \A i, k \in Nat : ~Mentions(x, i, k))
  BY <1>2 DEF FileInv
<1>5. ASSUME NEW v \in Writers, writing'[v] \in {"lock", "line"}
      PROVE  /\ writing[v] \in {"lock", "line"} /\ job[v] \in Records
             /\ job[v] # x \/ Keeps(x)
  <2>1. CASE v = w
    <3>1. writing[v] = "lock" /\ writing[w] # "line"
      BY <1>1, <1>3, <1>5, <2>1
    <3>2. QED
      BY <1>2, <2>1, <3>1
  <2>2. CASE v # w
    <3>1. writing[v] \in {"lock", "line"}
      BY <1>1, <1>3, <1>5, <2>2
    <3>2. job[v] \in Records
      BY <1>3, <3>1 DEF Busy
    <3>3. job[v] # x
      BY <1>2, <2>2, <3>2 DEF FileInv
    <3>4. QED
      BY <3>1, <3>2, <3>3
  <2>3. QED
    BY <2>1, <2>2
<1>6. ASSUME NEW v \in Writers, writing'[v] = "newline"
      PROVE  Len(open') > 0 /\ open'[Len(open')] = Journal!Whole(job[v])
  <2>1. CASE v = w
    <3>1. to = "newline"
      BY <1>1, <1>3, <1>6, <2>1
    <3>2. open' = Append(open, Journal!Whole(x)) /\ Journal!Whole(x) \in Journal!Piece
      BY <1>1, <1>2, <3>1, PieceTyped
    <3>3. QED
      BY <1>3, <2>1, <3>2 DEF Journal!JournalTypeOK
  <2>2. CASE v # w
    <3>1. writing[v] = "newline"
      BY <1>1, <1>3, <1>6, <2>2
    <3>2. writing[w] \notin {"line", "newline"}
      BY <1>3, <2>2, <3>1 DEF Mutex
    <3>3. open' = open
      BY <1>2, <3>2
    <3>4. QED
      BY <3>1, <3>3 DEF FileInv
  <2>3. QED
    BY <2>1, <2>2
<1> HIDE DEF x
<1>7. QED
  BY <1>2, <1>3, <1>4, <1>5, <1>6, FileKept

\* push() is about a record that the file does not mention and nobody else has.
LEMMA FilePush ==
  ASSUME BusInv, FileInv, NEW w \in Writers, NEW r \in Records, PushVolatile(w, r),
         \A i, k \in Nat : ~Mentions(r, i, k),
         \A v \in Writers : v # w => job[v] # r
  PROVE  FileInv'
<1>1. /\ job' = [job EXCEPT ![w] = r] /\ writing' = [writing EXCEPT ![w] = "lock"]
      /\ lines' = lines /\ open' = open
  BY DEF PushVolatile, Goto, journalVars
<1>2. /\ writing \in [Writers -> Busy \cup {"idle", "ok", "failed"}]
      /\ job \in [Writers -> Records \cup {NoRecord}]
  BY DEF BusInv, BusTypeOK
<1>3. \A p, i, k : Holds(p, i, k)' <=> Holds(p, i, k)
  BY <1>1, HoldsSame
<1>4. \A q \in Records, i, k \in Nat : Mentions(q, i, k)' <=> Mentions(q, i, k)
  BY <1>3 DEF Mentions
<1>5. \A u, v \in Writers : job'[u] = job'[v] /\ job'[u] \in Records => u = v
  BY <1>1, <1>2 DEF FileInv
<1>6. ASSUME NEW v \in Writers, NEW i \in Nat, NEW k \in Nat, writing'[v] \in {"lock", "line"}
      PROVE  ~ Mentions(job[v], i, k)'
  <2>1. CASE v = w
    BY <1>1, <1>2, <1>3, <2>1 DEF Mentions, Journal!Whole, Journal!Part
  <2>2. CASE v # w
    BY <1>1, <1>2, <1>3, <1>6, <2>2 DEF FileInv, Mentions, Journal!Whole, Journal!Part
  <2>3. QED
    BY <2>1, <2>2
<1>7. \A v \in Writers : (writing[v] = "newline"
        => Len(open) > 0 /\ open[Len(open)] = Journal!Whole(job[v]))'
  BY <1>1, <1>2 DEF FileInv, Journal!Whole
<1>8. QED
  BY <1>4, <1>5, <1>6, <1>7 DEF FileInv

LEMMA FileSame ==
  ASSUME FileInv, lines' = lines, open' = open, job' = job,
         \A v \in Writers : writing'[v] \in {"lock", "line", "newline"} => writing'[v] = writing[v]
  PROVE  FileInv'
<1>1. \A p, i, k : Holds(p, i, k)' <=> Holds(p, i, k)
  BY HoldsSame
<1>2. \A r \in Records, i, j, k, l \in Nat :
        (Mentions(r, i, k) /\ Mentions(r, j, l) => i = j /\ k = l)'
  BY <1>1 DEF FileInv, Mentions
<1>3. \A v \in Writers, i, k \in Nat :
        (writing[v] \in {"lock", "line"} => ~Mentions(job[v], i, k))'
  BY <1>1 DEF FileInv, Mentions, Journal!Whole, Journal!Part
<1>4. \A v \in Writers : (writing[v] = "newline"
        => Len(open) > 0 /\ open[Len(open)] = Journal!Whole(job[v]))'
  BY DEF FileInv, Journal!Whole
<1>5. QED
  BY <1>2, <1>3, <1>4 DEF FileInv

-----------------------------------------------------------------------------
(* The service: every record is worked on by one writer                     *)

Base ==
  /\ BusInv
  /\ FileInv
  /\ \A w \in Writers : writing[w] = "idle" <=> job[w] = NoRecord
  /\ \A r \in Records, i, k \in Nat : Mentions(r, i, k) => \E w \in Writers : job[w] = r

LEMMA BaseStart == Init => Base
<1> SUFFICES ASSUME Init PROVE Base
  OBVIOUS
<1>1. BusInit
  BY DEF Init
<1>2. /\ lines = <<>> /\ open = <<>>
      /\ writing = [w \in Writers |-> "idle"] /\ job = [w \in Writers |-> NoRecord]
  BY <1>1 DEF BusInit, Journal!JournalInit
<1>3. \A r, i, k : ~Mentions(r, i, k)
  BY <1>2 DEF Mentions, Holds, Line
<1>4. QED
  BY <1>1, <1>2, <1>3, BusStart, FileStart DEF Base

LEMMA BaseRecord ==
  ASSUME Base, NEW w \in Writers, NEW r \in Records, Record(w, r)
  PROVE  Base'
<1>1. /\ writing[w] = "idle" /\ r \notin Used /\ PushVolatile(w, r)
      /\ job' = [job EXCEPT ![w] = r] /\ writing' = [writing EXCEPT ![w] = "lock"]
      /\ lines' = lines /\ open' = open
  BY DEF Record, PushVolatile, Goto, journalVars
<1>2. /\ writing \in [Writers -> Busy \cup {"idle", "ok", "failed"}]
      /\ job \in [Writers -> Records \cup {NoRecord}]
  BY DEF Base, BusInv, BusTypeOK
<1>3. \A v \in Writers : job[v] # r
  BY <1>1 DEF Used
<1>4. \A i, k \in Nat : ~Mentions(r, i, k)
  BY <1>3 DEF Base
<1>5. BusInv' /\ FileInv'
  BY <1>1, <1>3, <1>4, BusStep, FilePush DEF Base
<1>6. \A v \in Writers : writing'[v] = "idle" <=> job'[v] = NoRecord
  BY <1>1, <1>2, BusAssumption DEF Base
<1>7. ASSUME NEW q \in Records, NEW i \in Nat, NEW k \in Nat, Mentions(q, i, k)'
      PROVE  \E v \in Writers : job'[v] = q
  <2>1. Mentions(q, i, k)
    BY <1>1, <1>7, HoldsSame DEF Mentions
  <2>2. PICK v \in Writers : job[v] = q
    BY <2>1 DEF Base
  <2>3. v # w
    BY <1>1, <2>2, BusAssumption DEF Base
  <2>4. QED
    BY <1>1, <1>2, <2>2, <2>3
<1>8. QED
  BY <1>5, <1>6, <1>7 DEF Base

LEMMA BaseProgress ==
  ASSUME Base, NEW w \in Writers,
         RecordStep(w) \/ RecordFails(w) \/ RecordDropped(w)
  PROVE  Base'
<1>1. BusInv' /\ FileInv'
  BY BusStep, FileStep DEF Base
<1>2. /\ writing[w] \in Busy /\ job[w] \in Records /\ job' = job
      /\ Keeps(job[w]) \/ (writing[w] = "line" /\ Adds(job[w]))
      /\ \E to \in {"line", "newline", "index", "ok", "failed"} :
           writing' = [writing EXCEPT ![w] = to]
  BY StepFile DEF Base
<1>3. /\ writing \in [Writers -> Busy \cup {"idle", "ok", "failed"}]
      /\ Journal!JournalTypeOK
  BY DEF Base, BusInv, BusTypeOK
<1>4. \A v \in Writers : writing'[v] = "idle" <=> job'[v] = NoRecord
  BY <1>2, <1>3 DEF Base, Busy
<1>5. ASSUME NEW r \in Records, NEW i \in Nat, NEW k \in Nat, Mentions(r, i, k)'
      PROVE  \E v \in Writers : job'[v] = r
  <2>1. Mentions(r, i, k) \/ r = job[w]
    BY <1>2, <1>3, <1>5, FileAdds, FileKeeps
  <2>2. QED
    BY <1>2, <2>1 DEF Base
<1>6. QED
  BY <1>1, <1>4, <1>5 DEF Base

LEMMA BaseClear == ASSUME Base, ClearJournal PROVE Base'
<1>1. /\ holder = Journal!Nobody /\ lines' = <<>> /\ open' = <<>>
      /\ UNCHANGED <<entries, bytes, index, holder, writing, job>>
  BY DEF ClearJournal, Journal!Clear, volatileVars
<1>2. \A r, i, k : ~ Mentions(r, i, k)'
  BY <1>1 DEF Mentions, Holds, Line
<1>3. BusInv'
  <2>1. BusTypeOK'
    BY <1>1 DEF Base, BusInv, BusTypeOK, Volatile!VolatileTypeOK, Journal!JournalTypeOK
  <2>2. QED
    BY <1>1, <2>1 DEF Base, BusInv, Mutex
<1>4. \A v \in Writers : writing'[v] # "newline"
  BY <1>1, MutexAssumption DEF Base, BusInv, Mutex
<1>5. \A v \in Writers, i, k \in Nat : (writing[v] \in {"lock", "line"} => ~Mentions(job[v], i, k))'
  BY <1>1 DEF Mentions, Holds, Line
<1>6. FileInv'
  BY <1>1, <1>2, <1>4, <1>5 DEF Base, FileInv
<1>7. QED
  BY <1>1, <1>2, <1>3, <1>6 DEF Base

LEMMA BaseSame ==
  ASSUME Base, UNCHANGED <<entries, bytes, lines, open, holder, writing, job>>,
         index' \in SUBSET Records
  PROVE  Base'
<1>1. BusTypeOK'
  BY DEF Base, BusInv, BusTypeOK, Volatile!VolatileTypeOK, Journal!JournalTypeOK
<1>2. BusInv'
  BY <1>1 DEF Base, BusInv, Mutex
<1>3. FileInv'
  BY FileSame DEF Base
<1>4. \A r \in Records, i, k \in Nat : Mentions(r, i, k)' => Mentions(r, i, k)
  BY HoldsSame DEF Mentions
<1>5. QED
  BY <1>2, <1>3, <1>4 DEF Base

\* A crash ends what the writer at the file, if there is one, has begun.
LEMMA CrashCases ==
  ASSUME Base, Crash
  PROVE  /\ holder' = Journal!Nobody /\ job' = job
         /\ \/ lines' = lines /\ open' = open /\ holder = Journal!Nobody
            \/ /\ holder \in Writers /\ writing[holder] \in {"line", "newline"}
               /\ job[holder] \in Records /\ Abandon(holder)
<1>1. holder \in Writers \cup {Journal!Nobody} /\ Journal!JournalTypeOK
  BY DEF Base, BusInv, BusTypeOK, Journal!JournalTypeOK
<1>2. CASE holder = Journal!Nobody
  BY <1>2 DEF Crash, journalVars
<1>3. CASE holder # Journal!Nobody
  <2>1. holder \in Writers /\ Abandon(holder) /\ job' = job
    BY <1>1, <1>3 DEF Crash
  <2>2. writing[holder] \in {"line", "newline"} /\ job[holder] \in Records
    BY <2>1 DEF Base, BusInv, Mutex, Busy
  <2>3. holder' = Journal!Nobody
    BY <1>1, <2>1, <2>2, AbandonTyped
  <2>4. QED
    BY <2>1, <2>2, <2>3
<1>4. QED
  BY <1>2, <1>3

LEMMA BaseCrash == ASSUME Base, Crash PROVE Base'
<1>1. /\ entries' = <<>> /\ bytes' = 0 /\ index' = {} /\ job' = job
      /\ writing' = [w \in Writers |-> IF writing[w] \in Busy THEN "failed" ELSE writing[w]]
  BY DEF Crash
<1>2. /\ Journal!JournalTypeOK
      /\ writing \in [Writers -> Busy \cup {"idle", "ok", "failed"}]
      /\ FileInv
  BY DEF Base, BusInv, BusTypeOK
<1>3. \A v \in Writers : writing'[v] \in {"idle", "ok", "failed"}
  BY <1>1, <1>2
<1>4. /\ Journal!JournalTypeOK' /\ FileInv'
      /\ \A r \in Records, i, k \in Nat :
           Mentions(r, i, k)' => Mentions(r, i, k) \/ \E w \in Writers : job[w] = r
  <2>1. CASE lines' = lines /\ open' = open /\ holder = Journal!Nobody
    <3>1. Journal!JournalTypeOK'
      BY <1>2, <2>1, CrashCases DEF Journal!JournalTypeOK
    <3>2. FileInv'
      BY <1>1, <1>2, <1>3, <2>1, FileSame
    <3>3. \A r \in Records, i, k \in Nat : Mentions(r, i, k)' => Mentions(r, i, k)
      BY <2>1, HoldsSame DEF Mentions
    <3>4. QED
      BY <3>1, <3>2, <3>3
  <2>2. CASE /\ holder \in Writers /\ writing[holder] \in {"line", "newline"}
             /\ job[holder] \in Records /\ Abandon(holder)
    <3>1. Journal!JournalTypeOK'
      BY <1>2, <2>2, AbandonTyped
    <3>2. Keeps(job[holder]) \/ (writing[holder] = "line" /\ Adds(job[holder]))
      BY <1>2, <2>2, AbandonFile
    <3>3. Keeps(job[holder]) \/ (Adds(job[holder]) /\ \A i, k \in Nat : ~Mentions(job[holder], i, k))
      BY <1>2, <2>2, <3>2 DEF FileInv
    <3>4. FileInv'
      BY <1>1, <1>2, <1>3, <2>2, <3>3, FileKept
    <3>5. \A r \in Records, i, k \in Nat :
            Mentions(r, i, k)' => Mentions(r, i, k) \/ r = job[holder]
      BY <1>2, <2>2, <3>2, FileAdds, FileKeeps
    <3>6. QED
      BY <2>2, <3>1, <3>4, <3>5
  <2>3. QED
    BY <2>1, <2>2, CrashCases
<1>5. BusTypeOK'
  BY <1>1, <1>2, <1>4 DEF Base, BusInv, BusTypeOK, Volatile!VolatileTypeOK
<1>6. Mutex'
  BY <1>3, CrashCases, MutexAssumption DEF Mutex
<1>7. BusInv'
  BY <1>1, <1>3, <1>5, <1>6, BytesEmpty, BusAssumption DEF BusInv, Busy
<1>8. \A v \in Writers : writing'[v] = "idle" <=> job'[v] = NoRecord
  BY <1>1, <1>2 DEF Base, Busy
<1>9. QED
  BY <1>1, <1>4, <1>7, <1>8 DEF Base

LEMMA BaseStep == Base /\ [Next]_vars => Base'
<1> SUFFICES ASSUME Base, [Next]_vars PROVE Base'
  OBVIOUS
<1>1. ASSUME NEW w \in Writers, NEW r \in Records, Record(w, r) PROVE Base'
  BY <1>1, BaseRecord
<1>2. ASSUME NEW w \in Writers, Proceed(w) \/ Fail(w) \/ DropTask(w) PROVE Base'
  BY <1>2, BaseProgress DEF Proceed, Fail, DropTask
<1>3. CASE ClearJournal
  BY <1>3, BaseClear
<1>4. ASSUME NEW r \in index, RemoveVector(Id[r]) PROVE Base'
  <2>1. index \in SUBSET Records
    BY DEF Base, BusInv, BusTypeOK
  <2>2. index' \in SUBSET Records /\ UNCHANGED <<entries, bytes, lines, open, holder, writing, job>>
    BY <1>4, <2>1 DEF RemoveVector, Vector!RemovePoint, volatileVars, journalVars
  <2>3. QED
    BY <2>2, BaseSame
<1>5. CASE Crash
  BY <1>5, BaseCrash
<1>6. CASE UNCHANGED vars
  <2>1. index' \in SUBSET Records /\ UNCHANGED <<entries, bytes, lines, open, holder, writing, job>>
    BY <1>6 DEF Base, BusInv, BusTypeOK, vars, busVars
  <2>2. QED
    BY <2>1, BaseSame
<1>7. QED
  BY <1>1, <1>2, <1>3, <1>4, <1>5, <1>6 DEF Next, Finished

-----------------------------------------------------------------------------
(* Type correctness                                                         *)

\* Every variable of the service, the bus, the ring, the file and the vector
\* store keeps its type.
THEOREM TypeCorrect == Spec => []TypeOK
<1> DEFINE Inv == Base /\ TypeOK
<1>1. Init => Inv
  <2> SUFFICES ASSUME Init PROVE Inv
    OBVIOUS
  <2>1. Base
    BY BaseStart
  <2>2. BusTypeOK
    BY <2>1 DEF Base, BusInv
  <2>3. QED
    BY <2>1, <2>2, ServiceAssumption DEF Init, TypeOK
<1>2. Inv /\ [Next]_vars => Inv'
  <2> SUFFICES ASSUME Base, TypeOK, [Next]_vars PROVE Inv'
    OBVIOUS
  <2>1. Base' /\ BusTypeOK'
    BY BaseStep DEF Base, BusInv
  <2> USE DEF TypeOK
  <2>2. ASSUME NEW w \in Writers, NEW r \in Records, Record(w, r) PROVE TypeOK'
    BY <2>1, <2>2 DEF Record, counters
  <2>3. ASSUME NEW w \in Writers, Proceed(w) PROVE TypeOK'
    <3>1. writing[w] = "newline" => job[w] \in Records
      BY DEF Base, BusInv, Busy
    <3>2. QED
      BY <2>1, <2>3, <3>1 DEF Proceed, counters
  <2>4. ASSUME NEW w \in Writers, Fail(w) \/ DropTask(w) PROVE TypeOK'
    BY <2>1, <2>4 DEF Fail, DropTask, Interruption, counters
  <2>5. CASE ClearJournal
    BY <2>1, <2>5, ServiceAssumption DEF ClearJournal
  <2>6. ASSUME NEW r \in index, RemoveVector(Id[r]) PROVE TypeOK'
    BY <2>1, <2>6, ServiceAssumption DEF RemoveVector
  <2>7. CASE Crash
    BY <2>1, <2>7, ServiceAssumption DEF Crash, Interruption
  <2>8. CASE UNCHANGED vars
    BY <2>1, <2>8 DEF vars, counters
  <2>9. QED
    BY <2>1, <2>2, <2>3, <2>4, <2>5, <2>6, <2>7, <2>8 DEF Next, Finished
<1>3. QED
  BY <1>1, <1>2, PTL DEF Spec

-----------------------------------------------------------------------------
(* The ring keeps the latest                                                *)

\* d of the records pushed are gone, and the last of them had to go.
Dropped(d) ==
  /\ entries = Rest(pushed, d)
  /\ ~TooBig(pushed, d)
  /\ d > 0 => Len(pushed) - (d - 1) > Capacity \/ TooBig(pushed, d - 1)

RingInv ==
  /\ pushed \in Seq(Records)
  /\ \E d \in 0..Len(pushed) : Dropped(d)

LEMMA RingStart == Init => RingInv
<1> SUFFICES ASSUME Init PROVE RingInv
  OBVIOUS
<1>1. pushed = <<>> /\ entries = <<>>
  BY DEF Init, BusInit, Volatile!VolatileInit
<1>2. Rest(pushed, 0) = <<>> /\ Len(pushed) = 0
  BY <1>1 DEF Rest
<1>3. Dropped(0)
  BY <1>1, <1>2 DEF Dropped, TooBig
<1>4. QED
  BY <1>1, <1>2, <1>3 DEF RingInv

LEMMA RingRecord ==
  ASSUME Base, RingInv, NEW w \in Writers, NEW r \in Records, Record(w, r)
  PROVE  RingInv'
<1>1. /\ Volatile!Push(r) /\ pushed' = Append(pushed, r)
      /\ entries \in Seq(Records) /\ bytes = Volatile!BytesOf(entries)
      /\ Len(entries) <= Capacity
  BY DEF Record, PushVolatile, Base, BusInv, BusTypeOK, Volatile!VolatileTypeOK
<1>2. PICK d \in 0..Len(pushed) : Dropped(d)
  BY DEF RingInv
<1>3. PICK n \in 0..Len(entries) :
        /\ entries' = Rest(Append(entries, r), n)
        /\ ~TooBig(Append(entries, r), n)
        /\ n > 0 => \/ Len(entries) + 1 - (n - 1) > Capacity
                    \/ TooBig(Append(entries, r), n - 1)
  BY <1>1, PushLeaves
<1> DEFINE longer == Append(pushed, r)
<1>4. /\ pushed \in Seq(Records) /\ entries = Rest(pushed, d)
      /\ longer \in Seq(Records) /\ Len(longer) = Len(pushed) + 1 /\ Len(pushed) \in Nat
  BY <1>2 DEF Dropped, RingInv
<1>5. Len(entries) = Len(pushed) - d
  BY <1>4, RestTyped
<1>6. Append(entries, r) = Rest(longer, d)
  BY <1>4, RestOfAppend
<1>7. d \in 0..Len(longer) /\ d \in Nat
  BY <1>4
<1> HIDE DEF longer
<1>8. \A j \in 0..(Len(entries) + 1) :
        /\ Rest(Append(entries, r), j) = Rest(longer, d + j)
        /\ TooBig(Append(entries, r), j) <=> TooBig(longer, d + j)
  <2> TAKE j \in 0..(Len(entries) + 1)
  <2>1. j \in 0..(Len(longer) - d) /\ Len(longer) - (d + j) = Len(entries) + 1 - j
    BY <1>4, <1>5, <1>7
  <2>2. Rest(Append(entries, r), j) = Rest(longer, d + j)
    BY <1>4, <1>6, <1>7, <2>1, RestOfRest
  <2>3. Len(Append(entries, r)) = Len(entries) + 1
    BY <1>1
  <2>4. QED
    BY <2>1, <2>2, <2>3 DEF TooBig
<1>9. d + n \in 0..Len(longer) /\ n \in 0..(Len(entries) + 1) /\ Len(entries) \in Nat
  BY <1>1, <1>4, <1>5, <1>7
<1>10. ASSUME d + n > 0
       PROVE  Len(longer) - (d + n - 1) > Capacity \/ TooBig(longer, d + n - 1)
  <2>1. CASE n > 0
    <3>1. n - 1 \in 0..(Len(entries) + 1) /\ d + (n - 1) = d + n - 1
      BY <1>7, <1>9, <2>1
    <3>2. CASE Len(entries) + 1 - (n - 1) > Capacity
      <4>1. Len(longer) - (d + n - 1) = Len(entries) + 1 - (n - 1)
        BY <1>4, <1>5, <1>7, <1>9
      <4>2. QED
        BY <3>2, <4>1
    <3>3. CASE TooBig(Append(entries, r), n - 1)
      BY <1>8, <3>1, <3>3
    <3>4. QED
      BY <1>3, <2>1, <3>2, <3>3
  <2>2. CASE n = 0
    <3>1. d > 0 /\ d + n - 1 = d - 1 /\ d - 1 \in 0..Len(pushed)
      BY <1>4, <1>7, <1>10, <2>2
    <3>2. CASE Len(pushed) - (d - 1) > Capacity
      BY <1>4, <1>7, <3>1, <3>2, BusAssumption
    <3>3. CASE TooBig(pushed, d - 1)
      <4>1. Rest(longer, d - 1) = Append(Rest(pushed, d - 1), r)
        BY <1>4, <3>1, RestOfAppend DEF longer
      <4>2. /\ Rest(pushed, d - 1) \in Seq(Records)
            /\ Volatile!BytesOf(Rest(pushed, d - 1)) \in Nat
        BY <1>4, <3>1, RestTyped
      <4>3. Volatile!BytesOf(Rest(longer, d - 1))
              = Volatile!BytesOf(Rest(pushed, d - 1)) + Size[r]
        BY <4>1, <4>2, BytesAppend
      <4>4. Size[r] \in Nat /\ MaxBytes \in Nat
        BY BusAssumption
      <4>5. TooBig(longer, d - 1)
        BY <1>4, <3>1, <3>3, <4>2, <4>3, <4>4 DEF TooBig
      <4>6. QED
        BY <3>1, <4>5
    <3>4. QED
      BY <1>2, <3>1, <3>2, <3>3 DEF Dropped
  <2>3. QED
    BY <1>9, <2>1, <2>2
<1>11. entries' = Rest(longer, d + n) /\ ~TooBig(longer, d + n)
  BY <1>3, <1>8, <1>9
<1>12. pushed' = longer
  BY <1>1 DEF longer
<1>13. Dropped(d + n)'
  BY <1>10, <1>11, <1>12 DEF Dropped, Rest, TooBig
<1>14. QED
  BY <1>4, <1>9, <1>12, <1>13 DEF RingInv

LEMMA RingStep == Base /\ RingInv /\ [Next]_vars => RingInv'
<1> SUFFICES ASSUME Base, RingInv, [Next]_vars PROVE RingInv'
  OBVIOUS
<1>1. ASSUME NEW w \in Writers, NEW r \in Records, Record(w, r) PROVE RingInv'
  BY <1>1, RingRecord
<1>2. CASE entries' = entries /\ pushed' = pushed
  BY <1>2 DEF RingInv, Dropped, Rest, TooBig
<1>3. CASE Crash
  <2>1. pushed' = <<>> /\ entries' = <<>>
    BY <1>3 DEF Crash
  <2>2. pushed' \in Seq(Records) /\ Len(pushed') = 0 /\ Rest(pushed', 0) = <<>>
    BY <2>1 DEF Rest
  <2>3. Dropped(0)'
    BY <2>1, <2>2 DEF Dropped, TooBig, Rest
  <2>4. QED
    BY <2>2, <2>3 DEF RingInv
<1>4. ASSUME NEW w \in Writers, Proceed(w) \/ Fail(w) \/ DropTask(w)
      PROVE  entries' = entries /\ pushed' = pushed
  BY <1>4 DEF Proceed, Fail, DropTask, RecordStep, RecordFails, RecordDropped, LockJournal,
              WriteLine, WriteNewline, Upsert, volatileVars
<1>5. ASSUME ClearJournal \/ UNCHANGED vars PROVE entries' = entries /\ pushed' = pushed
  BY <1>5 DEF ClearJournal, volatileVars, vars, busVars
<1>6. ASSUME NEW r \in index, RemoveVector(Id[r]) PROVE entries' = entries /\ pushed' = pushed
  BY <1>6 DEF RemoveVector, volatileVars
<1>7. QED
  BY <1>1, <1>2, <1>3, <1>4, <1>5, <1>6 DEF Next, Finished

LEMMA RingIsLatest == Base /\ RingInv => RingKeepsLatest
<1> SUFFICES ASSUME Base, RingInv PROVE RingKeepsLatest
  OBVIOUS
<1>1. /\ entries \in Seq(Records) /\ bytes = Volatile!BytesOf(entries)
      /\ Len(entries) <= Capacity /\ Len(entries) \in Nat
      /\ pushed \in Seq(Records) /\ Len(pushed) \in Nat
      /\ Capacity \in Nat /\ MaxBytes \in Nat
  BY BusAssumption DEF Base, BusInv, BusTypeOK, Volatile!VolatileTypeOK, RingInv
<1>2. PICK d \in 0..Len(pushed) : Dropped(d)
  BY DEF RingInv
<1>3. entries = Rest(pushed, d) /\ Len(entries) = Len(pushed) - d /\ d \in Nat
  BY SMTT(30), <1>1, <1>2, RestTyped DEF Dropped
<1>4. \A n \in 0..Len(pushed) : Latest(n) = Rest(pushed, Len(pushed) - n)
  BY <1>1 DEF Latest, Rest
<1>5. ASSUME NEW n \in 0..Len(entries) PROVE Volatile!Recent(n) = Latest(n)
  <2>1. n \in Nat /\ Len(entries) - n \in 0..Len(entries) /\ n \in 0..Len(pushed)
    BY <1>1, <1>3
  <2>2. Volatile!Recent(n) = Rest(entries, Len(entries) - n)
    <3>1. (IF n < Len(entries) THEN n ELSE Len(entries)) = n
      BY <1>1, <2>1
    <3>2. QED
      BY <3>1 DEF Volatile!Recent, Rest
  <2>3. Len(entries) - n \in 0..(Len(pushed) - d)
    BY <1>3, <2>1
  <2>4. Rest(entries, Len(entries) - n) = Rest(pushed, d + (Len(entries) - n))
    BY <1>1, <1>3, <2>3, RestOfRest
  <2>5. d + (Len(entries) - n) = Len(pushed) - n
    BY <1>1, <1>3, <2>1
  <2>6. QED
    BY <1>4, <2>1, <2>2, <2>4, <2>5
<1>6. Volatile!Recent(Len(entries) + 1) = entries
  <2>1. Volatile!Recent(Len(entries) + 1) = SubSeq(entries, 1, Len(entries))
    <3>1. ~ (Len(entries) + 1 < Len(entries)) /\ Len(entries) - Len(entries) + 1 = 1
      BY <1>1
    <3>2. QED
      BY <3>1 DEF Volatile!Recent
  <2>2. QED
    BY <1>1, <2>1
<1>7. \A n \in 0..Len(pushed) :
        Fits(n) <=> n <= Capacity /\ ~TooBig(pushed, Len(pushed) - n)
  <2> TAKE n \in 0..Len(pushed)
  <2>1. /\ Len(pushed) - n \in 0..Len(pushed)
        /\ Len(pushed) - (Len(pushed) - n) = n
    BY <1>1
  <2>2. Volatile!BytesOf(Rest(pushed, Len(pushed) - n)) \in Nat
    BY <1>1, <2>1, RestTyped
  <2>3. QED
    BY <1>1, <1>4, <2>1, <2>2 DEF Fits, TooBig
<1>8. Fits(Len(entries))
  <2>1. Len(entries) \in 0..Len(pushed) /\ Len(pushed) - Len(entries) = d
    BY <1>1, <1>3
  <2>2. QED
    BY <1>1, <1>2, <1>7, <2>1 DEF Dropped
<1>9. ASSUME Len(entries) < Len(pushed) PROVE ~Fits(Len(entries) + 1)
  <2>1. /\ Len(entries) + 1 \in 0..Len(pushed)
        /\ Len(pushed) - (Len(entries) + 1) = d - 1
        /\ Len(pushed) - (d - 1) = Len(entries) + 1
        /\ d > 0
    BY <1>1, <1>3, <1>9
  <2>2. QED
    BY <1>1, <1>2, <1>7, <2>1 DEF Dropped
<1>10. QED
  BY <1>1, <1>5, <1>6, <1>8, <1>9 DEF RingKeepsLatest

\* For every size of record and both ceilings: the ring is exactly the longest
\* run of the latest records that fits, and its byte count is exact, so that the
\* saturating subtraction of push() never saturates.
THEOREM RingCorrect == Spec => []RingKeepsLatest
<1>1. Init => Base /\ RingInv
  BY BaseStart, RingStart
<1>2. Base /\ RingInv /\ [Next]_vars => (Base /\ RingInv)'
  BY BaseStep, RingStep
<1>3. QED
  BY <1>1, <1>2, RingIsLatest, PTL DEF Spec

-----------------------------------------------------------------------------
(* What append() returned Ok for is on a line of the journal                *)

\* A finished line that ends with record r.
EndsWith(r, i) ==
  /\ i \in 1..Len(lines)
  /\ Len(lines[i]) > 0
  /\ lines[i][Len(lines[i])] = Journal!Whole(r)

WrittenInv ==
  /\ written \in SUBSET Records
  /\ \A r \in written : \E i \in Nat : EndsWith(r, i)

\* Lines once finished stay, until clear().
LEMMA LinesGrow ==
  ASSUME Journal!JournalTypeOK, lines' = lines \/ lines' = Append(lines, open),
         NEW r, NEW i \in Nat, EndsWith(r, i)
  PROVE  EndsWith(r, i)'
<1>1. CASE lines' = lines
  BY <1>1 DEF EndsWith, Journal!Whole
<1>2. CASE lines' = Append(lines, open)
  <2>1. /\ Len(lines') = Len(lines) + 1 /\ Len(lines) \in Nat
        /\ \A j \in 1..Len(lines) : lines'[j] = lines[j]
    BY <1>2 DEF Journal!JournalTypeOK
  <2>2. lines'[i] = lines[i] /\ i \in 1..Len(lines')
    BY <2>1 DEF EndsWith
  <2>3. QED
    BY <2>2 DEF EndsWith, Journal!Whole
<1>3. QED
  BY <1>1, <1>2

LEMMA GrowOrStay ==
  ASSUME NEW x, Keeps(x) \/ Adds(x)
  PROVE  lines' = lines \/ lines' = Append(lines, open)
  BY DEF Keeps, Adds

\* The newline finishes the line of the record it follows.
LEMMA NewlineEnds ==
  ASSUME Journal!JournalTypeOK, NEW r, Len(open) > 0, open[Len(open)] = Journal!Whole(r),
         lines' = Append(lines, open), NEW n, n = Len(lines) + 1
  PROVE  n \in Nat /\ EndsWith(r, n)'
<1>1. /\ Len(lines') = Len(lines) + 1 /\ lines'[Len(lines) + 1] = open
      /\ Len(lines) \in Nat
  BY DEF Journal!JournalTypeOK
<1>2. QED
  BY <1>1 DEF EndsWith, Journal!Whole

LEMMA WrittenStart == Init => WrittenInv
  BY DEF Init, WrittenInv

LEMMA WrittenStep == Base /\ WrittenInv /\ [Next]_vars => WrittenInv'
<1> SUFFICES ASSUME Base, WrittenInv, [Next]_vars PROVE WrittenInv'
  OBVIOUS
<1>1. Journal!JournalTypeOK /\ BusInv /\ FileInv
  BY DEF Base, BusInv, BusTypeOK
<1>2. ASSUME written' = written, lines' = lines \/ lines' = Append(lines, open)
      PROVE  WrittenInv'
  <2>1. \A r \in written : \E i \in Nat : EndsWith(r, i)'
    BY <1>1, <1>2, LinesGrow DEF WrittenInv
  <2>2. QED
    BY <1>2, <2>1 DEF WrittenInv
<1>3. ASSUME NEW w \in Writers, RecordStep(w) \/ RecordFails(w) \/ RecordDropped(w)
      PROVE  lines' = lines \/ lines' = Append(lines, open)
  BY <1>1, <1>3, StepFile, GrowOrStay
<1>4. ASSUME NEW w \in Writers, Proceed(w) PROVE WrittenInv'
  <2>1. CASE writing[w] # "newline"
    BY <1>2, <1>3, <1>4, <2>1 DEF Proceed
  <2>2. CASE writing[w] = "newline"
    <3>1. /\ lines' = Append(lines, open) /\ written' = written \cup {job[w]}
          /\ job[w] \in Records
      BY <1>1, <1>4, <2>2 DEF Proceed, RecordStep, LockJournal, WriteLine, WriteNewline, Upsert,
                              Journal!WriteNewline, BusInv, Busy
    <3>2. PICK r, n : r = job[w] /\ n = Len(lines) + 1
      OBVIOUS
    <3>3. n \in Nat /\ EndsWith(r, n)'
      <4>1. Len(open) > 0 /\ open[Len(open)] = Journal!Whole(r)
        BY <1>1, <2>2, <3>2 DEF FileInv
      <4>2. QED
        BY <1>1, <3>1, <3>2, <4>1, NewlineEnds
    <3>4. \A s \in written : \E i \in Nat : EndsWith(s, i)'
      BY <1>1, <3>1, LinesGrow DEF WrittenInv
    <3>5. written' = written \cup {r} /\ r \in Records
      BY <3>1, <3>2
    <3>6. QED
      BY <3>3, <3>4, <3>5 DEF WrittenInv
  <2>3. QED
    BY <2>1, <2>2
<1>5. ASSUME NEW w \in Writers, NEW r \in Records, Record(w, r) PROVE WrittenInv'
  BY <1>2, <1>5 DEF Record, PushVolatile, journalVars
<1>6. ASSUME NEW w \in Writers, Fail(w) \/ DropTask(w) PROVE WrittenInv'
  BY <1>2, <1>3, <1>6 DEF Fail, DropTask
<1>7. CASE ClearJournal
  BY <1>7 DEF ClearJournal, WrittenInv
<1>8. ASSUME NEW r \in index, RemoveVector(Id[r]) PROVE WrittenInv'
  BY <1>2, <1>8 DEF RemoveVector, journalVars
<1>9. CASE Crash
  <2>1. written' = written
    BY <1>9 DEF Crash
  <2>2. lines' = lines \/ lines' = Append(lines, open)
    BY <1>1, <1>9, CrashCases, AbandonFile, GrowOrStay
  <2>3. QED
    BY <1>2, <2>1, <2>2
<1>10. CASE UNCHANGED vars
  BY <1>2, <1>10 DEF vars, busVars
<1>11. QED
  BY <1>4, <1>5, <1>6, <1>7, <1>8, <1>9, <1>10 DEF Next, Finished

\* Such a line is the one place of its record.
LEMMA OnePlace ==
  ASSUME Base, NEW r \in Records, NEW i \in Nat, EndsWith(r, i)
  PROVE  Places(r) = {i}
<1>1. Journal!JournalTypeOK /\ FileInv
  BY DEF Base, BusInv, BusTypeOK
<1>2. \A j \in 1..Len(lines) : lines[j] \in Seq(Journal!Piece) /\ Line(j) = lines[j]
  BY <1>1 DEF Journal!JournalTypeOK, Line
<1>3. \A j \in 1..Len(lines) : j \in Nat /\ j \in 1..(Len(lines) + 1)
  BY <1>1 DEF Journal!JournalTypeOK
<1>4. Holds(Journal!Whole(r), i, Len(lines[i])) /\ Len(lines[i]) \in Nat
  BY <1>2, <1>3 DEF Holds, EndsWith
<1>5. ASSUME NEW j \in Places(r) PROVE j = i
  <2>1. /\ j \in 1..Len(lines)
        /\ \E k \in 1..Len(lines[j]) : lines[j][k] = Journal!Whole(r)
    BY <1>5 DEF Places
  <2>2. PICK k \in 1..Len(lines[j]) : lines[j][k] = Journal!Whole(r)
    BY <2>1
  <2>3. Holds(Journal!Whole(r), j, k) /\ j \in Nat /\ k \in Nat
    BY <1>2, <1>3, <2>1, <2>2 DEF Holds
  <2>4. QED
    BY <1>1, <1>4, <2>3 DEF FileInv, Mentions
<1>6. i \in Places(r)
  BY <1>2, <1>4 DEF EndsWith, Places
<1>7. QED
  BY <1>5, <1>6

LEMMA AppendAny ==
  ASSUME NEW S, NEW s \in Seq(S), NEW x
  PROVE  /\ Len(Append(s, x)) = Len(s) + 1 /\ Len(s) \in Nat
         /\ Append(s, x)[Len(s) + 1] = x
         /\ \A i \in 1..Len(s) : Append(s, x)[i] = s[i]
<1>1. s \in Seq(S \cup {x}) /\ x \in S \cup {x}
  OBVIOUS
<1>2. QED
  BY <1>1, AppendProperties

\* What a reader sees are the finished lines and at most one more.
LEMMA ViewChunks ==
  ASSUME Journal!JournalTypeOK, NEW view \in Views
  PROVE  \/ Journal!Chunks(view) = lines
         \/ /\ \E x : Journal!Chunks(view) = Append(lines, x)
            /\ holder \in Writers \/ open # <<>>
<1>1. CASE holder \in Writers /\ writing[holder] \in {"line", "newline"}
  <2>1. \/ view.lines = lines
        \/ view.lines = Append(lines, open) /\ view.open = <<>>
    <3>1. view \in Journal!ViewsWriting(job[holder], writing[holder])
      BY <1>1 DEF Views
    <3>2. ASSUME NEW o PROVE [Journal!AtRest EXCEPT !.open = o].lines = lines
      BY DEF Journal!AtRest
    <3>3. QED
      BY <3>1, <3>2 DEF Journal!ViewsWriting, Journal!AtRest
  <2>2. QED
    BY <1>1, <2>1 DEF Journal!Chunks
<1>2. CASE ~ (holder \in Writers /\ writing[holder] \in {"line", "newline"})
  <2>1. view = Journal!AtRest
    BY <1>2 DEF Views
  <2>2. QED
    BY <2>1 DEF Journal!Chunks, Journal!AtRest
<1>3. QED
  BY <1>1, <1>2

LEMMA ViewLines ==
  ASSUME Journal!JournalTypeOK, NEW view \in Views
  PROVE  /\ Len(Journal!Chunks(view)) \in {Len(lines), Len(lines) + 1}
         /\ Len(lines) \in Nat
         /\ \A i \in 1..Len(lines) : Journal!Chunks(view)[i] = lines[i]
         /\ holder \notin Writers /\ open = <<>> => Len(Journal!Chunks(view)) = Len(lines)
<1>1. lines \in Seq(Seq(Journal!Piece)) /\ Len(lines) \in Nat
  BY DEF Journal!JournalTypeOK
<1>2. CASE Journal!Chunks(view) = lines
  BY <1>1, <1>2
<1>3. CASE /\ \E x : Journal!Chunks(view) = Append(lines, x)
           /\ holder \in Writers \/ open # <<>>
  <2>1. PICK x : Journal!Chunks(view) = Append(lines, x)
    BY <1>3
  <2>2. /\ Len(Append(lines, x)) = Len(lines) + 1
        /\ \A i \in 1..Len(lines) : Append(lines, x)[i] = lines[i]
    BY <1>1, AppendAny
  <2>3. QED
    BY <1>1, <1>3, <2>1, <2>2
<1>4. QED
  BY <1>2, <1>3, ViewChunks

LEMMA WrittenOnLine == Base /\ WrittenInv => WrittenOnOwnLine
<1> SUFFICES ASSUME Base, WrittenInv PROVE WrittenOnOwnLine
  OBVIOUS
<1>1. ASSUME NEW r \in written PROVE \E i \in Nat : EndsWith(r, i) /\ Places(r) = {i}
  BY <1>1, OnePlace DEF WrittenInv
<1>2. \A r \in written : Cardinality(Places(r)) = 1
  BY <1>1, FS_Singleton
<1>3. ASSUME NEW r \in written, NEW s \in written, r # s PROVE Places(r) \cap Places(s) = {}
  <2>1. PICK i \in Nat : EndsWith(r, i) /\ Places(r) = {i}
    BY <1>1
  <2>2. PICK j \in Nat : EndsWith(s, j) /\ Places(s) = {j}
    BY <1>1
  <2>3. i # j
    BY <1>3, <2>1, <2>2, PiecesDiffer DEF EndsWith
  <2>4. QED
    BY <2>1, <2>2, <2>3
<1>4. ASSUME NEW view \in Views, NEW r \in written,
             Journal!TailOf(view, Len(Journal!Chunks(view)) + 1).ok
      PROVE  \E n \in 1..Len(Journal!TailOf(view, Len(Journal!Chunks(view)) + 1).records) :
               Journal!TailOf(view, Len(Journal!Chunks(view)) + 1).records[n] = r
  <2> DEFINE chunks == Journal!Chunks(view)
             tail == Journal!TailOf(view, Len(chunks) + 1)
  <2>1. Journal!JournalTypeOK
    BY DEF Base, BusInv, BusTypeOK
  <2>2. /\ Len(chunks) \in Nat /\ Len(lines) <= Len(chunks)
        /\ \A i \in 1..Len(lines) : chunks[i] = lines[i]
    BY <2>1, ViewLines
  <2>3. PICK i \in Nat : EndsWith(r, i)
    BY <1>1
  <2>4. i \in 1..Len(chunks) /\ chunks[i] = lines[i]
    BY <2>2, <2>3 DEF EndsWith
  <2>5. tail = [ok |-> Journal!Unreadable(view) = {},
                records |-> [n \in 1..(Len(chunks) - 0) |-> chunks[0 + n][1].record]]
    <3>1. Len(chunks) <= Len(chunks) + 1 /\ Len(chunks) + 1 # 0
      BY <2>2
    <3>2. QED
      BY <3>1 DEF Journal!TailOf
  <2>6. Journal!Unreadable(view) = {}
    <3>1. tail.ok = (Journal!Unreadable(view) = {})
      BY <2>5
    <3>2. QED
      BY <1>4, <3>1
  <2>7. Len(chunks[i]) = 1
    BY <2>4, <2>6 DEF Journal!Unreadable, Journal!Readable
  <2>8. chunks[i][1].record = r
    BY <2>3, <2>4, <2>7 DEF EndsWith, Journal!Whole
  <2>9. tail.records = [n \in 1..Len(chunks) |-> chunks[n][1].record]
    BY <2>2, <2>5
  <2>10. Len(tail.records) = Len(chunks) /\ tail.records[i] = r
    BY <2>2, <2>4, <2>8, <2>9
  <2>11. QED
    BY <2>4, <2>10
<1>5. QED
  BY <1>2, <1>3, <1>4 DEF WrittenOnOwnLine

\* However the writers interleave, whatever fails or is dropped, and across
\* crashes: append() that returned Ok is one's own place in the file, and no
\* tail() that succeeds misses it.
THEOREM AppendsKept == Spec => []WrittenOnOwnLine
<1>1. Init => Base /\ WrittenInv
  BY BaseStart, WrittenStart
<1>2. Base /\ WrittenInv /\ [Next]_vars => (Base /\ WrittenInv)'
  BY BaseStep, WrittenStep
<1>3. QED
  BY <1>1, <1>2, WrittenOnLine, PTL DEF Spec

-----------------------------------------------------------------------------
(* What an interruption costs                                               *)

Bad == {i \in 1..Len(lines) : ~Journal!Readable(lines[i])}

\* The unfinished line is spoilt: the record it is to hold is not alone on it.
Torn == IF \E w \in Writers : writing[w] = "newline" THEN Len(open) > 1 ELSE Len(open) > 0

DamageInv ==
  /\ interrupted \in Nat
  /\ Cardinality(Bad) + (IF Torn THEN 1 ELSE 0) <= interrupted

LEMMA BadCount ==
  ASSUME Journal!JournalTypeOK
  PROVE  IsFiniteSet(Bad) /\ Cardinality(Bad) \in Nat
<1>1. IsFiniteSet(1..Len(lines))
  BY FS_Interval DEF Journal!JournalTypeOK
<1>2. QED
  BY <1>1, FS_Subset, FS_CardinalityType DEF Bad

LEMMA OneMore ==
  ASSUME NEW S, IsFiniteSet(S), NEW x
  PROVE  Cardinality(S \cup {x}) \in Nat /\ Cardinality(S \cup {x}) <= Cardinality(S) + 1
<1>1. /\ IsFiniteSet(S \cup {x})
      /\ Cardinality(S \cup {x}) = IF x \in S THEN Cardinality(S) ELSE Cardinality(S) + 1
  BY FS_AddElement
<1>2. Cardinality(S) \in Nat
  BY FS_CardinalityType
<1>3. QED
  BY <1>1, <1>2

LEMMA BadNewline ==
  ASSUME Journal!JournalTypeOK, lines' = Append(lines, open)
  PROVE  /\ Cardinality(Bad') \in Nat
         /\ Cardinality(Bad') <= Cardinality(Bad) + (IF Journal!Readable(open) THEN 0 ELSE 1)
<1>1. /\ Len(lines') = Len(lines) + 1 /\ lines'[Len(lines) + 1] = open /\ Len(lines) \in Nat
      /\ \A i \in 1..Len(lines) : lines'[i] = lines[i]
  BY DEF Journal!JournalTypeOK
<1>2. Bad' = IF Journal!Readable(open) THEN Bad ELSE Bad \cup {Len(lines) + 1}
  BY <1>1 DEF Bad, Journal!Readable
<1>3. IsFiniteSet(Bad) /\ Cardinality(Bad) \in Nat
  BY BadCount
<1>4. /\ Cardinality(Bad \cup {Len(lines) + 1}) \in Nat
      /\ Cardinality(Bad \cup {Len(lines) + 1}) <= Cardinality(Bad) + 1
  BY <1>3, OneMore
<1>5. QED
  BY <1>2, <1>3, <1>4

LEMMA DamageStart == Init => DamageInv
<1> SUFFICES ASSUME Init PROVE DamageInv
  OBVIOUS
<1>1. lines = <<>> /\ open = <<>> /\ interrupted = 0
  BY DEF Init, BusInit, Journal!JournalInit
<1>2. Bad = {} /\ ~Torn
  BY <1>1 DEF Bad, Torn
<1>3. QED
  BY <1>1, <1>2, FS_EmptySet DEF DamageInv

LEMMA DamageSame ==
  ASSUME DamageInv, lines' = lines, open' = open, interrupted' = interrupted,
         \A v \in Writers : writing'[v] = "newline" <=> writing[v] = "newline"
  PROVE  DamageInv'
<1>1. Torn' <=> Torn
  BY DEF Torn
<1>2. Bad' = Bad
  BY DEF Bad, Journal!Readable
<1>3. QED
  BY <1>1, <1>2 DEF DamageInv

\* A line that holds nothing but the record it is to hold can be read.
LEMMA OnlyWhole ==
  ASSUME NEW r, Len(open) > 0, open[Len(open)] = Journal!Whole(r), ~ (Len(open) > 1),
         open \in Seq(Journal!Piece)
  PROVE  Journal!Readable(open)
<1>1. Len(open) = 1
  <2>1. PICK n \in Nat : n = Len(open)
    OBVIOUS
  <2>2. n > 0 /\ ~ (n > 1)
    BY <2>1
  <2>3. QED
    BY <2>1, <2>2
<1>2. open[1].whole
  BY <1>1 DEF Journal!Whole
<1>3. QED
  BY <1>1, <1>2 DEF Journal!Readable

\* The end of whatever the writer at the file was doing.
LEMMA AbandonDamage ==
  ASSUME Base, DamageInv, NEW w \in Writers, writing[w] \in {"line", "newline"}, Abandon(w),
         \A v \in Writers : writing'[v] # "newline", interrupted' = Interruption
  PROVE  DamageInv'
<1>1. /\ Journal!JournalTypeOK /\ FileInv /\ holder = w /\ holder' = Journal!Nobody /\ holder' # holder
      /\ job[w] \in Records
  BY AbandonCases, MutexAssumption DEF Base, BusInv, BusTypeOK, Mutex, Busy
<1>2. /\ interrupted \in Nat /\ Cardinality(Bad) \in Nat
      /\ Cardinality(Bad) + (IF Torn THEN 1 ELSE 0) <= interrupted
  BY <1>1, BadCount DEF DamageInv
<1>3. interrupted' = IF open' # <<>> THEN interrupted + 1 ELSE interrupted
  BY <1>1 DEF Interruption
<1>4. Torn' => open' # <<>>
  BY DEF Torn
<1>5. CASE lines' = lines
  <2>1. Bad' = Bad
    BY <1>5 DEF Bad, Journal!Readable
  <2>2. QED
    BY <1>2, <1>3, <1>4, <2>1 DEF DamageInv
<1>6. CASE writing[w] = "newline" /\ lines' = Append(lines, open) /\ open' = <<>>
  <2>1. Len(open) > 0 /\ open[Len(open)] = Journal!Whole(job[w])
    BY <1>1, <1>6 DEF FileInv
  <2>2. /\ Cardinality(Bad') \in Nat
        /\ Cardinality(Bad') <= Cardinality(Bad) + (IF Journal!Readable(open) THEN 0 ELSE 1)
    BY <1>1, <1>6, BadNewline
  <2>3. ~ Torn => Journal!Readable(open)
    BY <1>1, <1>6, <2>1, OnlyWhole DEF Torn, Journal!JournalTypeOK
  <2>4. ~ Torn' /\ interrupted' = interrupted
    BY <1>3, <1>4, <1>6
  <2>5. QED
    BY <1>2, <2>2, <2>3, <2>4 DEF DamageInv
<1>7. QED
  BY <1>5, <1>6, AbandonCases

LEMMA DamageProceed ==
  ASSUME Base, DamageInv, NEW w \in Writers, Proceed(w)
  PROVE  DamageInv'
<1>1. /\ Journal!JournalTypeOK /\ FileInv /\ Mutex /\ Mutex' /\ Journal!JournalTypeOK'
      /\ writing \in [Writers -> Busy \cup {"idle", "ok", "failed"}]
      /\ interrupted' = interrupted
  BY BaseProgress DEF Proceed, Base, BusInv, BusTypeOK
<1>2. /\ interrupted \in Nat /\ Cardinality(Bad) \in Nat
      /\ Cardinality(Bad) + (IF Torn THEN 1 ELSE 0) <= interrupted
  BY <1>1, BadCount DEF DamageInv
<1>3. CASE LockJournal(w) \/ Upsert(w)
  <2>1. \A v \in Writers : writing'[v] = "newline" <=> writing[v] = "newline"
    BY <1>1, <1>3 DEF LockJournal, Upsert, Goto
  <2>2. lines' = lines /\ open' = open
    BY <1>3 DEF LockJournal, Upsert, Journal!Lock, journalVars
  <2>3. QED
    BY <1>1, <2>1, <2>2, DamageSame
<1>4. CASE WriteLine(w)
  <2>1. /\ writing[w] = "line" /\ lines' = lines /\ open' = Append(open, Journal!Whole(job[w]))
        /\ writing' = [writing EXCEPT ![w] = "newline"]
    BY <1>4 DEF WriteLine, Journal!WriteLine, Goto
  <2>2. \A v \in Writers : writing[v] # "newline"
    BY <1>1, <2>1 DEF Mutex
  <2>3. Len(open') = Len(open) + 1 /\ Len(open) \in Nat
    <3>1. job[w] \in Records
      BY <2>1 DEF Base, BusInv, Busy
    <3>2. QED
      BY <1>1, <2>1, <3>1, PieceTyped DEF Journal!JournalTypeOK
  <2>4. Torn' <=> Torn
    BY <1>1, <2>1, <2>2, <2>3 DEF Torn
  <2>5. Bad' = Bad
    BY <2>1 DEF Bad, Journal!Readable
  <2>6. QED
    BY <1>1, <1>2, <2>4, <2>5 DEF DamageInv
<1>5. CASE WriteNewline(w)
  <2>1. /\ writing[w] = "newline" /\ lines' = Append(lines, open) /\ open' = <<>>
        /\ holder' = Journal!Nobody
    BY <1>5 DEF WriteNewline, Journal!WriteNewline
  <2>2. Len(open) > 0 /\ open[Len(open)] = Journal!Whole(job[w])
    BY <1>1, <2>1 DEF FileInv
  <2>3. /\ Cardinality(Bad') \in Nat
        /\ Cardinality(Bad') <= Cardinality(Bad) + (IF Journal!Readable(open) THEN 0 ELSE 1)
    BY <1>1, <2>1, BadNewline
  <2>4. ~ Torn => Journal!Readable(open)
    BY <1>1, <2>1, <2>2, OnlyWhole DEF Torn, Journal!JournalTypeOK
  <2>5. ~ Torn'
    BY <2>1 DEF Torn
  <2>6. QED
    BY <1>1, <1>2, <2>3, <2>4, <2>5 DEF DamageInv
<1>6. QED
  BY <1>3, <1>4, <1>5 DEF Proceed, RecordStep

LEMMA DamageStep == Base /\ DamageInv /\ [Next]_vars => DamageInv'
<1> SUFFICES ASSUME Base, DamageInv, [Next]_vars PROVE DamageInv'
  OBVIOUS
<1>0. /\ Mutex /\ writing \in [Writers -> Busy \cup {"idle", "ok", "failed"}]
  BY DEF Base, BusInv, BusTypeOK
<1>1. ASSUME NEW w \in Writers, NEW r \in Records, Record(w, r) PROVE DamageInv'
  <2>1. \A v \in Writers : writing'[v] = "newline" <=> writing[v] = "newline"
    BY <1>0, <1>1 DEF Record, PushVolatile, Goto
  <2>2. QED
    BY <1>1, <2>1, DamageSame DEF Record, PushVolatile, journalVars
<1>2. ASSUME NEW w \in Writers, Proceed(w) PROVE DamageInv'
  BY <1>2, DamageProceed
<1>3. ASSUME NEW w \in Writers, Fail(w) \/ DropTask(w) PROVE DamageInv'
  <2>1. /\ writing[w] \in Busy /\ Abandon(w) /\ interrupted' = Interruption
        /\ writing' = [writing EXCEPT ![w] = "failed"]
    BY <1>3 DEF Fail, DropTask, RecordFails, RecordDropped, Goto
  <2>2. CASE writing[w] \in {"line", "newline"}
    <3>1. \A v \in Writers : writing'[v] # "newline"
      BY <1>0, <2>1, <2>2 DEF Mutex
    <3>2. QED
      BY <2>1, <2>2, <3>1, AbandonDamage
  <2>3. CASE writing[w] \notin {"line", "newline"}
    <3>1. lines' = lines /\ open' = open /\ holder' = holder
      BY <2>1, <2>3, AbandonCases
    <3>2. interrupted' = interrupted
      BY <2>1, <3>1 DEF Interruption
    <3>3. \A v \in Writers : writing'[v] = "newline" <=> writing[v] = "newline"
      BY <1>0, <2>1, <2>3
    <3>4. QED
      BY <3>1, <3>2, <3>3, DamageSame
  <2>4. QED
    BY <2>2, <2>3
<1>4. CASE ClearJournal
  <2>1. lines' = <<>> /\ open' = <<>> /\ interrupted' = 0
    BY <1>4 DEF ClearJournal, Journal!Clear
  <2>2. Bad' = {} /\ ~Torn'
    BY <2>1 DEF Bad, Torn
  <2>3. QED
    BY <2>1, <2>2, FS_EmptySet DEF DamageInv
<1>5. ASSUME NEW r \in index, RemoveVector(Id[r]) PROVE DamageInv'
  BY <1>5, DamageSame DEF RemoveVector, journalVars
<1>6. CASE Crash
  <2>1. /\ interrupted' = Interruption
        /\ writing' = [v \in Writers |-> IF writing[v] \in Busy THEN "failed" ELSE writing[v]]
    BY <1>6 DEF Crash
  <2>2. \A v \in Writers : writing'[v] # "newline"
    BY <2>1 DEF Busy
  <2>3. CASE lines' = lines /\ open' = open /\ holder = Journal!Nobody
    <3>1. interrupted' = interrupted
      BY <1>6, <2>1, <2>3, CrashCases DEF Interruption
    <3>2. \A v \in Writers : writing[v] # "newline"
      BY <1>0, <2>3, MutexAssumption DEF Mutex
    <3>3. QED
      BY <2>2, <2>3, <3>1, <3>2, DamageSame
  <2>4. CASE /\ holder \in Writers /\ writing[holder] \in {"line", "newline"}
             /\ Abandon(holder)
    BY <2>1, <2>2, <2>4, AbandonDamage
  <2>5. QED
    BY <1>6, <2>3, <2>4, CrashCases
<1>7. CASE UNCHANGED vars
  BY <1>7, DamageSame DEF vars, busVars
<1>8. QED
  BY <1>1, <1>2, <1>3, <1>4, <1>5, <1>6, <1>7 DEF Next, Finished

LEMMA DamageIsBounded == Base /\ DamageInv => DamageBounded
<1> SUFFICES ASSUME Base, DamageInv, NEW view \in Views
             PROVE  Cardinality(Journal!Unreadable(view))
                      <= interrupted + IF holder = Journal!Nobody THEN 0 ELSE 1
  BY DEF DamageBounded
<1> DEFINE chunks == Journal!Chunks(view)
<1>1. /\ Journal!JournalTypeOK /\ Mutex /\ holder \in Writers \cup {Journal!Nobody}
  BY DEF Base, BusInv, BusTypeOK, Journal!JournalTypeOK
<1>2. /\ interrupted \in Nat /\ Cardinality(Bad) \in Nat /\ IsFiniteSet(Bad)
      /\ Cardinality(Bad) + (IF Torn THEN 1 ELSE 0) <= interrupted
  BY <1>1, BadCount DEF DamageInv
<1>3. /\ Len(chunks) \in {Len(lines), Len(lines) + 1} /\ Len(lines) \in Nat
      /\ \A i \in 1..Len(lines) : chunks[i] = lines[i]
      /\ holder \notin Writers /\ open = <<>> => Len(chunks) = Len(lines)
  BY <1>1, ViewLines
<1>4. Journal!Unreadable(view) = {i \in 1..Len(chunks) : ~Journal!Readable(chunks[i])}
  BY DEF Journal!Unreadable
<1> HIDE DEF chunks
<1>5. CASE Len(chunks) = Len(lines)
  <2>1. Journal!Unreadable(view) = Bad
    BY <1>3, <1>4, <1>5 DEF Bad, Journal!Readable
  <2>2. QED
    BY <1>2, <2>1
<1>6. CASE Len(chunks) = Len(lines) + 1
  <2>1. \/ Journal!Unreadable(view) = Bad
        \/ Journal!Unreadable(view) = Bad \cup {Len(lines) + 1}
    BY <1>3, <1>4, <1>6 DEF Bad, Journal!Readable
  <2>2. /\ Cardinality(Bad \cup {Len(lines) + 1}) \in Nat
        /\ Cardinality(Bad \cup {Len(lines) + 1}) <= Cardinality(Bad) + 1
    BY <1>2, OneMore
  <2>3. /\ Cardinality(Journal!Unreadable(view)) \in Nat
        /\ Cardinality(Journal!Unreadable(view)) <= Cardinality(Bad) + 1
    <3>1. CASE Journal!Unreadable(view) = Bad
      BY <1>2, <3>1
    <3>2. CASE Journal!Unreadable(view) = Bad \cup {Len(lines) + 1}
      BY <2>2, <3>2
    <3>3. QED
      BY <2>1, <3>1, <3>2
  <2>4. CASE holder = Journal!Nobody
    <3>1. open # <<>> /\ \A w \in Writers : writing[w] # "newline"
      BY <1>1, <1>3, <1>6, <2>4, MutexAssumption DEF Mutex
    <3>2. Torn
      BY <1>1, <3>1 DEF Torn, Journal!JournalTypeOK
    <3>3. QED
      BY <1>2, <2>3, <2>4, <3>2
  <2>5. CASE holder # Journal!Nobody
    BY <1>2, <2>3, <2>5
  <2>6. QED
    BY <2>4, <2>5
<1>7. QED
  BY <1>3, <1>5, <1>6

\* However many writers fail or are dropped, and wherever: each interrupted
\* append spoils at most one line, and a reader meets at most one more, the one
\* that is being written.
THEOREM DamageIsLocal == Spec => []DamageBounded
<1>1. Init => Base /\ DamageInv
  BY BaseStart, DamageStart
<1>2. Base /\ DamageInv /\ [Next]_vars => (Base /\ DamageInv)'
  BY BaseStep, DamageStep
<1>3. QED
  BY <1>1, <1>2, DamageIsBounded, PTL DEF Spec

-----------------------------------------------------------------------------
(* What recall() answers                                                    *)

IndexInv ==
  /\ clears \in Nat
  /\ IsFiniteSet(index)
  /\ \A p, s \in index : Id[p] = Id[s] => p = s
  /\ clears = 0 => /\ index \subseteq written
                   /\ \A w \in Writers : writing[w] = "index" => job[w] \in written

LEMMA IndexStart == Init => IndexInv
<1> SUFFICES ASSUME Init PROVE IndexInv
  OBVIOUS
<1>1. index = {} /\ clears = 0 /\ writing = [w \in Writers |-> "idle"]
  BY DEF Init, BusInit, Vector!VectorInit
<1>2. QED
  BY <1>1, FS_EmptySet DEF IndexInv

LEMMA IndexFewer ==
  ASSUME IndexInv, index' \in SUBSET index, clears' = clears, job' = job,
         written \subseteq written',
         \A w \in Writers : writing'[w] = "index" => writing[w] = "index"
  PROVE  IndexInv'
  BY FS_Subset DEF IndexInv

LEMMA IndexProceed ==
  ASSUME Base, IndexInv, NEW w \in Writers, Proceed(w)
  PROVE  IndexInv'
<1>1. /\ writing \in [Writers -> Busy \cup {"idle", "ok", "failed"}]
      /\ clears' = clears /\ job' = job /\ written \subseteq written'
  BY StepFile DEF Base, BusInv, BusTypeOK, Proceed, counters
<1>2. CASE LockJournal(w) \/ WriteLine(w)
  BY <1>1, <1>2, IndexFewer DEF LockJournal, WriteLine, Goto
<1>3. CASE WriteNewline(w)
  <2>1. /\ index' = index /\ writing[w] = "newline" /\ written' = written \cup {job[w]}
        /\ \E to \in {"index", "ok"} : writing' = [writing EXCEPT ![w] = to]
    BY <1>3 DEF WriteNewline, Proceed, Goto
  <2>2. ASSUME clears = 0, NEW v \in Writers, writing'[v] = "index" PROVE job'[v] \in written'
    BY <1>1, <2>1, <2>2 DEF IndexInv
  <2>3. QED
    BY <1>1, <2>1, <2>2 DEF IndexInv
<1>4. CASE Upsert(w)
  <2>1. /\ writing[w] = "index" /\ writing' = [writing EXCEPT ![w] = "ok"]
        /\ index' = {p \in index : Id[p] # Id[job[w]]} \cup {job[w]}
    BY <1>4 DEF Upsert, Vector!Upsert, Goto
  <2>2. IsFiniteSet({p \in index : Id[p] # Id[job[w]]})
    BY FS_Subset DEF IndexInv
  <2>3. IsFiniteSet(index')
    BY <2>1, <2>2, FS_AddElement
  <2>4. \A p, s \in index' : Id[p] = Id[s] => p = s
    BY <2>1 DEF IndexInv
  <2>5. clears = 0 => index' \subseteq written'
    BY <1>1, <2>1 DEF IndexInv
  <2>6. ASSUME NEW v \in Writers, writing'[v] = "index" PROVE writing[v] = "index"
    BY <1>1, <2>1, <2>6
  <2>7. QED
    BY <1>1, <2>3, <2>4, <2>5, <2>6 DEF IndexInv
<1>5. QED
  BY <1>2, <1>3, <1>4 DEF Proceed, RecordStep

LEMMA IndexStep == Base /\ IndexInv /\ [Next]_vars => IndexInv'
<1> SUFFICES ASSUME Base, IndexInv, [Next]_vars PROVE IndexInv'
  OBVIOUS
<1>0. writing \in [Writers -> Busy \cup {"idle", "ok", "failed"}]
  BY DEF Base, BusInv, BusTypeOK
<1>1. ASSUME NEW w \in Writers, NEW r \in Records, Record(w, r) PROVE IndexInv'
  <2>1. /\ index' = index /\ clears' = clears /\ written' = written
        /\ writing[w] = "idle" /\ writing' = [writing EXCEPT ![w] = "lock"]
        /\ job' = [job EXCEPT ![w] = r]
    BY <1>1 DEF Record, PushVolatile, Goto, counters
  <2>2. ASSUME NEW v \in Writers, writing'[v] = "index"
        PROVE  writing[v] = "index" /\ job'[v] = job[v]
    BY <1>0, <2>1, <2>2 DEF Base, BusInv, BusTypeOK
  <2>3. QED
    BY <2>1, <2>2 DEF IndexInv
<1>2. ASSUME NEW w \in Writers, Proceed(w) PROVE IndexInv'
  BY <1>2, IndexProceed
<1>3. ASSUME NEW w \in Writers, Fail(w) \/ DropTask(w) PROVE IndexInv'
  <2>1. /\ index' = index /\ clears' = clears /\ written' = written /\ job' = job
        /\ writing' = [writing EXCEPT ![w] = "failed"]
    BY <1>3 DEF Fail, DropTask, RecordFails, RecordDropped, Goto, counters
  <2>2. \A v \in Writers : writing'[v] = "index" => writing[v] = "index"
    BY <1>0, <2>1
  <2>3. QED
    BY <2>1, <2>2, IndexFewer
<1>4. CASE ClearJournal
  <2>1. clears' = clears + 1 /\ index' = index
    BY <1>4 DEF ClearJournal
  <2>2. clears' \in Nat /\ clears' # 0
    BY <2>1 DEF IndexInv
  <2>3. QED
    BY <2>1, <2>2 DEF IndexInv
<1>5. ASSUME NEW r \in index, RemoveVector(Id[r]) PROVE IndexInv'
  <2>1. /\ index' \in SUBSET index /\ UNCHANGED <<clears, written, writing, job>>
    BY <1>5 DEF RemoveVector, Vector!RemovePoint
  <2>2. QED
    BY <2>1, IndexFewer
<1>6. CASE Crash
  <2>1. /\ index' \in SUBSET index /\ UNCHANGED <<clears, written, job>>
        /\ writing' = [v \in Writers |-> IF writing[v] \in Busy THEN "failed" ELSE writing[v]]
    BY <1>6 DEF Crash
  <2>2. \A v \in Writers : writing'[v] # "index"
    BY <2>1 DEF Busy
  <2>3. QED
    BY <2>1, <2>2, IndexFewer
<1>7. CASE UNCHANGED vars
  BY <1>7, IndexFewer DEF vars, busVars, counters
<1>8. QED
  BY <1>1, <1>2, <1>3, <1>4, <1>5, <1>6, <1>7 DEF Next, Finished

\* Every candidate has a place in the order the matches are put in.
LEMMA AllPlaced ==
  ASSUME NEW S, IsFiniteSet(S), NEW t \in Vector!SetToSeqs(S)
  PROVE  /\ t \in Seq(S) /\ Len(t) = Cardinality(S) /\ Cardinality(S) \in Nat
         /\ \A i, j \in 1..Len(t) : t[i] = t[j] => i = j
         /\ \A p \in S : \E i \in 1..Len(t) : t[i] = p
<1> DEFINE D == 1..Cardinality(S)
<1>1. Cardinality(S) \in Nat
  BY FS_CardinalityType
<1>2. t \in [D -> S] /\ \A i, j \in D : i # j => t[i] # t[j]
  <2>1. Vector!Cardinality(S) = Cardinality(S)
    BY DEF Vector!Cardinality, Cardinality
  <2>2. QED
    BY <2>1 DEF Vector!SetToSeqs
<1>3. t \in Seq(S) /\ Len(t) = Cardinality(S)
  BY <1>1, <1>2
<1>4. IsFiniteSet(D) /\ Cardinality(D) = Cardinality(S)
  BY <1>1, FS_Interval
<1>5. t \in Injection(D, S)
  BY <1>2 DEF Injection, IsInjective
<1>6. t \in Surjection(D, S)
  BY <1>4, <1>5, FS_Injection
<1>7. \A p \in S : \E i \in D : t[i] = p
  BY <1>6 DEF Surjection
<1>8. QED
  BY <1>1, <1>2, <1>3, <1>7

\* The matches are the first top_k of the candidates in some order, and in the
\* order of their similarity if it is one.
LEMMA AnswerIs ==
  ASSUME IsFiniteSet(index), NEW q \in Queries, NEW answer \in Vector!Query(q),
         NEW found, found = {answer[i] : i \in 1..Len(answer)}
  PROVE  /\ found \subseteq Vector!Candidates(q)
         /\ Cardinality(found) < q.top_k => found = Vector!Candidates(q)
         /\ (\A p \in Vector!Candidates(q) : ~Vector!Score(q, p).nan)
              => \A p \in found, s \in Vector!Candidates(q) \ found :
                   ~Vector!Exceeds(Vector!Score(q, s), Vector!Score(q, p))
<1> DEFINE fit == Vector!Candidates(q)
<1>1. IsFiniteSet(fit)
  BY FS_Subset DEF Vector!Candidates
<1>2. PICK t \in Vector!SetToSeqs(fit) :
        Vector!Sorted(q, t) /\ answer = Vector!Truncate(t, q.top_k)
  BY DEF Vector!Query
<1>3. /\ t \in Seq(fit) /\ Len(t) = Cardinality(fit) /\ Cardinality(fit) \in Nat
      /\ \A i, j \in 1..Len(t) : t[i] = t[j] => i = j
      /\ \A p \in fit : \E i \in 1..Len(t) : t[i] = p
  BY <1>1, AllPlaced
<1> HIDE DEF fit
<1> DEFINE k == IF q.top_k < Len(t) THEN q.top_k ELSE Len(t)
<1>4. q.top_k \in Nat /\ k \in 0..Len(t) /\ k \in Nat
  BY <1>3, ServiceAssumption
<1>5. answer = SubSeq(t, 1, k)
  BY <1>2 DEF Vector!Truncate
<1> HIDE DEF k
<1>6. Len(answer) = k /\ \A i \in 1..k : answer[i] = t[i] /\ i \in 1..Len(t)
  BY <1>3, <1>4, <1>5
<1>7. found = {t[i] : i \in 1..k}
  BY <1>6
<1>8. found \subseteq fit
  BY <1>3, <1>6, <1>7
<1>9. ASSUME Cardinality(found) < q.top_k PROVE found = fit
  <2>1. k = Len(t)
    <3> SUFFICES ASSUME k # Len(t) PROVE FALSE
      OBVIOUS
    <3>1. k = q.top_k
      BY DEF k
    <3> DEFINE f == [i \in 1..k |-> t[i]]
    <3>2. f \in Injection(1..k, found)
      BY <1>3, <1>6, <1>7 DEF Injection, IsInjective
    <3>3. IsFiniteSet(found)
      BY <1>1, <1>8, FS_Subset
    <3>4. Cardinality(1..k) <= Cardinality(found)
      BY <3>2, <3>3, FS_Injection
    <3>5. Cardinality(1..k) = k /\ Cardinality(found) \in Nat
      BY <1>4, <3>3, FS_Interval, FS_CardinalityType
    <3>6. QED
      BY <1>4, <1>9, <3>1, <3>4, <3>5
  <2>2. QED
    BY <1>3, <1>7, <1>8, <2>1
<1>10. ASSUME \A p \in fit : ~Vector!Score(q, p).nan, NEW p \in found, NEW s \in fit \ found
       PROVE  ~Vector!Exceeds(Vector!Score(q, s), Vector!Score(q, p))
  <2>1. PICK i \in 1..k : p = t[i]
    BY <1>7
  <2>2. PICK j \in 1..Len(t) : s = t[j]
    BY <1>3
  <2>3. j \notin 1..k
    BY <1>7, <1>10, <2>2
  <2>4. i \in 1..Len(t) /\ i < j
    BY <1>3, <1>4, <1>6, <2>3
  <2>5. \A m, n \in 1..Len(t) : m < n => ~Vector!Exceeds(Vector!Score(q, t[n]), Vector!Score(q, t[m]))
    BY <1>2, <1>10 DEF Vector!Sorted, fit
  <2>6. QED
    BY <2>1, <2>2, <2>4, <2>5
<1>11. QED
  BY <1>8, <1>9, <1>10 DEF fit

LEMMA IndexIsFaithful == IndexInv => RecallFaithful
<1> SUFFICES ASSUME IndexInv PROVE RecallFaithful
  OBVIOUS
<1>1. ASSUME NEW q \in Queries, NEW answer \in Vector!Query(q)
      PROVE  LET found == {answer[i] : i \in 1..Len(answer)}
                 fit   == {p \in index : q.tags \subseteq PointTags[p]
                                         /\ Len(Embedding[p]) = Len(q.embedding)}
             IN  /\ clears = 0 => found \subseteq written
                 /\ found \subseteq fit
                 /\ \A p, s \in found : Id[p] = Id[s] => p = s
                 /\ Cardinality(found) < q.top_k => found = fit
                 /\ (\A p \in fit : ~Vector!Score(q, p).nan)
                      => \A p \in found, s \in fit \ found :
                           ~Vector!Exceeds(Vector!Score(q, s), Vector!Score(q, p))
  <2> DEFINE found == {answer[i] : i \in 1..Len(answer)}
             fit   == {p \in index : q.tags \subseteq PointTags[p]
                                     /\ Len(Embedding[p]) = Len(q.embedding)}
  <2>1. fit = Vector!Candidates(q) /\ fit \subseteq index
    BY DEF Vector!Candidates
  <2>2. IsFiniteSet(index)
    BY DEF IndexInv
  <2>3. PICK matches : matches = found
    OBVIOUS
  <2>4. /\ matches \subseteq Vector!Candidates(q)
        /\ Cardinality(matches) < q.top_k => matches = Vector!Candidates(q)
        /\ (\A p \in Vector!Candidates(q) : ~Vector!Score(q, p).nan)
             => \A p \in matches, s \in Vector!Candidates(q) \ matches :
                  ~Vector!Exceeds(Vector!Score(q, s), Vector!Score(q, p))
    BY <2>2, <2>3, AnswerIs
  <2> HIDE DEF fit, found
  <2>5. clears = 0 => found \subseteq written
    BY <2>1, <2>3, <2>4 DEF IndexInv
  <2>6. \A p, s \in found : Id[p] = Id[s] => p = s
    BY <2>1, <2>3, <2>4 DEF IndexInv
  <2>7. /\ found \subseteq fit
        /\ Cardinality(found) < q.top_k => found = fit
        /\ (\A p \in fit : ~Vector!Score(q, p).nan)
             => \A p \in found, s \in fit \ found :
                  ~Vector!Exceeds(Vector!Score(q, s), Vector!Score(q, p))
    BY <2>1, <2>3, <2>4
  <2>8. QED
    BY <2>5, <2>6, <2>7 DEF found, fit
<1>2. QED
  BY <1>1 DEF RecallFaithful

\* For every embedding, query and choice of ids: nothing can be recalled that is
\* not on a finished line of the journal, ids are distinct, and no match is
\* passed over.
THEOREM RecallCorrect == Spec => []RecallFaithful
<1>1. Init => Base /\ IndexInv
  BY BaseStart, IndexStart
<1>2. Base /\ IndexInv /\ [Next]_vars => (Base /\ IndexInv)'
  BY BaseStep, IndexStep
<1>3. QED
  BY <1>1, <1>2, IndexIsFaithful, PTL DEF Spec
=============================================================================
