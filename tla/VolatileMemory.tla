--------------------------- MODULE VolatileMemory ---------------------------
(***************************************************************************)
(* agent-memory/src/volatile.rs: a ring of the most recent records with a  *)
(* ceiling on their number and an optional one on their payload bytes.     *)
(* push() runs under the write lock and is one step.                       *)
(***************************************************************************)
EXTENDS Naturals, SequencesExt

CONSTANTS Records,
          Size,       \* payload length of each record
          Capacity,   \* VolatileConfig::capacity
          MaxBytes    \* VolatileConfig::max_total_bytes; 0: none

VARIABLES entries,    \* the buffer, oldest first
          bytes       \* VolatileInner::total_bytes, a running count

VolatileTypeOK ==
  /\ entries \in Seq(Records)
  /\ bytes \in Nat

VolatileInit ==
  /\ entries = <<>>
  /\ bytes = 0

BytesOf(s) == FoldLeft(LAMBDA sum, r : sum + Size[r], 0, s)

\* saturating_sub
Minus(a, b) == IF b > a THEN 0 ELSE a - b

\* What is left of buffer s and count b after n evictions from the front.
Evicted(s, b, n) ==
  [buffer |-> SubSeq(s, n + 1, Len(s)), count |-> Minus(b, BytesOf(SubSeq(s, 1, n)))]

\* Variant: the count keeps the bytes of what the number evicts.
EvictUncounted(s, b) ==
  [Evicted(s, b, IF Len(s) > Capacity THEN Len(s) - Capacity ELSE 0) EXCEPT !.count = b]

\* The two while loops: evict until the number fits, then until the count fits
\* or one entry is left.
EvictForCapacity(s, b) ==
  Evicted(s, b, IF Len(s) > Capacity THEN Len(s) - Capacity ELSE 0)

EvictForBytes(s, b) ==
  LET fits(n) == LET left == Evicted(s, b, n)
                 IN  left.count <= MaxBytes \/ Len(left.buffer) <= 1
  IN  IF MaxBytes = 0 THEN Evicted(s, b, 0)
      ELSE Evicted(s, b, CHOOSE n \in 0..Len(s) : fits(n) /\ \A k \in 0..(n - 1) : ~fits(k))

Push(r) ==
  LET byNumber == EvictForCapacity(Append(entries, r), bytes + Size[r])
      kept     == EvictForBytes(byNumber.buffer, byNumber.count)
  IN  /\ entries' = kept.buffer
      /\ bytes' = kept.count

\* recent(limit): the latest entries, oldest first.
Recent(limit) ==
  SubSeq(entries, Len(entries) - (IF limit < Len(entries) THEN limit ELSE Len(entries)) + 1,
         Len(entries))
=============================================================================
