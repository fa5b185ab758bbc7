----------------------------- MODULE FileJournal -----------------------------
(***************************************************************************)
(* agent-memory/src/journal.rs: a file of lines, one JSON record each,     *)
(* appended under a mutex.  append() hands the record and then the newline *)
(* to the file; an error, a dropped task or a crash in between leaves an   *)
(* unfinished line, which the next append continues.  tail() reads the     *)
(* file without the mutex and fails on any line that is not one record.    *)
(***************************************************************************)
EXTENDS Naturals, Sequences

CONSTANTS Writers, Records

VARIABLES lines,    \* the finished lines, each a sequence of pieces
          open,     \* the pieces after the last newline
          holder    \* who holds the mutex

Nobody == "nobody"

\* The bytes one append left in the file: the record, or a part of it.
Piece == [record : Records, whole : BOOLEAN]
Whole(r) == [record |-> r, whole |-> TRUE]
Part(r) == [record |-> r, whole |-> FALSE]

JournalTypeOK ==
  /\ lines \in Seq(Seq(Piece))
  /\ open \in Seq(Piece)
  /\ holder \in Writers \cup {Nobody}

JournalInit ==
  /\ lines = <<>>
  /\ open = <<>>
  /\ holder = Nobody

\* Variant: writers do not exclude each other.
Unlocked(w) ==
  /\ holder' = w
  /\ UNCHANGED <<lines, open>>

Lock(w) ==
  /\ holder = Nobody
  /\ holder' = w
  /\ UNCHANGED <<lines, open>>

WriteLine(r) ==
  /\ open' = Append(open, Whole(r))
  /\ UNCHANGED <<lines, holder>>

\* Variant: the newline is forgotten.
SkipNewline ==
  /\ holder' = Nobody
  /\ UNCHANGED <<lines, open>>

\* The newline is written and the guard dropped.
WriteNewline ==
  /\ lines' = Append(lines, open)
  /\ open' = <<>>
  /\ holder' = Nobody

\* The guard is dropped early: nothing more, or a part of r, got into the file.
AbandonLine(r) ==
  /\ open' = open \/ open' = Append(open, Part(r))
  /\ holder' = Nobody
  /\ UNCHANGED lines

\* The file buffers what it is handed: when the second write stops early the
\* record may have got in whole, in part or not at all, and if it is whole the
\* newline may follow it.
AbandonNewline(r) ==
  LET before == SubSeq(open, 1, Len(open) - 1)
  IN  /\ holder' = Nobody
      /\ \/ open' \in {open, before, Append(before, Part(r))} /\ UNCHANGED lines
         \/ lines' = Append(lines, open) /\ open' = <<>>

\* clear() rewinds and truncates under the mutex.
Clear ==
  /\ holder = Nobody
  /\ lines' = <<>>
  /\ open' = <<>>
  /\ UNCHANGED holder

-----------------------------------------------------------------------------
\* What fs::read may return: the file, or, since it does not take the mutex and
\* the file writes in the background, what it is on the way to becoming while
\* the holder writes r.
AtRest == [lines |-> lines, open |-> open]

ViewsWriting(r, stage) ==
  LET before == SubSeq(open, 1, Len(open) - 1)
      torn(o) == {[AtRest EXCEPT !.open = o], [AtRest EXCEPT !.open = Append(o, Part(r))]}
  IN  IF stage = "line" THEN torn(open)
      ELSE torn(before) \cup {AtRest, [lines |-> Append(lines, open), open |-> <<>>]}

\* data.split(newline) without the empty chunks.
Chunks(view) == IF view.open = <<>> THEN view.lines ELSE Append(view.lines, view.open)

\* serde_json::from_slice accepts exactly one record.
Readable(chunk) == Len(chunk) = 1 /\ chunk[1].whole

Unreadable(view) == {i \in 1..Len(Chunks(view)) : ~Readable(Chunks(view)[i])}

\* tail(limit): the latest records, oldest first, or an error.
TailOf(view, limit) ==
  LET chunks == Chunks(view)
      skip   == IF Len(chunks) <= limit THEN 0 ELSE Len(chunks) - limit
  IN  IF limit = 0 THEN [ok |-> TRUE, records |-> <<>>]
      ELSE [ok |-> Unreadable(view) = {},
            records |-> [i \in 1..(Len(chunks) - skip) |-> chunks[skip + i][1].record]]
=============================================================================
