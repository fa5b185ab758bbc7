---------------------------- MODULE MemoryService ----------------------------
(***************************************************************************)
(* A memory bus on its own: writers record the given records, each once,   *)
(* the owner clears the journal and removes points, others query, writes   *)
(* fail, tasks are dropped and the process crashes and starts again on the *)
(* same journal file.                                                      *)
(***************************************************************************)
EXTENDS MemoryBus, FiniteSets

CONSTANTS
  Queries,      \* the queries recall() is asked
  MaxCrashes,   \* bound: restarts
  MaxOwner      \* bound: clear() and remove() calls

ASSUME ServiceAssumption ==
  /\ \A q \in Queries : q.top_k \in Nat
  /\ MaxCrashes \in Nat
  /\ MaxOwner \in Nat

VARIABLES
  pushed,       \* the records pushed since the process started, oldest first
  written,      \* records whose append() returned Ok since the last clear
  interrupted,  \* appends that stopped after writing since the last clear
  crashes, clears, removes

counters == <<crashes, clears, removes>>
vars == <<busVars, pushed, written, interrupted, counters>>

Init ==
  /\ BusInit
  /\ pushed = <<>>
  /\ written = {}
  /\ interrupted = 0
  /\ crashes = 0
  /\ clears = 0
  /\ removes = 0

Used == {job[w] : w \in Writers}

\* record() is called for a record no writer has worked on yet.
Record(w, r) ==
  /\ writing[w] = "idle"
  /\ r \notin Used
  /\ PushVolatile(w, r)
  /\ pushed' = Append(pushed, r)
  /\ UNCHANGED <<written, interrupted, counters>>

Proceed(w) ==
  /\ RecordStep(w)
  /\ written' = IF writing[w] = "newline" THEN written \cup {job[w]} ELSE written
  /\ UNCHANGED <<pushed, interrupted, counters>>

Interruption == IF open' # <<>> /\ holder' # holder THEN interrupted + 1 ELSE interrupted

Fail(w) ==
  /\ RecordFails(w)
  /\ interrupted' = Interruption
  /\ UNCHANGED <<pushed, written, counters>>

DropTask(w) ==
  /\ RecordDropped(w)
  /\ interrupted' = Interruption
  /\ UNCHANGED <<pushed, written, counters>>

ClearJournal ==
  /\ clears + removes < MaxOwner
  /\ clears' = clears + 1
  /\ Journal!Clear
  /\ written' = {}
  /\ interrupted' = 0
  /\ UNCHANGED <<volatileVars, index, writing, job, pushed, crashes, removes>>

RemoveVector(id) ==
  /\ clears + removes < MaxOwner
  /\ removes' = removes + 1
  /\ Vector!RemovePoint(id)
  /\ UNCHANGED <<volatileVars, journalVars, writing, job, pushed, written, interrupted,
                 crashes, clears>>

\* What was handed to the file survives, the rest does not; a new process opens
\* the journal again with an empty ring and vector store.
Crash ==
  /\ crashes < MaxCrashes
  /\ crashes' = crashes + 1
  /\ IF holder = Journal!Nobody THEN UNCHANGED journalVars ELSE Abandon(holder)
  /\ interrupted' = Interruption
  /\ entries' = <<>> /\ bytes' = 0 /\ index' = {}
  /\ writing' = [w \in Writers |-> IF writing[w] \in Busy THEN "failed" ELSE writing[w]]
  /\ pushed' = <<>>
  /\ UNCHANGED <<job, written, clears, removes>>

Finished ==
  /\ \A w \in Writers : writing[w] \in {"ok", "failed"}
  /\ UNCHANGED vars

Next ==
  \/ \E w \in Writers : \/ \E r \in Records : Record(w, r)
                        \/ Proceed(w)
                        \/ Fail(w)
                        \/ DropTask(w)
  \/ ClearJournal
  \/ \E r \in index : RemoveVector(Id[r])
  \/ Crash
  \/ Finished

\* A task that records is polled until it is done; file operations return, with
\* or without an error.
Fairness == \A w \in Writers : WF_vars(Proceed(w) \/ Fail(w))

Spec == Init /\ [][Next]_vars /\ Fairness

-----------------------------------------------------------------------------
TypeOK ==
  /\ BusTypeOK
  /\ pushed \in Seq(Records)
  /\ written \in SUBSET Records
  /\ interrupted \in Nat
  /\ crashes \in 0..MaxCrashes
  /\ clears \in 0..MaxOwner
  /\ removes \in 0..MaxOwner

\* The ring is exactly the longest run of latest records that fits both
\* ceilings (a single record always stays), recent() returns the end of it, and
\* the running byte count has not drifted from its contents, whatever the sizes
\* and the order of arrival.
Latest(n) == SubSeq(pushed, Len(pushed) - n + 1, Len(pushed))
Fits(n) == n <= Capacity /\ (n <= 1 \/ MaxBytes = 0 \/ Volatile!BytesOf(Latest(n)) <= MaxBytes)

RingKeepsLatest ==
  /\ bytes = Volatile!BytesOf(entries)
  /\ \A n \in 0..Len(entries) : Volatile!Recent(n) = Latest(n)
  /\ Volatile!Recent(Len(entries) + 1) = entries
  /\ Fits(Len(entries))
  /\ Len(entries) < Len(pushed) => ~Fits(Len(entries) + 1)

\* append() that returned Ok means one's own place in the file: the record is
\* there exactly once, on a finished line, shares that line with no other
\* record whose append() returned Ok, and every tail() of the whole file that
\* succeeds returns it, also while another record is being written.
Places(r) == {i \in 1..Len(lines) : \E k \in 1..Len(lines[i]) : lines[i][k] = Journal!Whole(r)}

WrittenOnOwnLine ==
  /\ \A r \in written : Cardinality(Places(r)) = 1
  /\ \A r, s \in written : r # s => Places(r) \cap Places(s) = {}
  /\ \A view \in Views :
       LET tail == Journal!TailOf(view, Len(Journal!Chunks(view)) + 1)
       IN  tail.ok => written \subseteq {tail.records[i] : i \in 1..Len(tail.records)}

\* Every interrupted append costs at most one line: it spoils the line it
\* started and through it the append that continues that line, nothing else.  A
\* reader, who does not take the mutex, meets at most one more: the line that is
\* being written.
DamageBounded ==
  \A view \in Views :
    Cardinality(Journal!Unreadable(view))
      <= interrupted + IF holder = Journal!Nobody THEN 0 ELSE 1

\* Whatever recall() answers was on a finished line of the journal before it
\* could be recalled; the matches have distinct ids and the tags and dimension
\* asked for, and no point is passed over for one that is less similar, unless
\* some score is not a number.  That takes embeddings so long that a product or a
\* partial sum overflows, but then happens between ordinary directions too
\* (Inf - Inf), and leaves the matches in any order.
RecallFaithful ==
  \A q \in Queries : \A answer \in Vector!Query(q) :
    LET found == {answer[i] : i \in 1..Len(answer)}
        fit   == {p \in index : q.tags \subseteq PointTags[p]
                                /\ Len(Embedding[p]) = Len(q.embedding)}
    IN  /\ clears = 0 => found \subseteq written
        /\ found \subseteq fit
        /\ \A p, s \in found : Id[p] = Id[s] => p = s
        /\ Cardinality(found) < q.top_k => found = fit
        /\ (\A p \in fit : ~Vector!Score(q, p).nan)
             => \A p \in found, s \in fit \ found :
                  ~Vector!Exceeds(Vector!Score(q, s), Vector!Score(q, p))

\* A write that fails, or a task dropped while it holds the journal's mutex,
\* never leaves the other writers waiting for good.
RecordsEnd ==
  \A w \in Writers : writing[w] = "lock" ~> writing[w] \in {"ok", "failed"}

\* docs/features.md:30: "FileJournal: append-only log for audit and replay".
\* Once the process runs again and nobody is appending, the log can be read.
ReplayAfterRestart ==
  crashes > 0 /\ holder = Journal!Nobody => Journal!TailOf(Journal!AtRest, 1).ok
=============================================================================
