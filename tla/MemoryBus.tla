------------------------------ MODULE MemoryBus ------------------------------
(***************************************************************************)
(* agent-memory/src/bus.rs: MemoryBus::record pushes a record into the     *)
(* volatile ring, appends it to the journal and, if it has an embedding,   *)
(* upserts it into the vector store.  The three writes are not atomic: any *)
(* of them may be the last one, because it fails or because the task that  *)
(* records is dropped.                                                     *)
(***************************************************************************)
EXTENDS Integers, Sequences

CONSTANTS Writers,    \* tasks that share the bus
          Records,
          Size, Capacity, MaxBytes,
          Id, Embedding, PointTags, MaxFloat,
          NoRecord

ASSUME BusAssumption ==
  /\ Size \in [Records -> Nat]
  /\ Capacity \in Nat \ {0}
  /\ MaxBytes \in Nat
  /\ Embedding \in [Records -> Seq(Int)]
  /\ PointTags \in [Records -> SUBSET STRING]
  /\ DOMAIN Id = Records
  /\ MaxFloat \in Nat
  /\ NoRecord \notin Records

VARIABLES
  entries, bytes,        \* VolatileMemory
  lines, open, holder,   \* FileJournal
  index,                 \* VectorStore
  writing,               \* progress of each writer's latest record()
  job                    \* the record it is about

volatileVars == <<entries, bytes>>
journalVars == <<lines, open, holder>>
busVars == <<entries, bytes, lines, open, holder, index, writing, job>>

Volatile == INSTANCE VolatileMemory
Journal == INSTANCE FileJournal
Vector == INSTANCE VectorStore

ASSUME MutexAssumption == Journal!Nobody \notin Writers

\* The records whose builder was given an embedding.
Embedded == {r \in Records : Embedding[r] # <<>>}

Busy == {"lock", "line", "newline", "index"}

BusTypeOK ==
  /\ Volatile!VolatileTypeOK
  /\ Journal!JournalTypeOK
  /\ index \in SUBSET Records
  /\ writing \in [Writers -> Busy \cup {"idle", "ok", "failed"}]
  /\ job \in [Writers -> Records \cup {NoRecord}]

BusInit ==
  /\ Volatile!VolatileInit
  /\ Journal!JournalInit
  /\ Vector!VectorInit
  /\ writing = [w \in Writers |-> "idle"]
  /\ job = [w \in Writers |-> NoRecord]

Goto(w, to) == writing' = [writing EXCEPT ![w] = to]

-----------------------------------------------------------------------------
(* record(), one step per await *)

\* Variant: the journal is handed a record that is not there yet.
PushUnassigned(w, r) ==
  /\ writing[w] \notin Busy
  /\ Volatile!Push(r)
  /\ Goto(w, "lock")
  /\ UNCHANGED <<journalVars, index, job>>

PushVolatile(w, r) ==
  /\ writing[w] \notin Busy
  /\ Volatile!Push(r)
  /\ job' = [job EXCEPT ![w] = r]
  /\ Goto(w, "lock")
  /\ UNCHANGED <<journalVars, index>>

LockJournal(w) ==
  /\ writing[w] = "lock"
  /\ Journal!Lock(w)
  /\ Goto(w, "line")
  /\ UNCHANGED <<volatileVars, index, job>>

WriteLine(w) ==
  /\ writing[w] = "line"
  /\ Journal!WriteLine(job[w])
  /\ Goto(w, "newline")
  /\ UNCHANGED <<volatileVars, index, job>>

WriteNewline(w) ==
  /\ writing[w] = "newline"
  /\ Journal!WriteNewline
  /\ Goto(w, IF job[w] \in Embedded THEN "index" ELSE "ok")
  /\ UNCHANGED <<volatileVars, index, job>>

Upsert(w) ==
  /\ writing[w] = "index"
  /\ Vector!Upsert(job[w])
  /\ Goto(w, "ok")
  /\ UNCHANGED <<volatileVars, journalVars, job>>

-----------------------------------------------------------------------------
\* What a reader of the journal file may see at this moment.
Views ==
  IF holder \in Writers /\ writing[holder] \in {"line", "newline"}
    THEN Journal!ViewsWriting(job[holder], writing[holder])
    ELSE {Journal!AtRest}

-----------------------------------------------------------------------------
(* record() stops early *)

\* Variant: the mutex stays locked when a write fails.
AbandonLocked(w) ==
  CASE writing[w] = "line" -> \/ open' = Append(open, Journal!Part(job[w]))
                                 /\ UNCHANGED <<lines, holder>>
                              \/ UNCHANGED journalVars
    [] OTHER               -> UNCHANGED journalVars

\* What the file and the mutex look like when record() stops where it is.
Abandon(w) ==
  CASE writing[w] = "line"    -> Journal!AbandonLine(job[w])
    [] writing[w] = "newline" -> Journal!AbandonNewline(job[w])
    [] OTHER                  -> UNCHANGED journalVars

\* A write fails and record() returns the error ...
RecordFails(w) ==
  /\ writing[w] \in Busy \ {"lock"}
  /\ Abandon(w)
  /\ Goto(w, "failed")
  /\ UNCHANGED <<volatileVars, index, job>>

\* ... or the task is dropped at an await point.
RecordDropped(w) ==
  /\ writing[w] \in Busy
  /\ Abandon(w)
  /\ Goto(w, "failed")
  /\ UNCHANGED <<volatileVars, index, job>>

RecordStep(w) ==
  LockJournal(w) \/ WriteLine(w) \/ WriteNewline(w) \/ Upsert(w)
=============================================================================
